----------------------------- MODULE SemanticCache -----------------------------
(***************************************************************************)
(* src/cache/semantic_cache.py and src/cache/cache_invalidator.py: answers *)
(* kept in a Redis list per bucket of similar queries, and the subscriber  *)
(* that takes the answers about a changed chip out of it.                  *)
(*                                                                         *)
(* One bucket, one chip.  Every command is a step of its own, and any of   *)
(* them may fail, which both classes log and forget.                       *)
(***************************************************************************)
EXTENDS Integers, Sequences, SequencesExt, FiniteSets, Lists

CONSTANTS
  Asker,          \* requests that look up, and put when they found nothing
  Asks,           \* Asks[r]: its query
  AboutChip,      \* queries with the part number of the chip in their text
  Resembles,      \* Resembles[q]: queries whose vector is near that of q
  Comparison,     \* queries answered with chip_compare
  BucketSize,
  MaxRevision     \* bound: changes of the chip

Question == {Asks[r] : r \in Asker}

ASSUME CacheAssumption ==
  /\ AboutChip \subseteq Question /\ Comparison \subseteq Question
  /\ Resembles \in [Question -> SUBSET Question]
  /\ BucketSize \in Nat \ {0} /\ MaxRevision \in Nat

VARIABLES
  revision,   \* of the chip, as the answers are made from it
  bucket,     \* the list: entries, oldest first
  bucketTtl,  \* "none", "conversational" or "comparison"
  asker,      \* requests: pc, the revision answered from, what they served
  listening,  \* the subscription is there
  mailbox,    \* messages not handled yet
  reader,     \* on_message: pc and what LRANGE returned
  cacheHist   \* history, see below

cacheVars == <<revision, bucket, bucketTtl, asker, listening, mailbox, reader, cacheHist>>

Revision == 0..MaxRevision
\* late: the chip had changed already when the answer was put.
Entry == [by : Asker, of : Revision, late : BOOLEAN]

CacheTypeOK ==
  /\ revision \in Revision
  /\ bucket \in Seq(Entry)
  /\ bucketTtl \in {"none", "conversational", "comparison"}
  /\ asker \in [Asker -> [pc : {"get", "answer", "push", "trim", "expire", "done"},
                          of : Revision, served : SUBSET Entry]]
  /\ listening \in BOOLEAN
  /\ mailbox \in 0..MaxRevision
  /\ reader \in [pc : {"idle", "rewrite"}, saw : Seq(Entry)]
  /\ cacheHist \in [untrimmed : Nat,    \* pushes in the list that no LTRIM has followed
                    putBack : Nat,      \* and in what on_message has read
                    unexpiring : BOOLEAN, \* the last EXPIRE did not reach this key
                    missed : BOOLEAN]     \* a message was not handled

Reading == [pc |-> "idle", saw |-> <<>>]

CacheInit ==
  /\ revision = 0 /\ bucket = <<>> /\ bucketTtl = "none"
  /\ asker = [r \in Asker |-> [pc |-> "get", of |-> 0, served |-> {}]]
  /\ listening \in BOOLEAN
  /\ mailbox = 0 /\ reader = Reading
  /\ cacheHist = [untrimmed |-> 0, putBack |-> 0, unexpiring |-> FALSE, missed |-> ~listening]

AskerAt(r, pc) == asker[r].pc = pc

-----------------------------------------------------------------------------
(* get *)

Matches(r) == {i \in DOMAIN bucket : Asks[bucket[i].by] \in Resembles[Asks[r]]}

\* The oldest entry that is near enough, or None: a failure is a miss, too.
CacheGet(r) ==
  /\ AskerAt(r, "get")
  /\ \/ \E i \in Matches(r) :
          /\ \A j \in Matches(r) : i <= j
          /\ asker' = [asker EXCEPT ![r].pc = "done", ![r].served = {bucket[i]}]
     \/ asker' = [asker EXCEPT ![r].pc = "answer"]
  /\ UNCHANGED <<revision, bucket, bucketTtl, listening, mailbox, reader, cacheHist>>

\* The answer is made from the chip as it is now.
MakeAnswer(r) ==
  /\ AskerAt(r, "answer")
  /\ asker' = [asker EXCEPT ![r].pc = "push", ![r].of = revision]
  /\ UNCHANGED <<revision, bucket, bucketTtl, listening, mailbox, reader, cacheHist>>

-----------------------------------------------------------------------------
(* put *)

CachePush(r) ==
  /\ AskerAt(r, "push")
  /\ bucket' = Append(bucket, [by |-> r, of |-> asker[r].of,
                               late |-> asker[r].of < revision])
  /\ cacheHist' = [cacheHist EXCEPT !.untrimmed = @ + 1,
                     !.unexpiring = @ /\ bucket # <<>>]
  /\ asker' = [asker EXCEPT ![r].pc = "trim"]
  /\ UNCHANGED <<revision, bucketTtl, listening, mailbox, reader>>

CacheTrim(r) ==
  /\ AskerAt(r, "trim")
  /\ bucket' = LastN(bucket, BucketSize)
  /\ cacheHist' = [cacheHist EXCEPT !.untrimmed = 0]
  /\ asker' = [asker EXCEPT ![r].pc = "expire"]
  /\ UNCHANGED <<revision, bucketTtl, listening, mailbox, reader>>

\* EXPIRE is for the whole bucket; it does nothing when the key is gone.
CacheExpire(r) ==
  /\ AskerAt(r, "expire")
  /\ bucketTtl' = CASE bucket = <<>> -> "none"
                    [] bucket # <<>> /\ Asks[r] \in Comparison -> "comparison"
                    [] bucket # <<>> /\ Asks[r] \notin Comparison -> "conversational"
  /\ cacheHist' = [cacheHist EXCEPT !.unexpiring = FALSE]
  /\ asker' = [asker EXCEPT ![r].pc = "done"]
  /\ UNCHANGED <<revision, bucket, listening, mailbox, reader>>

\* A command of put raises: the entry may be there already.
PutFails(r) ==
  /\ asker[r].pc \in {"push", "trim", "expire"}
  /\ asker' = [asker EXCEPT ![r].pc = "done"]
  /\ cacheHist' = [cacheHist EXCEPT !.unexpiring =
                     @ \/ (~AskerAt(r, "push") /\ bucket # <<>> /\ bucketTtl = "none")]
  /\ UNCHANGED <<revision, bucket, bucketTtl, listening, mailbox, reader>>

\* Redis drops the key.
BucketExpires ==
  /\ bucketTtl # "none"
  /\ bucket' = <<>> /\ bucketTtl' = "none"
  /\ cacheHist' = [cacheHist EXCEPT !.untrimmed = 0]
  /\ UNCHANGED <<revision, asker, listening, mailbox, reader>>

-----------------------------------------------------------------------------
(* Invalidation *)

\* The chip changes and invalidate_for_chip publishes it: whoever is not
\* subscribed will never know, nor will anybody when the publish fails.
ChipChanges ==
  /\ revision < MaxRevision
  /\ revision' = revision + 1
  /\ \/ listening /\ mailbox' = mailbox + 1 /\ UNCHANGED cacheHist
     \/ mailbox' = mailbox /\ cacheHist' = [cacheHist EXCEPT !.missed = TRUE]
  /\ UNCHANGED <<bucket, bucketTtl, asker, listening, reader>>

\* stop(), seen with the next message; messages already there are dropped.
StopListening ==
  /\ listening /\ mailbox > 0 /\ reader.pc = "idle"
  /\ listening' = FALSE /\ mailbox' = 0
  /\ cacheHist' = [cacheHist EXCEPT !.missed = TRUE]
  /\ UNCHANGED <<revision, bucket, bucketTtl, asker, reader>>

\* subscribe() takes up the next message: on_message, to the LRANGE.
ReadBucket ==
  /\ listening /\ mailbox > 0 /\ reader.pc = "idle"
  /\ mailbox' = mailbox - 1
  /\ reader' = [pc |-> "rewrite", saw |-> bucket]
  /\ cacheHist' = [cacheHist EXCEPT !.putBack = cacheHist.untrimmed]
  /\ UNCHANGED <<revision, bucket, bucketTtl, asker, listening>>

\* Mutant: answers to comparisons are spared.
StaysComparisons(e) == Asks[e.by] \notin AboutChip \/ Asks[e.by] \in Comparison

Stays(e) == Asks[e.by] \notin AboutChip

Remaining(s) == Those(s, {e \in Entry : Stays(e)})

\* DELETE and the RPUSHes of what remains, in one transaction, if anything is
\* to go: what was put since the LRANGE goes, too, and so does the expiry; what
\* was trimmed since comes back.
RewriteBucket ==
  /\ reader.pc = "rewrite"
  /\ IF Len(Remaining(reader.saw)) < Len(reader.saw)
       THEN /\ bucket' = Remaining(reader.saw) /\ bucketTtl' = "none"
            /\ cacheHist' = [cacheHist EXCEPT
                 !.unexpiring = Remaining(reader.saw) # <<>>, !.untrimmed = cacheHist.putBack]
       ELSE UNCHANGED <<bucket, bucketTtl, cacheHist>>
  /\ reader' = Reading
  /\ UNCHANGED <<revision, asker, listening, mailbox>>

\* The handler raises somewhere: the message counts as handled.
HandlerFails ==
  /\ reader.pc = "rewrite"
  /\ reader' = Reading
  /\ cacheHist' = [cacheHist EXCEPT !.missed = TRUE]
  /\ UNCHANGED <<revision, bucket, bucketTtl, asker, listening, mailbox>>

CacheStep(r) ==
  CacheGet(r) \/ MakeAnswer(r) \/ CachePush(r) \/ CacheTrim(r) \/ CacheExpire(r) \/ PutFails(r)

CacheNext ==
  \/ \E r \in Asker : CacheStep(r)
  \/ BucketExpires \/ ChipChanges \/ StopListening
  \/ ReadBucket \/ RewriteBucket \/ HandlerFails

CacheSpec == CacheInit /\ [][CacheNext]_cacheVars

-----------------------------------------------------------------------------
(* Properties *)

\* The list is over its limit only by what was pushed since it was trimmed,
\* by puts that are under way or that failed - or trimmed after the
\* invalidator had read it, which then puts it back
\* (semantic_cache.py, line 133; cache_invalidator.py, lines 49-59).
BucketIsBounded == Len(bucket) <= BucketSize + cacheHist.untrimmed

\* Every bucket expires one day, unless its last writer was the invalidator
\* or a put that failed, or a put is about to set the expiry.
BucketsExpire ==
  bucket # <<>> /\ bucketTtl = "none" =>
    cacheHist.unexpiring \/ \E r \in Asker : asker[r].pc \in {"trim", "expire"}

\* Once all messages are handled, no answer made from an older revision of the
\* chip is left, but those that were put when it had changed already: a put
\* races the invalidator and wins by coming last.
InvalidationIsComplete ==
  mailbox = 0 /\ reader.pc = "idle" /\ ~cacheHist.missed =>
    \A i \in DOMAIN bucket :
      Asks[bucket[i].by] \in AboutChip /\ ~bucket[i].late => bucket[i].of = revision

\* The rewrite takes nothing that does not mention the chip, except what was
\* put after it had read the list (cache_invalidator.py, lines 49 and 56).
OnlyRacesDropAnswers ==
  [][reader.pc = "rewrite" /\ reader'.pc = "idle" =>
       \A i \in DOMAIN bucket :
         Asks[bucket[i].by] \in AboutChip \/ Contains(bucket', bucket[i])
           \/ ~Contains(reader.saw, bucket[i])]_cacheVars

\* The cache follows the chips: what is out of date goes and nothing else does,
\* and the list stays bounded and expires.
CacheFollowsTheChips ==
  /\ [](CacheTypeOK /\ InvalidationIsComplete /\ BucketIsBounded /\ BucketsExpire)
  /\ OnlyRacesDropAnswers
=============================================================================
