------------------------------- MODULE MCSignIn -------------------------------
(* Instances of SignIn for TLC. *)
EXTENDS SignIn, TLC

Addresses == [p \in Person |-> "registered"]  \* one the registration form may take, too

Facilities == {"client", "redis", "getdel", "pool", "fallback", "secret", "private", "public"}

\* A deployment that lacks some of its parts.
Lacking(missing, provider, who) ==
  [x \in Facilities |-> x \notin missing] @@ "who" :> who @@ "provider" :> provider

\* The logins are of the same person, or of two.
Same == [f \in Flow |-> "p1"]
Both == [f \in Flow |-> IF f = "f1" THEN "p1" ELSE "p2"]

Deployments ==
  {Lacking({}, "keycloak", Same),
   Lacking({}, "keycloak", Both),
   Lacking({"client"}, "keycloak", Same),
   Lacking({"redis"}, "keycloak", Same),
   Lacking({"pool"}, "feishu", Same),
   Lacking({}, "other", Same),
   Lacking({"getdel", "fallback", "private", "public"}, "dingtalk", Same),
   Lacking({"fallback", "secret"}, "feishu", Same),
   Lacking({"fallback", "secret", "private", "public"}, "keycloak", Same)}

Complete == {Lacking({}, "keycloak", Same)}
=============================================================================
