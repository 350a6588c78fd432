--------------------------- MODULE SecretExchange ---------------------------
(***************************************************************************)
(* What the exchange of secrets promises, whatever carries them: a         *)
(* resolver learns the secret of a fill after both escrows of that fill    *)
(* were deployed, and never before.                                        *)
(***************************************************************************)
CONSTANT Fill       \* the fills of one order

VARIABLES ready,    \* fills both of whose escrows were deployed
          known     \* fills whose secret the resolver has

vars == << ready, known >>

Init == ready = {} /\ known = {}

Deployed(i) == ready' = ready \cup {i} /\ UNCHANGED known

(* One message may carry several secrets.                                  *)
Learn(secrets) ==
  /\ secrets \subseteq ready
  /\ known' = known \cup secrets
  /\ UNCHANGED ready

Next == \/ \E i \in Fill : Deployed(i)
        \/ \E secrets \in SUBSET Fill : Learn(secrets)

Safe == Init /\ [][Next]_vars
=============================================================================
