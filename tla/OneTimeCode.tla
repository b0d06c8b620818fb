------------------------------ MODULE OneTimeCode ------------------------------
(***************************************************************************)
(* What AuthCodeService promises of its email codes (the comment of the    *)
(* class, auth/codes/auth-code.service.ts): a code is single use, and one  *)
(* that is dead (expired, replaced, or tried too often) is never accepted. *)
(***************************************************************************)
CONSTANT Codes

VARIABLE fate  \* what became of each code

States == {"unsent", "usable", "used", "dead"}

Init == fate = [c \in Codes |-> "unsent"]

Become(C, from, to) ==
    /\ \A c \in C : fate[c] = from
    /\ fate' = [c \in Codes |-> IF c \in C THEN to ELSE fate[c]]

Use(c) == Become({c}, "usable", "used")

\* Codes die several at a time: a reset drops all that its account has, and
\* sending a code replaces the one before it.
Die(C) == Become(C, "usable", "dead")

Send(c, C) ==
    /\ c \notin C /\ fate[c] = "unsent"
    /\ \A b \in C : fate[b] = "usable"
    /\ fate' = [b \in Codes |-> CASE b = c -> "usable" [] b \in C -> "dead"
                                  [] OTHER -> fate[b]]

Next == \/ \E c \in Codes : Use(c) \/ \E C \in SUBSET Codes : Send(c, C)
        \/ \E C \in SUBSET Codes : Die(C)

Spec == Init /\ [][Next]_fate
=============================================================================
