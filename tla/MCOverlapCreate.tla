-------------------------- MODULE MCOverlapCreate --------------------------
(***************************************************************************)
(* Three pairs, at most three reports for a thread: enough for a pair to   *)
(* be reported again after it was created, and for two threads to be       *)
(* anywhere in the creation of two contacts.                               *)
(***************************************************************************)
EXTENDS OverlapCreate

SomeReports == UNION {[1 .. n -> Pairs] : n \in 0 .. 3}
Listed(s) == {s[k] : k \in DOMAIN s}

(* every pair is reported once, by one thread or another *)
Once(s) == \A j, k \in DOMAIN s : s[j] = s[k] => j = k
Apart == {w \in [Threads -> SomeReports] :
            /\ \A t \in Threads : Once(w[t])
            /\ \A t, u \in Threads : t # u => Listed(w[t]) \cap Listed(w[u]) = {}}

(* one thread reports alone, pairs again and again, an excluded pair last *)
Alone == {w \in [Threads -> SomeReports] : \E t \in Threads :
            /\ \A u \in Threads \ {t} : w[u] = <<>>
            /\ \A k \in DOMAIN w[t] : w[t][k] \in Excluded => k = Len(w[t])}

(* each thread reports any two pairs but the excluded, also those of another:
   stream gives an interval that spans a range to tasks of that range and of
   its parts *)
Shared == [Threads -> {s \in SomeReports : Len(s) <= 2 /\ Listed(s) \cap Excluded = {}}]

Harmless == Alone \cup Shared
=============================================================================
