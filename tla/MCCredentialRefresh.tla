------------------------ MODULE MCCredentialRefresh ------------------------
(* Small instances of CredentialRefresh for TLC. *)
EXTENDS CredentialRefresh, TLC

CONSTANTS c1, c2, p1, p2, a1, a2

\* Two calls in one process, or one in each of two.
SameProcess == [c \in Caller |-> p1]
TwoProcesses == [c \in Caller |-> IF c = c1 THEN p1 ELSE p2]

AllAsks == Intent \X BOOLEAN
ServeAsks == {<<"serve", FALSE>>, <<"serve", TRUE>>}
RefreshAsks == {<<"refresh", FALSE>>}
PlainAsks == {<<"serve", FALSE>>, <<"refresh", FALSE>>}

\* Accounts are alike, and so are calls together with the processes they run in.
Alike ==
  {f \in Permutations(Account \cup Caller \cup Process) :
     /\ \A a \in Account : f[a] \in Account
     /\ \A p \in Process : f[p] \in Process
     /\ \A c \in Caller : f[c] \in Caller /\ f[ProcOf[c]] = ProcOf[f[c]]}
============================================================================
