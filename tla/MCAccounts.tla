---------------------------- MODULE MCAccounts ----------------------------
(* Accounts for TLC: three requests, of any kind that is about the same      *)
(* objects, next to one machine, two users and one authentication system.    *)
EXTENDS Accounts, TLC

CONSTANTS r1, r2, r3, m1, u1, u2, s1, a1, a2

M == Id("m", <<>>)
N == Id("n", <<>>)
U == Id("u", <<>>)
V == Id("v", <<>>)
S == Id("", <<1>>)

ThreeRequests == {r1, r2, r3}
OldObjects == {m1, u1, u2, s1}
TheirRows ==
  m1 :> [kind |-> "machine", id |-> M, key |-> 1] @@
  u1 :> [kind |-> "user", id |-> U, key |-> 1] @@
  u2 :> [kind |-> "user", id |-> V, key |-> 2] @@
  s1 :> [kind |-> "authsystem", id |-> S, key |-> 1]
TwoAccounts == {a1, a2}
AccountsOfU ==
  [a \in TwoAccounts |-> [holder |-> IF a = a1 THEN m1 ELSE s1, user |-> u1,
                          login |-> "x", status |-> "active"]]

Create(k, i) == [do |-> "create", kind |-> k, id |-> i]
Update(k, i, s) == [do |-> "update", kind |-> k, id |-> i, status |-> s]
Delete(k, i) == [do |-> "delete", kind |-> k, id |-> i]
Account(d, k, i, u, l) == [do |-> d, kind |-> k, id |-> i, user |-> u, login |-> l]

\* A machine whose name is taken, one whose name is what the counter makes of
\* it, and a new one.
Machines ==
  << Create("machine", M), Create("machine", Id("m", <<2>>)),
     Create("machine", N), Create("machine", Empty),
     Update("machine", N, "active"), Delete("machine", N),
     Account("addAccount", "machine", N, U, "y") >>

Users ==
  << Create("user", N), Create("user", Empty),
     Update("user", N, "active"), Update("user", N, "locked"), Delete("user", N),
     Account("addAccount", "machine", M, N, "y") >>

Systems ==
  << Create("authsystem", N), Create("work", N), Create("job", N),
     Update("authsystem", S, "locked"), Update("authsystem", Id("", <<2>>), "active"),
     Delete("authsystem", S),
     Account("addAccount", "authsystem", S, V, "y"),
     Account("addAccount", "authsystem", S, V, "z"),
     Account("updateAccount", "authsystem", S, U, "y"),
     Account("updateAccount", "authsystem", S, V, "y"),
     Account("deleteAccount", "authsystem", S, U, "x") >>

Locals ==
  << Account("addAccount", "machine", M, U, "y"),
     Account("addAccount", "machine", M, V, "x"),
     Account("addAccount", "machine", M, V, "y"),
     Account("updateAccount", "machine", M, U, "y"),
     Account("deleteAccount", "machine", M, U, "x"),
     Delete("machine", M), Update("machine", M, "locked"), Update("machine", M, "active"),
     Delete("user", U) >>

\* Three of a sequence of operations, in any number: requests are alike, so
\* which of them does which does not matter.
Three(ops) ==
  {[r \in ThreeRequests |-> ops[IF r = r1 THEN t[1] ELSE IF r = r2 THEN t[2] ELSE t[3]]] :
     t \in {t \in (1 .. Len(ops)) \X (1 .. Len(ops)) \X (1 .. Len(ops)) :
             t[1] <= t[2] /\ t[2] <= t[3]}}

AllMixes == Three(Machines) \cup Three(Users) \cup Three(Systems) \cup Three(Locals)
=============================================================================
