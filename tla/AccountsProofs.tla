--------------------------- MODULE AccountsProofs ---------------------------
(***************************************************************************)
(* Proof of the four invariants of Accounts, for all sets of requests and  *)
(* objects, any mix of operations and any number of faults.                *)
(*                                                                         *)
(* UniqueIds: IdsInv follows a request that creates an object through the  *)
(* loop of reserveObjectId: once past it, its identifier is none of those  *)
(* that were there when it began; once past the count, it is nobody else's *)
(* who is past it.  For the kinds with a counter this holds because the    *)
(* counter comes first in the identifier, for machines because the rows    *)
(* are counted, whatever their status; for users it only holds between     *)
(* requests that did not overlap.                                          *)
(*                                                                         *)
(* FailedIsUnusable: FailedInv adds what a row looks like before it is     *)
(* filled, and that who fills it overlaps with who made it.                *)
(* AccountsAreOnce: OnceInv adds what a request has found and looked up,   *)
(* and that what has appeared since was added by somebody it overlaps with.*)
(* DeletionIsComplete: DeletionInv follows the rows of a name, which are   *)
(* marked together, and the accounts of those who found them in time.      *)
(***************************************************************************)
EXTENDS Accounts, FiniteSetTheorems, SequenceTheorems, TLAPS

Creating == {"check", "reserve", "count", "fill", "finish"}
Steps == Creating \cup {"idle", "locked?", "write", "accounts", "numbers", "exist", "login",
                       "account", "done"}

\* The row of r is in the table, so far with this identifier.
Rowed(r) == key[r] # 0

\* The loop of reserveObjectId has ended; the row has the identifier; the
\* count has been passed; the row has been filled.
Checked(r) == op[r].do = "create" /\ (pc[r] \in {"reserve", "count", "fill", "finish"} \/ result[r] = "ok")
Reserved(r) == op[r].do = "create" /\ (pc[r] \in {"count", "fill", "finish"} \/ result[r] = "ok")
Passed(r) == op[r].do = "create" /\ (pc[r] \in {"fill", "finish"} \/ result[r] = "ok")
Filled(r) == op[r].do = "create" /\ (pc[r] = "finish" \/ result[r] = "ok")

IdsTypes ==
  /\ op \in Mixes
  /\ pc \in [Requests -> Steps]
  /\ before \in [Requests -> SUBSET Requests]
  /\ result \in [Requests -> {"none", "ok", "error"}]
  /\ counter \in [Kinds -> Nat]
  /\ key \in [Objects -> Nat]
  /\ DOMAIN gen = Requests /\ DOMAIN id = Objects /\ DOMAIN content = Objects
  /\ \A r \in Requests : gen[r].counters \in Seq(Nat)
  /\ \A e \in Existing : key[e] # 0

\* Requests that create objects are in the steps of a creation, and no others;
\* those answered stay so.
Phases ==
  \A r \in Requests :
    /\ op[r].do = "create" => pc[r] \in Creating \cup {"idle", "done"}
    /\ pc[r] \in Creating => op[r].do = "create"
    /\ result[r] = "ok" => pc[r] = "done"
    /\ \A q \in before[r] : pc[q] = "done"

\* The row of a request, once it is there.
RowKnown ==
  \A r \in Requests :
    /\ pc[r] \in Creating \/ (op[r].do = "create" /\ result[r] = "ok") => key[r] # 0
    /\ key[r] # 0 => op[r].do = "create" /\ gen[r].name # Null.name /\ key[r] <= counter[op[r].kind]
    /\ Reserved(r) => id[r] = gen[r]

\* The keys of a table are different, and the identifier that is made of one
\* begins with it.
KeysFirst ==
  /\ \A r, q \in Requests :
       r # q /\ key[r] # 0 /\ key[q] # 0 /\ op[r].kind = op[q].kind => key[r] # key[q]
  /\ \A r \in Requests :
       key[r] # 0 /\ op[r].kind \in Counted =>
         gen[r].counters # <<>> /\ gen[r].counters[1] = key[r]

\* Past the loop: the identifier is no earlier object's.
NewToTheTable ==
  \A r \in Requests : Checked(r) =>
    /\ \A e \in Existing : KindOf(e) = op[r].kind => id[e] # gen[r]
    /\ \A q \in before[r] : key[q] # 0 /\ op[q].kind = op[r].kind => id[q] # gen[r]

\* Past the count: the identifier is nobody else's who is past it.
OnlyOnePasses ==
  \A r, q \in Requests :
    r # q /\ Passed(r) /\ Passed(q) /\ op[r].kind = op[q].kind /\ id[r] = id[q] =>
      op[r].kind = "user" /\ Overlap(r, q)

\* Filled: by the request itself, or by a user of the same name who overlapped.
FilledByOne ==
  \A r \in Requests : Filled(r) /\ op[r].kind # "job" =>
    \/ content[r] = r
    \/ /\ op[r].kind = "user"
       /\ content[r] \in Requests
       /\ op[content[r]].kind = "user" /\ op[content[r]].do = "create"
       /\ pc[content[r]] \in {"finish", "done"}
       /\ Overlap(r, content[r]) /\ id[content[r]] = id[r]

IdsInv ==
  IdsTypes /\ Phases /\ RowKnown /\ KeysFirst /\ NewToTheTable /\ OnlyOnePasses /\ FilledByOne

-----------------------------------------------------------------------------
(* The initial states *)

LEMMA IdsInvInit == Init => IdsInv
<1> SUFFICES ASSUME Init PROVE IdsInv
  OBVIOUS
<1>1. counter \in [Kinds -> Nat]
  <2> DEFINE OfKind(k) == {e \in Existing : Described[e].kind = k}
  <2>1. ASSUME NEW k \in Kinds
        PROVE  Cardinality(OfKind(k)) \in Nat
    <3>1. IsFiniteSet(OfKind(k))
      BY IdsAssumption, FS_Subset
    <3>2. QED
      BY <3>1, FS_CardinalityType
  <2>2. counter = [k \in Kinds |-> Cardinality(OfKind(k))]
    BY DEF Init, IdsInit
  <2> HIDE DEF OfKind
  <2>3. QED
    BY <2>1, <2>2
<1> USE DEF Init, IdsInit
<1>3. \A r \in Requests : key[r] = 0
  BY IdsAssumption DEF Objects
<1>4. key \in [Objects -> Nat]
  BY IdsAssumption DEF Objects
<1>5. IdsTypes
  <2>1. \A r \in Requests : gen[r].counters \in Seq(Nat)
    <3>1. <<>> \in Seq(Nat)
      OBVIOUS
    <3>2. QED
      BY <3>1 DEF Null, Id
  <2>2. pc \in [Requests -> Steps] /\ before \in [Requests -> SUBSET Requests]
    <3>1. pc = [r \in Requests |-> "idle"]
      OBVIOUS
    <3>2. before = [r \in Requests |-> {}]
      OBVIOUS
    <3> HIDE DEF Init, IdsInit
    <3>3. pc \in [Requests -> Steps]
      BY <3>1 DEF Steps
    <3>4. QED
      BY <3>2, <3>3
  <2>3. op \in Mixes /\ result \in [Requests -> {"none", "ok", "error"}]
    OBVIOUS
  <2>4. DOMAIN gen = Requests /\ DOMAIN id = Objects /\ DOMAIN content = Objects
    OBVIOUS
  <2>5. QED
    BY IdsAssumption, <1>1, <1>4, <2>1, <2>2, <2>3, <2>4 DEF IdsTypes, Objects
<1>6. Phases /\ RowKnown
  BY <1>3 DEF Phases, RowKnown, Creating, Reserved
<1>7. KeysFirst /\ NewToTheTable /\ OnlyOnePasses /\ FilledByOne
  BY <1>3 DEF KeysFirst, NewToTheTable, OnlyOnePasses, FilledByOne, Checked, Passed, Filled
<1>8. QED
  BY <1>5, <1>6, <1>7 DEF IdsInv

-----------------------------------------------------------------------------
(* Steps that write no identifier *)

\* A request that creates nothing goes on, begins or ends.
LEMMA OtherStep ==
  ASSUME IdsInv, NEW r \in Requests, op[r].do # "create", pc[r] # "done",
         NEW s \in Steps, s \notin Creating, pc' = [pc EXCEPT ![r] = s],
         \/ result' = result
         \/ s = "done" /\ \E v \in {"ok", "error"} : result' = [result EXCEPT ![r] = v],
         before' = before \/ before' = [before EXCEPT ![r] = Answered],
         UNCHANGED <<op, counter, key, gen, id, content>>
  PROVE  IdsInv'
<1> USE DEF IdsInv, IdsTypes
<1>1. IdsTypes'
  <2>1. pc' \in [Requests -> Steps]
    OBVIOUS
  <2>2. before' \in [Requests -> SUBSET Requests]
    BY DEF Answered
  <2>3. result' \in [Requests -> {"none", "ok", "error"}]
    OBVIOUS
  <2>4. QED
    BY <2>1, <2>2, <2>3
<1>2. Phases'
  BY DEF Phases, Answered
<1>3. \A q \in Requests : /\ Checked(q)' = Checked(q) /\ Reserved(q)' = Reserved(q)
                          /\ Passed(q)' = Passed(q) /\ Filled(q)' = Filled(q)
  BY DEF Checked, Reserved, Passed, Filled
<1>4. \A q \in Requests : op[q].do = "create" =>
        before'[q] = before[q] /\ pc'[q] = pc[q] /\ result'[q] = result[q]
  OBVIOUS
<1>5. RowKnown' /\ KeysFirst'
  BY <1>3, <1>4 DEF RowKnown, KeysFirst, Creating, Phases
<1>6. NewToTheTable'
  BY <1>3, <1>4 DEF NewToTheTable, Checked, KindOf
<1>7. OnlyOnePasses'
  BY <1>3, <1>4 DEF OnlyOnePasses, Passed, Overlap
<1>8. FilledByOne'
  BY <1>3, <1>4 DEF FilledByOne, Filled, Overlap
<1>9. QED
  BY <1>1, <1>2, <1>5, <1>6, <1>7, <1>8

\* Two requests whose rows have the same identifier are both found.
LEMMA BothFound ==
  ASSUME IdsInv, NEW r \in Requests, NEW o \in Objects, key[r] # 0, key[o] # 0,
         KindOf(o) = op[r].kind, id[o] = gen[r]
  PROVE  o \in Rows(op[r].kind, gen[r])
<1>1. gen[r] # Null
  BY DEF IdsInv, RowKnown
<1>2. QED
  BY <1>1 DEF Rows

\* The count of the rows, next to the counters and the loop, tells who has
\* the identifier.
LEMMA OnlyOneWorks ==
  ASSUME IdsInv, NEW r \in Requests, pc[r] # "done", Reserved(r), OnlyOne(r),
         NEW q \in Requests \ {r}, Passed(q), op[q].kind = op[r].kind, id[q] = id[r]
  PROVE  op[r].kind = "user" /\ Overlap(r, q)
<1> USE DEF IdsInv
<1>1. key[r] # 0 /\ key[q] # 0 /\ id[r] = gen[r] /\ id[q] = gen[q]
  BY DEF RowKnown, Reserved, Passed, Creating
<1>2. op[r].kind \in Kinds
  BY IdsAssumption DEF IdsTypes, Reserved
<1>3. op[r].kind \notin Counted
  BY <1>1 DEF KeysFirst
<1>4. op[r].kind # "machine"
  <2> SUFFICES ASSUME op[r].kind = "machine" PROVE FALSE
    OBVIOUS
  <2> DEFINE same == Rows(op[r].kind, gen[r])
  <2>1. r \in same /\ q \in same
    BY <1>1, BothFound, IdsAssumption DEF Objects, KindOf
  <2>2. IsFiniteSet(same)
    <3>1. IsFiniteSet(Objects)
      BY IdsAssumption, FS_Union DEF Objects
    <3>2. same \in SUBSET Objects
      BY DEF Rows
    <3>3. QED
      BY <3>1, <3>2, FS_Subset
  <2>3. Cardinality(same) = 1
    BY DEF OnlyOne
  <2>4. QED
    BY <2>1, <2>2, <2>3, FS_Singleton
<1>5. op[r].kind = "user"
  BY <1>2, <1>3, <1>4 DEF Kinds, Named, Counted
<1>6. q \notin before[r]
  BY <1>1 DEF NewToTheTable, Checked, Reserved, Passed, Phases
<1>7. r \notin before[q]
  BY DEF Phases
<1>8. QED
  BY <1>5, <1>6, <1>7 DEF Overlap

\* A request that creates an object goes from one step to the next, or ends;
\* what it may rely on afterwards it relied on before, or has just found out.
LEMMA NextStep ==
  ASSUME IdsInv, NEW r \in Requests, op[r].do = "create", pc[r] # "done",
         NEW s \in Steps, pc' = [pc EXCEPT ![r] = s],
         \/ s = "done" /\ result' = [result EXCEPT ![r] = "error"]
         \/ s \in Creating /\ pc[r] \in Creating \ {"finish"} /\ result' = result
         \/ s = "done" /\ pc[r] \in {"fill", "finish"} /\ result' = [result EXCEPT ![r] = "ok"],
         before' = before \/ (pc[r] = "idle" /\ before' = [before EXCEPT ![r] = Answered]),
         UNCHANGED <<op, counter, key, gen, id>>,
         Checked(r)' => Checked(r) \/ Rows(op[r].kind, gen[r]) = {},
         Reserved(r)' => Reserved(r),
         Passed(r)' => Passed(r) \/ OnlyOne(r),
         \/ content' = content /\ (Filled(r)' => Filled(r))
         \/ DOMAIN content' = Objects /\ FilledByOne'
  PROVE  IdsInv'
<1> USE DEF IdsInv, IdsTypes
<1>1. IdsTypes'
  <2>1. pc' \in [Requests -> Steps]
    OBVIOUS
  <2>2. before' \in [Requests -> SUBSET Requests]
    BY DEF Answered
  <2>3. result' \in [Requests -> {"none", "ok", "error"}]
    OBVIOUS
  <2>4. QED
    BY <2>1, <2>2, <2>3
<1>2. Phases'
  BY DEF Phases, Answered, Creating
<1>3. \A q \in Requests \ {r} :
        /\ Checked(q)' = Checked(q) /\ Reserved(q)' = Reserved(q)
        /\ Passed(q)' = Passed(q) /\ Filled(q)' = Filled(q)
        /\ before'[q] = before[q] /\ pc'[q] = pc[q]
  BY DEF Checked, Reserved, Passed, Filled
<1>4. RowKnown' /\ KeysFirst'
  BY <1>3 DEF RowKnown, KeysFirst, Creating, Phases
<1>5. NewToTheTable'
  <2>1. ASSUME NEW q \in Requests \ {r}, Checked(q)'
        PROVE  /\ \A e \in Existing : KindOf(e)' = op'[q].kind => id'[e] # gen'[q]
               /\ \A p \in before'[q] : key'[p] # 0 /\ op'[p].kind = op'[q].kind => id'[p] # gen'[q]
    <3>1. \A p \in before[q] : p \in Requests \ {r}
      BY DEF Phases
    <3>2. QED
      BY <1>3, <2>1, <3>1 DEF NewToTheTable, KindOf
  <2>2. ASSUME Checked(r)'
        PROVE  /\ \A e \in Existing : KindOf(e)' = op'[r].kind => id'[e] # gen'[r]
               /\ \A p \in before'[r] : key'[p] # 0 /\ op'[p].kind = op'[r].kind => id'[p] # gen'[r]
    <3>1. before'[r] = before[r] /\ key[r] # 0
      BY <2>2 DEF Checked, RowKnown, Creating
    <3>2. \A p \in before[r] : p \in Requests \ {r}
      BY DEF Phases
    <3>3. CASE Checked(r)
      BY <1>3, <3>1, <3>2, <3>3 DEF NewToTheTable, KindOf
    <3>4. CASE Rows(op[r].kind, gen[r]) = {}
      <4>1. \A e \in Existing : KindOf(e) = op[r].kind => id[e] # gen[r]
        BY <3>1, <3>4, BothFound DEF Objects
      <4>2. \A p \in before[r] : key[p] # 0 /\ op[p].kind = op[r].kind => id[p] # gen[r]
        BY <3>1, <3>2, <3>4, BothFound, IdsAssumption DEF Objects, KindOf
      <4>3. QED
        BY <1>3, <3>1, <3>2, <4>1, <4>2 DEF KindOf
    <3>5. QED
      BY <2>2, <3>3, <3>4
  <2> HIDE DEF IdsInv, IdsTypes
  <2>3. ASSUME NEW q \in Requests, Checked(q)'
        PROVE  /\ \A e \in Existing : KindOf(e)' = op'[q].kind => id'[e] # gen'[q]
               /\ \A p \in before'[q] : key'[p] # 0 /\ op'[p].kind = op'[q].kind => id'[p] # gen'[q]
    <3>1. CASE q = r
      <4>1. Checked(r)'
        BY <2>3, <3>1
      <4>2. QED
        BY <2>2, <3>1, <4>1
    <3>2. CASE q # r
      BY <2>1, <2>3, <3>2
    <3>3. QED
      BY <3>1, <3>2
  <2>4. QED
    BY <2>3, Zenon DEF NewToTheTable
<1>6. OnlyOnePasses'
  <2>1. ASSUME Passed(r)', NEW q \in Requests \ {r}, Passed(q), op[q].kind = op[r].kind, id[q] = id[r]
        PROVE  op[r].kind = "user" /\ Overlap(r, q)
    <3>1. Reserved(r)
      BY <2>1 DEF Passed, Reserved
    <3>2. QED
      BY <2>1, <3>1, OnlyOneWorks DEF OnlyOnePasses
  <2>2. Passed(r)' => before'[r] = before[r]
    BY DEF Passed, Creating
  <2>3. ASSUME NEW q \in Requests \ {r}, Passed(r)', Passed(q)', op[q].kind = op[r].kind, id[q] = id[r]
        PROVE  op[r].kind = "user" /\ Overlap(r, q)' /\ Overlap(q, r)'
    BY <1>3, <2>1, <2>2, <2>3 DEF Overlap
  <2>4. ASSUME NEW p \in Requests \ {r}, NEW q \in Requests \ {r}, p # q,
               Passed(p)', Passed(q)', op[q].kind = op[p].kind, id[q] = id[p]
        PROVE  op[p].kind = "user" /\ Overlap(p, q)'
    BY <1>3, <2>4 DEF OnlyOnePasses, Overlap
  <2> HIDE DEF IdsInv, IdsTypes
  <2>5. ASSUME NEW p \in Requests, NEW q \in Requests, p # q, Passed(p)', Passed(q)',
               op[p].kind = op[q].kind, id[p] = id[q]
        PROVE  op[p].kind = "user" /\ Overlap(p, q)'
    <3>1. CASE p = r
      BY <2>3, <2>5, <3>1
    <3>2. CASE q = r
      BY <2>3, <2>5, <3>2
    <3>3. CASE p # r /\ q # r
      BY <2>4, <2>5, <3>3
    <3>4. QED
      BY <3>1, <3>2, <3>3
  <2>6. QED
    BY <2>5, Zenon DEF OnlyOnePasses
<1>7. FilledByOne'
  <2> SUFFICES ASSUME content' = content, Filled(r)' => Filled(r)
               PROVE  FilledByOne'
    OBVIOUS
  <2>1. ASSUME NEW q \in Requests, Filled(q)'
        PROVE  Filled(q) /\ before'[q] = before[q]
    BY <1>3, <2>1 DEF Filled, Creating
  <2>2. \A q \in Requests : pc[q] \in {"finish", "done"} =>
          before'[q] = before[q] /\ pc'[q] \in {"finish", "done"}
    BY DEF Creating
  <2>3. QED
    BY <2>1, <2>2 DEF FilledByOne, Overlap
<1>8. QED
  BY <1>1, <1>2, <1>4, <1>5, <1>6, <1>7

-----------------------------------------------------------------------------
(* Steps that write an identifier or fill rows *)

LEMMA GetVishnuCounterStep ==
  ASSUME IdsInv, NEW r \in Requests, GetVishnuCounter(r)
  PROVE  IdsInv'
<1> DEFINE k == op[r].kind
           n == counter[k] + 1
<1> USE DEF IdsInv, IdsTypes
<1>1. /\ pc[r] = "idle" /\ op[r].do = "create"
      /\ before' = [before EXCEPT ![r] = Answered]
      /\ counter' = [counter EXCEPT ![k] = n]
      /\ key' = [key EXCEPT ![r] = n]
      /\ id' = [id EXCEPT ![r] = PlaceholderId(k)]
      /\ gen' = [gen EXCEPT ![r] = GeneratedName(r, n)]
      /\ pc' = [pc EXCEPT ![r] = "check"]
      /\ UNCHANGED <<result, op, content>>
  BY DEF GetVishnuCounter, Begin, Continue, GoTo
<1>2. k \in Kinds /\ n \in Nat \ {0} /\ r \in Objects /\ r \notin Existing
  BY <1>1, IdsAssumption DEF Objects
<1>3. /\ GeneratedName(r, n).counters \in Seq(Nat)
      /\ GeneratedName(r, n).name # Null.name
  <2>1. CASE k \in Named
    BY <1>1, <2>1, IdsAssumption DEF GeneratedName
  <2>2. CASE k \notin Named
    <3>1. <<n>> \in Seq(Nat)
      BY <1>2
    <3>2. QED
      BY <2>2, <3>1 DEF GeneratedName, Id, Null
  <2>3. QED
    BY <2>1, <2>2
<1>4. k \in Counted => GeneratedName(r, n).counters # <<>> /\ GeneratedName(r, n).counters[1] = n
  BY DEF GeneratedName, Named, Counted, Id
<1> HIDE DEF k, n
<1>5. \A q \in Requests \ {r} : /\ q \in Objects /\ key'[q] = key[q] /\ id'[q] = id[q] /\ gen'[q] = gen[q]
                                /\ pc'[q] = pc[q] /\ before'[q] = before[q]
                                /\ \A p \in before[q] : p \in Requests \ {r}
  BY <1>1, <1>2 DEF Objects, Phases
<1>6. /\ key'[r] = n /\ gen'[r] = GeneratedName(r, n) /\ pc'[r] = "check"
      /\ result[r] # "ok"
  BY <1>1, <1>2 DEF Phases
<1>7. IdsTypes'
  <2>1. pc' \in [Requests -> Steps]
    BY <1>1 DEF Steps, Creating
  <2>2. before' \in [Requests -> SUBSET Requests]
    BY <1>1 DEF Answered
  <2>3. counter' \in [Kinds -> Nat] /\ key' \in [Objects -> Nat]
    BY <1>1, <1>2
  <2>4. \A q \in Requests : gen'[q].counters \in Seq(Nat)
    BY <1>3, <1>5, <1>6
  <2>5. \A e \in Existing : key'[e] # 0
    BY <1>1, <1>2 DEF Objects
  <2>6. QED
    BY <1>1, <2>1, <2>2, <2>3, <2>4, <2>5
<1>8. Phases'
  BY <1>1, <1>6 DEF Phases, Answered, Creating
<1>9. /\ ~Checked(r)' /\ ~Reserved(r)' /\ ~Passed(r)' /\ ~Filled(r)'
      /\ \A q \in Requests \ {r} : /\ Checked(q)' = Checked(q) /\ Reserved(q)' = Reserved(q)
                                   /\ Passed(q)' = Passed(q) /\ Filled(q)' = Filled(q)
  BY <1>1, <1>5, <1>6 DEF Checked, Reserved, Passed, Filled
<1>10. \A q \in Requests \ {r} : key[q] # 0 =>
         /\ op[q].kind \in Kinds
         /\ key'[q] <= counter'[op[q].kind] /\ (op[q].kind = k => key'[q] < n)
  <2>1. ASSUME NEW q \in Requests \ {r}, key[q] # 0
        PROVE  /\ op[q].kind \in Kinds /\ key[q] \in Nat
               /\ key[q] <= counter[op[q].kind]
    BY <1>5, <2>1, IdsAssumption DEF RowKnown
  <2>2. QED
    BY <1>1, <1>2, <1>5, <2>1 DEF n
<1>11. RowKnown'
  <2>1. counter'[k] = n
    BY <1>1, <1>2
  <2>2. QED
    BY <1>1, <1>2, <1>3, <1>5, <1>6, <1>9, <1>10, <2>1 DEF RowKnown, k
<1>12. KeysFirst'
  BY <1>1, <1>2, <1>4, <1>5, <1>6, <1>10 DEF KeysFirst, k
<1>13. NewToTheTable'
  BY <1>1, <1>2, <1>5, <1>9 DEF NewToTheTable, KindOf, Objects
<1>14. OnlyOnePasses'
  <2>1. op' = op /\ \A q \in Requests \ {r} : before'[q] = before[q] /\ id'[q] = id[q]
    BY <1>1, <1>5
  <2> HIDE DEF IdsTypes
  <2>2. SUFFICES ASSUME NEW p \in Requests, NEW q \in Requests, p # q, Passed(p)', Passed(q)',
                        op'[p].kind = op'[q].kind, id'[p] = id'[q]
                 PROVE  op'[p].kind = "user" /\ Overlap(p, q)'
    BY Zenon DEF OnlyOnePasses
  <2>3. p # r /\ q # r /\ Passed(p) /\ Passed(q)
    BY <1>9, <2>2
  <2>4. QED
    BY <2>1, <2>2, <2>3 DEF OnlyOnePasses, Overlap
<1>15. FilledByOne'
  BY <1>1, <1>5, <1>9 DEF FilledByOne, Overlap
<1>16. QED
  BY <1>7, <1>8, <1>11, <1>12, <1>13, <1>14, <1>15

\* What is appended leaves the first counter where it was.
LEMMA CountersGrow ==
  ASSUME NEW c \in Seq(Nat), NEW n \in Nat
  PROVE  /\ Append(c, n) \in Seq(Nat) /\ Append(c, n) # <<>>
         /\ c # <<>> => Append(c, n)[1] = c[1]
<1>1. Append(c, n) \in Seq(Nat) /\ Append(c, n) # <<>>
  BY AppendProperties
<1>2. ASSUME c # <<>>
      PROVE  Append(c, n)[1] = c[1]
  <2>1. Len(c) \in Nat \ {0}
    BY <1>2, EmptySeq
  <2>2. 1 \in 1 .. Len(c)
    BY <2>1
  <2>3. QED
    BY <2>2, AppendProperties
<1>3. QED
  BY <1>1, <1>2

\* The identifier is taken: the key is appended to it.
LEMMA AppendStep ==
  ASSUME IdsInv, NEW r \in Requests, pc[r] = "check",
         gen' = [gen EXCEPT ![r] = Id(@.name, Append(@.counters, key[r]))],
         UNCHANGED <<op, pc, before, result, counter, key, id, content>>
  PROVE  IdsInv'
<1> USE DEF IdsInv, IdsTypes
<1>1. gen'[r].name = gen[r].name /\ gen'[r].counters = Append(gen[r].counters, key[r])
  BY DEF Id
<1>2. \A q \in Requests \ {r} : gen'[q] = gen[q]
  OBVIOUS
<1>3. gen[r].counters \in Seq(Nat) /\ key[r] \in Nat
  BY DEF Objects
<1>4. gen'[r].counters \in Seq(Nat)
  BY <1>1, <1>3, CountersGrow
<1>5. gen[r].counters # <<>> =>
        gen'[r].counters # <<>> /\ gen'[r].counters[1] = gen[r].counters[1]
  <2> HIDE DEF IdsInv, IdsTypes
  <2>1. gen[r].counters # <<>> =>
          /\ Append(gen[r].counters, key[r]) # <<>>
          /\ Append(gen[r].counters, key[r])[1] = gen[r].counters[1]
    BY <1>3, CountersGrow
  <2>2. QED
    BY <1>1, <2>1
<1>6. IdsTypes'
  BY <1>2, <1>4
<1>7. Phases'
  BY DEF Phases
<1>8. /\ ~Checked(r) /\ ~Reserved(r) /\ ~Passed(r) /\ ~Filled(r)
      /\ \A q \in Requests : /\ Checked(q)' = Checked(q) /\ Reserved(q)' = Reserved(q)
                             /\ Passed(q)' = Passed(q) /\ Filled(q)' = Filled(q)
  BY DEF Checked, Reserved, Passed, Filled, Phases
<1>9. RowKnown'
  BY <1>1, <1>2, <1>8 DEF RowKnown
<1>10. KeysFirst'
  BY <1>2, <1>5 DEF KeysFirst
<1>11. NewToTheTable'
  BY <1>2, <1>8 DEF NewToTheTable, KindOf
<1>12. OnlyOnePasses' /\ FilledByOne'
  BY <1>8 DEF OnlyOnePasses, FilledByOne, Overlap
<1>13. QED
  BY <1>6, <1>7, <1>9, <1>10, <1>11, <1>12

LEMMA CheckObjectIdStep ==
  ASSUME IdsInv, NEW r \in Requests, CheckObjectId(r)
  PROVE  IdsInv'
<1>1. pc[r] = "check" /\ op[r].do = "create"
  BY DEF CheckObjectId, IdsInv, Phases, Creating
<1>2. CASE Rows(op[r].kind, gen[r]) = {}
  <2>1. /\ pc' = [pc EXCEPT ![r] = "reserve"]
        /\ UNCHANGED <<op, before, result, counter, key, gen, id, content>>
    BY <1>2 DEF CheckObjectId, Continue, GoTo
  <2>2. ~Reserved(r)' /\ ~Passed(r)' /\ ~Filled(r)'
    BY <1>1, <2>1 DEF Reserved, Passed, Filled, IdsInv, IdsTypes, Phases
  <2>3. QED
    BY <1>1, <1>2, <2>1, <2>2, NextStep DEF Steps, Creating
<1>3. CASE Rows(op[r].kind, gen[r]) # {}
  BY <1>1, <1>3, AppendStep DEF CheckObjectId
<1>4. QED
  BY <1>2, <1>3

LEMMA ReserveObjectIdStep ==
  ASSUME IdsInv, NEW r \in Requests, ReserveObjectId(r)
  PROVE  IdsInv'
<1> USE DEF IdsInv, IdsTypes
<1>1. PICK s \in {"done", "count"} :
        /\ pc[r] = "reserve" /\ op[r].do = "create" /\ r \in Objects /\ r \notin Existing
        /\ id' = [id EXCEPT ![r] = gen[r]]
        /\ pc' = [pc EXCEPT ![r] = s]
        /\ \/ s = "done" /\ result' = [result EXCEPT ![r] = "error"]
           \/ s = "done" /\ op[r].kind = "job" /\ result' = [result EXCEPT ![r] = "ok"]
           \/ s = "count" /\ result' = result
        /\ UNCHANGED <<op, before, counter, key, gen, content>>
  BY IdsAssumption DEF ReserveObjectId, Answer, Continue, GoTo, Phases, Creating, Objects
<1>2. \A q \in Requests \ {r} :
        /\ Checked(q)' = Checked(q) /\ Reserved(q)' = Reserved(q)
        /\ Passed(q)' = Passed(q) /\ Filled(q)' = Filled(q)
        /\ id'[q] = id[q] /\ pc'[q] = pc[q] /\ result'[q] = result[q]
        /\ \A p \in before[q] : p # r
  BY <1>1 DEF Checked, Reserved, Passed, Filled, Objects, Phases
<1>3. /\ id'[r] = gen[r] /\ key[r] # 0 /\ Checked(r) /\ ~Passed(r) /\ result[r] # "ok"
      /\ Passed(r)' \/ Filled(r)' => op[r].kind = "job"
      /\ \A p \in before[r] : p # r
  BY <1>1 DEF Checked, Passed, Filled, RowKnown, Creating, Phases, Objects
<1>4. IdsTypes'
  <2>1. pc' \in [Requests -> Steps] /\ result' \in [Requests -> {"none", "ok", "error"}]
    BY <1>1 DEF Steps, Creating
  <2>2. QED
    BY <1>1, <2>1
<1>5. Phases'
  BY <1>1 DEF Phases, Creating
<1>6. RowKnown' /\ KeysFirst'
  BY <1>1, <1>2, <1>3 DEF RowKnown, KeysFirst, Creating
<1>7. NewToTheTable'
  <2>1. ASSUME NEW q \in Requests, Checked(q)'
        PROVE  Checked(q) /\ \A p \in before[q] : id'[p] = id[p]
    BY <1>1, <1>2, <1>3, <2>1 DEF Phases
  <2>2. \A e \in Existing : id'[e] = id[e]
    BY <1>1 DEF Objects
  <2>3. QED
    BY <1>1, <2>1, <2>2 DEF NewToTheTable, KindOf
<1>8. OnlyOnePasses'
  <2>1. ASSUME NEW q \in Requests \ {r}, Passed(r)', Passed(q)', op[q].kind = op[r].kind
        PROVE  id'[q] # id'[r]
    <3>1. key[q] # 0 /\ id'[q] = gen[q] /\ op[r].kind \in Counted
      BY <1>2, <1>3, <2>1 DEF Passed, Reserved, RowKnown, Creating, Counted
    <3>2. QED
      BY <1>3, <2>1, <3>1 DEF KeysFirst
  <2>2. QED
    BY <1>1, <1>2, <2>1 DEF OnlyOnePasses, Overlap
<1>9. FilledByOne'
  <2>1. \A q \in Requests : Filled(q)' /\ op[q].kind # "job" => q # r /\ Filled(q) /\ content[q] # r
    BY <1>1, <1>2, <1>3 DEF FilledByOne
  <2>2. QED
    BY <1>1, <1>2, <2>1 DEF FilledByOne, Overlap
<1>10. QED
  BY <1>4, <1>5, <1>6, <1>7, <1>8, <1>9

LEMMA CountRowsStep ==
  ASSUME IdsInv, NEW r \in Requests, CountRows(r)
  PROVE  IdsInv'
<1>1. pc[r] = "count" /\ op[r].do = "create" /\ result[r] # "ok"
  BY DEF CountRows, IdsInv, Phases, Creating
<1>2. UNCHANGED <<op, before, counter, key, gen, id, content>>
  BY DEF CountRows, rowVars
<1>3. Checked(r) /\ Reserved(r)
  BY <1>1 DEF Checked, Reserved
<1>4. CASE OnlyOne(r)
  <2>1. pc' = [pc EXCEPT ![r] = "fill"] /\ result' = result
    BY <1>4 DEF CountRows, Continue, GoTo
  <2>2. ~Filled(r)'
    BY <1>1, <1>2, <2>1 DEF Filled, IdsInv, IdsTypes
  <2>3. QED
    BY <1>1, <1>2, <1>3, <1>4, <2>1, <2>2, NextStep DEF Steps, Creating
<1>5. CASE ~OnlyOne(r)
  <2>1. pc' = [pc EXCEPT ![r] = "done"] /\ result' = [result EXCEPT ![r] = "error"]
    BY <1>5 DEF CountRows, Answer, GoTo
  <2>2. ~Passed(r)' /\ ~Filled(r)'
    BY <1>2, <2>1 DEF Passed, Filled, IdsInv, IdsTypes
  <2>3. QED
    BY <1>1, <1>2, <1>3, <2>1, <2>2, NextStep DEF Steps, Creating
<1>6. QED
  BY <1>4, <1>5

\* The UPDATE reaches the rows of users who have the same identifier, and
\* nobody else's.
LEMMA FillRowsStep ==
  ASSUME IdsInv, NEW r \in Requests, FillRows(r)
  PROVE  IdsInv'
<1> USE DEF IdsInv, IdsTypes
<1> DEFINE same == Rows(op[r].kind, gen[r])
<1>1. PICK s \in {"done", "finish"} :
        /\ pc[r] = "fill" /\ op[r].do = "create" /\ result[r] # "ok"
        /\ pc' = [pc EXCEPT ![r] = s]
        /\ \/ s = "done" /\ result' = [result EXCEPT ![r] = "ok"]
           \/ s = "finish" /\ result' = result
        /\ content' = [o \in Objects |-> IF o \in same THEN r ELSE content[o]]
        /\ UNCHANGED <<op, before, counter, key, gen, id>>
  BY DEF FillRows, Answer, Continue, GoTo, Phases, Creating
<1>2. Checked(r) /\ Reserved(r) /\ Passed(r)
  BY <1>1 DEF Checked, Reserved, Passed
<1>3. r \in same
  BY <1>2, BothFound, IdsAssumption DEF RowKnown, Passed, Creating, Objects, KindOf
<1> HIDE DEF same
<1>4. FilledByOne'
  <2> DEFINE ByOne(q, c) == /\ op[q].kind = "user" /\ c \in Requests
                            /\ op[c].kind = "user" /\ op[c].do = "create"
                            /\ pc'[c] \in {"finish", "done"}
                            /\ Overlap(q, c) /\ id[c] = id[q]
  <2>1. content'[r] = r
    BY <1>1, <1>3 DEF Objects
  <2>2. ASSUME NEW q \in Requests \ {r}, Filled(q)', op[q].kind # "job", q \in same
        PROVE  content'[q] = r /\ ByOne(q, r)
    <3>1. Filled(q) /\ Passed(q) /\ key[q] # 0
      BY <1>1, <2>2 DEF Filled, Passed, RowKnown, Creating
    <3>2. op[q].kind = op[r].kind /\ id[q] = gen[r] /\ id[r] = gen[r]
      BY <1>2, <2>2, IdsAssumption DEF same, Rows, KindOf, RowKnown
    <3>3. op[r].kind = "user" /\ Overlap(q, r)
      BY <1>2, <3>1, <3>2 DEF OnlyOnePasses, Overlap
    <3>4. content'[q] = r /\ pc'[r] \in {"finish", "done"}
      BY <1>1, <2>2 DEF Objects
    <3>5. QED
      BY <1>1, <3>2, <3>3, <3>4
  <2>3. ASSUME NEW q \in Requests \ {r}, Filled(q)', op[q].kind # "job", q \notin same
        PROVE  content'[q] = q \/ ByOne(q, content'[q])
    <3>1. Filled(q) /\ content'[q] = content[q]
      BY <1>1, <2>3 DEF Filled, Objects
    <3>2. \A p \in Requests : pc[p] \in {"finish", "done"} => pc'[p] \in {"finish", "done"}
      BY <1>1
    <3>3. \/ content[q] = q
          \/ /\ op[q].kind = "user" /\ content[q] \in Requests
             /\ op[content[q]].kind = "user" /\ op[content[q]].do = "create"
             /\ pc[content[q]] \in {"finish", "done"}
             /\ Overlap(q, content[q]) /\ id[content[q]] = id[q]
      <4> HIDE DEF ByOne
      <4>1. FilledByOne
        OBVIOUS
      <4>2. QED
        BY <2>3, <3>1, <4>1 DEF FilledByOne
    <3>4. QED
      BY <3>1, <3>2, <3>3
  <2> HIDE DEF ByOne
  <2>4. \A q \in Requests : Filled(q)' /\ op[q].kind # "job" =>
          content'[q] = q \/ ByOne(q, content'[q])
    BY <2>1, <2>2, <2>3
  <2>5. op' = op /\ before' = before /\ id' = id
    BY <1>1
  <2>6. QED
    BY <2>4, <2>5 DEF FilledByOne, ByOne, Overlap
<1>5. DOMAIN content' = Objects
  BY <1>1
<1>6. QED
  BY <1>1, <1>2, <1>4, <1>5, NextStep DEF Steps, Creating

LEMMA FinishStep ==
  ASSUME IdsInv, NEW r \in Requests, Finish(r)
  PROVE  IdsInv'
<1>1. /\ pc[r] = "finish" /\ op[r].do = "create"
      /\ pc' = [pc EXCEPT ![r] = "done"] /\ result' = [result EXCEPT ![r] = "ok"]
      /\ UNCHANGED <<op, before, counter, key, gen, id, content>>
  BY DEF Finish, Answer, GoTo, IdsInv, Phases, Creating, rowVars
<1>2. Checked(r) /\ Reserved(r) /\ Passed(r) /\ Filled(r)
  BY <1>1 DEF Checked, Reserved, Passed, Filled
<1>3. QED
  BY <1>1, <1>2, NextStep DEF Steps

LEMMA StatementFailsStep ==
  ASSUME IdsInv, NEW r \in Requests, StatementFails(r)
  PROVE  IdsInv'
<1>1. /\ pc[r] # "done"
      /\ pc' = [pc EXCEPT ![r] = "done"] /\ result' = [result EXCEPT ![r] = "error"]
      /\ before' = before \/ (pc[r] = "idle" /\ before' = [before EXCEPT ![r] = Answered])
      /\ UNCHANGED <<op, counter, key, gen, id, content>>
  BY DEF StatementFails, Begin, Answer, GoTo, rowVars
<1>2. CASE op[r].do = "create"
  <2>1. ~Checked(r)' /\ ~Reserved(r)' /\ ~Passed(r)' /\ ~Filled(r)'
    BY <1>1 DEF Checked, Reserved, Passed, Filled, IdsInv, IdsTypes
  <2>2. QED
    BY <1>1, <1>2, <2>1, NextStep DEF Steps
<1>3. CASE op[r].do # "create"
  BY <1>1, <1>3, OtherStep DEF Steps, Creating
<1>4. QED
  BY <1>2, <1>3

\* Every other statement of Accounts.
LEMMA AccountStep ==
  ASSUME IdsInv, NEW r \in Requests,
         \/ LookUpObject(r) \/ CheckNotLocked(r) \/ WriteStatus(r) \/ DeleteAccounts(r)
         \/ FindHolder(r) \/ FindNumbers(r)
         \/ CheckAccount(r) \/ CheckLogin(r) \/ WriteAccount(r)
  PROVE  IdsInv'
<1> DEFINE Quiet(s) ==
      /\ s \in Steps /\ s \notin Creating /\ pc' = [pc EXCEPT ![r] = s]
      /\ \/ result' = result
         \/ s = "done" /\ \E v \in {"ok", "error"} : result' = [result EXCEPT ![r] = v]
      /\ before' = before \/ before' = [before EXCEPT ![r] = Answered]
      /\ UNCHANGED <<op, counter, key, gen, id, content>>
<1> USE DEF Answer, Continue, GoTo, Begin, rowVars
<1>1. op[r].do # "create" /\ pc[r] # "done"
  BY DEF IdsInv, Phases, Creating, AccountOps, LookUpObject, CheckNotLocked, WriteStatus,
         DeleteAccounts, FindHolder, FindNumbers, CheckAccount, CheckLogin, WriteAccount
<1> USE DEF Steps, Creating
<1>2. CASE LookUpObject(r)
  <2>1. Quiet("done") \/ Quiet("locked?") \/ Quiet("write")
    BY <1>2 DEF LookUpObject
  <2>2. QED
    BY <1>1, <2>1, OtherStep
<1>3. CASE CheckNotLocked(r)
  <2>1. Quiet("done") \/ Quiet("write")
    BY <1>3 DEF CheckNotLocked
  <2>2. QED
    BY <1>1, <2>1, OtherStep
<1>4. CASE WriteStatus(r)
  <2>1. Quiet("done") \/ Quiet("accounts")
    BY <1>4 DEF WriteStatus
  <2>2. QED
    BY <1>1, <2>1, OtherStep
<1>5. CASE DeleteAccounts(r) \/ WriteAccount(r)
  <2>1. Quiet("done")
    BY <1>5 DEF DeleteAccounts, WriteAccount
  <2>2. QED
    BY <1>1, <2>1, OtherStep
<1>6. CASE FindHolder(r)
  <2>1. Quiet("done") \/ Quiet("numbers")
    BY <1>6 DEF FindHolder
  <2>2. QED
    BY <1>1, <2>1, OtherStep
<1>7. CASE FindNumbers(r)
  <2>1. Quiet("done") \/ Quiet("exist")
    BY <1>7 DEF FindNumbers
  <2>2. QED
    BY <1>1, <2>1, OtherStep
<1>8. CASE CheckAccount(r)
  <2>1. Quiet("done") \/ Quiet("login") \/ Quiet("account")
    BY <1>8 DEF CheckAccount
  <2>2. QED
    BY <1>1, <2>1, OtherStep
<1>9. CASE CheckLogin(r)
  <2>1. Quiet("done") \/ Quiet("account")
    BY <1>9 DEF CheckLogin
  <2>2. QED
    BY <1>1, <2>1, OtherStep
<1>10. QED
  BY <1>2, <1>3, <1>4, <1>5, <1>6, <1>7, <1>8, <1>9

-----------------------------------------------------------------------------
(* Unique identifiers *)

LEMMA IdsInvNext == IdsInv /\ [Next]_vars => IdsInv'
<1> SUFFICES ASSUME IdsInv, [Next]_vars PROVE IdsInv'
  OBVIOUS
<1>1. ASSUME NEW r \in Requests, Step(r)
      PROVE  IdsInv'
  <2>1. CASE CreationStep(r)
    BY <2>1, GetVishnuCounterStep, CheckObjectIdStep, ReserveObjectIdStep,
       CountRowsStep, FillRowsStep, FinishStep DEF CreationStep
  <2>2. CASE StatementFails(r)
    BY <2>2, StatementFailsStep
  <2>3. CASE ~CreationStep(r) /\ ~StatementFails(r)
    BY <1>1, <2>3, AccountStep DEF Step
  <2>4. QED
    BY <2>1, <2>2, <2>3
<1>2. CASE UNCHANGED vars
  BY <1>2 DEF vars, idVars, requestVars, rowVars, IdsInv, IdsTypes, Phases, RowKnown, KeysFirst,
     NewToTheTable, OnlyOnePasses, FilledByOne, Checked, Reserved, Passed, Filled, Overlap, KindOf
<1>3. QED
  BY <1>1, <1>2 DEF Next

LEMMA IdsInvUnique == IdsInv => UniqueIds
<1> SUFFICES ASSUME IdsInv, NEW r \in Requests, Created(r)
             PROVE  /\ \A e \in Existing : KindOf(e) = op[r].kind => id[r] # id[e]
                    /\ \A q \in Requests \ {r} :
                         Created(q) /\ op[q].kind = op[r].kind /\ id[q] = id[r] =>
                           op[r].kind = "user" /\ Overlap(r, q)
                    /\ op[r].kind # "job" =>
                         \/ content[r] = r
                         \/ /\ op[r].kind = "user" /\ content[r] \in Requests
                            /\ Overlap(r, content[r]) /\ id[content[r]] = id[r]
  BY DEF UniqueIds
<1>1. Checked(r) /\ Reserved(r) /\ Passed(r) /\ Filled(r)
  BY DEF Created, Checked, Reserved, Passed, Filled
<1>2. \A e \in Existing : KindOf(e) = op[r].kind => id[r] # id[e]
  BY <1>1 DEF IdsInv, NewToTheTable, RowKnown
<1>3. \A q \in Requests \ {r} :
        Created(q) /\ op[q].kind = op[r].kind /\ id[q] = id[r] =>
          op[r].kind = "user" /\ Overlap(r, q)
  BY <1>1 DEF IdsInv, OnlyOnePasses, Created, Passed
<1>4. QED
  BY <1>1, <1>2, <1>3 DEF IdsInv, FilledByOne

\* Objects that are created have unique identifiers, and are what their
\* requests described, however the statements of the requests interleave and
\* whichever of them fail; of users this holds between creations that did not
\* overlap.  It is the counters, the loop and the count of getObjectId and add
\* that see to it, not the mutex.
THEOREM IdentifiersAreUnique == Spec => []UniqueIds
<1>1. Init => IdsInv
  BY IdsInvInit
<1>2. IdsInv /\ [Next]_vars => IdsInv'
  BY IdsInvNext
<1>3. IdsInv => UniqueIds
  BY IdsInvUnique
<1>4. QED
  BY <1>1, <1>2, <1>3, PTL DEF Spec

-----------------------------------------------------------------------------
(* What a step of one request leaves as it is *)

\* Requests follow the procedure of their operation; none precedes itself, and
\* those that have not begun have no row.
Procedures ==
  \A r \in Requests :
    /\ r \notin before[r]
    /\ pc[r] = "idle" => key[r] = 0
    /\ result[r] # "none" => pc[r] = "done"
    /\ pc[r] \in {"locked?", "write"} => op[r].do \in {"update", "delete"}
    /\ pc[r] = "accounts" => op[r].do = "delete"
    /\ pc[r] \in {"numbers", "exist", "login", "account"} => op[r].do \in AccountOps

RequestsInv ==
  /\ IdsInv /\ Procedures
  /\ DOMAIN status = Objects
  /\ DOMAIN holder = Requests /\ DOMAIN owner = Requests /\ DOMAIN account = AccountRows

\* The row of o is there, with the identifier that it will keep.
Settled(o) ==
  key[o] # 0 /\ (o \in Requests => pc[o] \notin {"idle", "check", "reserve"})

\* What a step of r may change of the requests and of the rows' identifiers.
StepOf(r) ==
  /\ pc[r] # "done" /\ pc'[r] # "idle" /\ op' = op
  /\ pc'[r] \in {"check", "reserve"} => pc[r] \in {"idle", "check"}
  /\ result'[r] = result[r] \/ pc'[r] = "done"
  /\ before'[r] = IF pc[r] = "idle" THEN Answered ELSE before[r]
  /\ pc[r] \notin {"idle", "check"} => gen'[r] = gen[r]
  /\ pc[r] # "numbers" => holder'[r] = holder[r] /\ owner'[r] = owner[r]
  /\ \A q \in Requests \ {r} :
       /\ pc'[q] = pc[q] /\ result'[q] = result[q] /\ before'[q] = before[q]
       /\ gen'[q] = gen[q] /\ holder'[q] = holder[q] /\ owner'[q] = owner[q]
  /\ \A o \in Objects :
       /\ o # r \/ pc[r] # "idle" => key'[o] = key[o]
       /\ o # r \/ pc[r] \notin {"idle", "reserve"} => id'[o] = id[o]

LEMMA RequestsInvInit == Init => RequestsInv
<1> SUFFICES ASSUME Init PROVE RequestsInv
  OBVIOUS
<1>1. IdsInv
  BY IdsInvInit
<1>2. \A r \in Requests : key[r] = 0 /\ before[r] = {} /\ pc[r] = "idle" /\ result[r] = "none"
  BY IdsAssumption DEF Init, IdsInit, Objects
<1>3. Procedures
  BY <1>2 DEF Procedures
<1>4. /\ DOMAIN status = Objects /\ DOMAIN holder = Requests
      /\ DOMAIN owner = Requests /\ DOMAIN account = AccountRows
  BY DEF Init, IdsInit
<1>5. QED
  BY <1>1, <1>3, <1>4 DEF RequestsInv

\* Every step is one of its request.
LEMMA StepIsOneRequests ==
  ASSUME RequestsInv, NEW r \in Requests, Step(r)
  PROVE  StepOf(r)
<1> USE DEF RequestsInv, IdsInv, IdsTypes, Answer, Continue, GoTo, Begin, rowVars, accVars
<1>1. r \in Objects
  BY DEF Objects
<1>2. CASE GetVishnuCounter(r) /\ UNCHANGED accVars
  BY <1>1, <1>2 DEF GetVishnuCounter, StepOf
<1>3. CASE (CheckObjectId(r) \/ ReserveObjectId(r)) /\ UNCHANGED accVars
  BY <1>1, <1>3 DEF CheckObjectId, ReserveObjectId, StepOf
<1>4. CASE (CountRows(r) \/ FillRows(r) \/ Finish(r) \/ StatementFails(r)) /\ UNCHANGED accVars
  BY <1>4 DEF CountRows, FillRows, Finish, StatementFails, StepOf
<1>5. CASE LookUpObject(r) \/ CheckNotLocked(r) \/ WriteStatus(r) \/ DeleteAccounts(r)
  BY <1>5 DEF LookUpObject, CheckNotLocked, WriteStatus, DeleteAccounts, StepOf
<1>6. CASE FindHolder(r) \/ CheckAccount(r) \/ CheckLogin(r) \/ WriteAccount(r)
  BY <1>6 DEF FindHolder, CheckAccount, CheckLogin, WriteAccount, StepOf
<1>7. CASE FindNumbers(r)
  BY <1>7 DEF FindNumbers, StepOf
<1>8. QED
  BY <1>2, <1>3, <1>4, <1>5, <1>6, <1>7 DEF Step, CreationStep

\* The phases of a request are those of its operation.
LEMMA WhereToNext ==
  ASSUME RequestsInv, NEW r \in Requests, Step(r)
  PROVE  /\ pc'[r] \in {"locked?", "write"} => op[r].do \in {"update", "delete"}
         /\ pc'[r] = "accounts" => op[r].do = "delete"
         /\ pc'[r] \in {"numbers", "exist", "login", "account"} => op[r].do \in AccountOps
         /\ pc'[r] \in {"login", "account"} => CheckAccount(r) \/ CheckLogin(r)
<1> DEFINE Late == {"locked?", "write", "accounts", "numbers", "exist", "login", "account"}
<1>1. DOMAIN pc = Requests
  BY DEF RequestsInv, IdsInv, IdsTypes
<1>2. ASSUME NEW next, GoTo(r, next) PROVE pc'[r] = next
  BY <1>1, <1>2 DEF GoTo
<1>3. ASSUME NEW next, Continue(r, next) PROVE pc'[r] = next
  BY <1>2, <1>3 DEF Continue
<1>4. ASSUME NEW answer, Answer(r, answer) PROVE pc'[r] \notin Late
  BY <1>2, <1>4 DEF Answer
<1>5. CASE CreationStep(r) \/ StatementFails(r)
  <2>1. pc'[r] \notin Late
    <3>1. CASE GetVishnuCounter(r)
      <4>1. Continue(r, "check")
        BY <3>1 DEF GetVishnuCounter
      <4>2. QED
        BY <4>1, <1>3
    <3>2. CASE CheckObjectId(r)
      <4>1. \/ Continue(r, "reserve")
            \/ pc' = pc /\ pc[r] = "check"
        BY <3>2 DEF CheckObjectId
      <4>2. QED
        BY <4>1, <1>3
    <3>3. CASE ReserveObjectId(r)
      <4>1. Continue(r, "count") \/ \E answer : Answer(r, answer)
        BY <3>3 DEF ReserveObjectId
      <4>2. QED
        BY <4>1, <1>3, <1>4
    <3>4. CASE CountRows(r)
      <4>1. Continue(r, "fill") \/ Answer(r, "error")
        BY <3>4 DEF CountRows
      <4>2. QED
        BY <4>1, <1>3, <1>4
    <3>5. CASE FillRows(r)
      <4>1. Continue(r, "finish") \/ Answer(r, "ok")
        BY <3>5 DEF FillRows
      <4>2. QED
        BY <4>1, <1>3, <1>4
    <3>6. CASE Finish(r)
      BY <3>6, <1>4 DEF Finish
    <3>7. CASE StatementFails(r)
      BY <3>7, <1>4 DEF StatementFails
    <3>8. QED
      BY <1>5, <3>1, <3>2, <3>3, <3>4, <3>5, <3>6, <3>7 DEF CreationStep
  <2>2. QED
    BY <2>1
<1>6. CASE LookUpObject(r)
  <2>1. op[r].do \in {"update", "delete"}
    BY <1>6 DEF LookUpObject
  <2>2. Answer(r, "error") \/ Continue(r, "locked?") \/ Continue(r, "write")
    BY <1>6 DEF LookUpObject
  <2>3. QED
    BY <2>1, <2>2, <1>3, <1>4
<1>7. CASE CheckNotLocked(r)
  <2>1. op[r].do \in {"update", "delete"}
    BY <1>7 DEF CheckNotLocked, RequestsInv, Procedures
  <2>2. Answer(r, "error") \/ Continue(r, "write")
    BY <1>7 DEF CheckNotLocked
  <2>3. QED
    BY <2>1, <2>2, <1>3, <1>4
<1>8. CASE WriteStatus(r)
  <2>1. \/ Answer(r, "ok")
        \/ op[r].do = "delete" /\ Continue(r, "accounts")
    BY <1>8 DEF WriteStatus
  <2>2. QED
    BY <2>1, <1>3, <1>4
<1>9. CASE DeleteAccounts(r) \/ WriteAccount(r)
  <2>1. Answer(r, "ok")
    BY <1>9 DEF DeleteAccounts, WriteAccount
  <2>2. QED
    BY <2>1, <1>4
<1>10. CASE FindHolder(r) \/ FindNumbers(r) \/ CheckAccount(r) \/ CheckLogin(r)
  <2>1. op[r].do \in AccountOps
    BY <1>10 DEF FindHolder, FindNumbers, CheckAccount, CheckLogin, RequestsInv, Procedures
  <2>2. \/ Answer(r, "error")
        \/ \E next \in {"numbers", "exist"} : Continue(r, next)
        \/ /\ CheckAccount(r) \/ CheckLogin(r)
           /\ \E next \in {"login", "account"} : Continue(r, next)
    BY <1>10 DEF FindHolder, FindNumbers, CheckAccount, CheckLogin
  <2>3. QED
    BY <2>1, <2>2, <1>3, <1>4
<1>11. QED
  BY <1>5, <1>6, <1>7, <1>8, <1>9, <1>10 DEF Step

LEMMA RequestsInvNext ==
  ASSUME RequestsInv, NEW r \in Requests, Step(r)
  PROVE  RequestsInv'
<1> USE DEF RequestsInv
<1>1. StepOf(r)
  BY StepIsOneRequests
<1>2. IdsInv'
  <2>1. Next
    BY DEF Next
  <2>2. QED
    BY <2>1, IdsInvNext
<1>3. DOMAIN status' = Objects /\ DOMAIN holder' = Requests /\ DOMAIN owner' = Requests
  BY DEF Step, CreationStep, StatementFails, GetVishnuCounter, CheckObjectId, ReserveObjectId,
     CountRows, FillRows, Finish, LookUpObject, CheckNotLocked, WriteStatus, DeleteAccounts,
     FindHolder, FindNumbers, CheckAccount, CheckLogin, WriteAccount, rowVars, accVars
<1>4. DOMAIN account' = AccountRows
  <2>1. CASE WriteAccount(r)
    <3>1. op[r].do \in AccountOps
      BY <2>1 DEF WriteAccount, Procedures
    <3>2. CASE op[r].do = "addAccount"
      BY <2>1, <3>2 DEF WriteAccount
    <3>3. CASE op[r].do = "updateAccount"
      BY <2>1, <3>3 DEF WriteAccount
    <3>4. CASE op[r].do = "deleteAccount"
      BY <2>1, <3>4 DEF WriteAccount
    <3>5. QED
      BY <3>1, <3>2, <3>3, <3>4 DEF AccountOps
  <2>2. CASE DeleteAccounts(r)
    BY <2>2 DEF DeleteAccounts
  <2>3. CASE ~WriteAccount(r) /\ ~DeleteAccounts(r)
    BY <2>3 DEF Step, CreationStep, LookUpObject, CheckNotLocked, WriteStatus, FindHolder,
       FindNumbers, CheckAccount, CheckLogin, accVars
  <2>4. QED
    BY <2>1, <2>2, <2>3
<1>5. Procedures'
  <2>1. /\ pc'[r] \in {"locked?", "write"} => op[r].do \in {"update", "delete"}
        /\ pc'[r] = "accounts" => op[r].do = "delete"
        /\ pc'[r] \in {"numbers", "exist", "login", "account"} => op[r].do \in AccountOps
    BY WhereToNext DEF Procedures
  <2>2. r \notin before'[r]
    BY <1>1 DEF StepOf, Procedures, Answered
  <2>3. \A q \in Requests \ {r} : q \in Objects /\ key'[q] = key[q]
    BY <1>1 DEF StepOf, Objects
  <2>4. QED
    BY <1>1, <2>1, <2>2, <2>3 DEF StepOf, Procedures
<1>6. QED
  BY <1>2, <1>3, <1>4, <1>5

\* A row that has its identifier keeps it.
LEMMA SettledStays ==
  ASSUME RequestsInv, NEW r \in Requests, StepOf(r), NEW o \in Objects, Settled(o)
  PROVE  Settled(o)' /\ id'[o] = id[o] /\ KindOf(o)' = KindOf(o)
<1>1. key'[o] = key[o] /\ id'[o] = id[o]
  BY DEF StepOf, Settled, Objects
<1>2. o \in Requests => pc'[o] \notin {"idle", "check", "reserve"}
  BY DEF StepOf, Settled
<1>3. QED
  BY <1>1, <1>2 DEF Settled, KindOf, StepOf

\* Two requests that have begun overlap for ever or never will.
LEMMA OverlapStays ==
  ASSUME RequestsInv, NEW r \in Requests, StepOf(r),
         NEW p \in Requests, NEW q \in Requests, pc[p] # "idle", pc[q] # "idle"
  PROVE  (Overlap(p, q)' <=> Overlap(p, q)) /\ pc'[p] # "idle" /\ pc'[q] # "idle"
BY DEF StepOf, Overlap

\* Two requests overlap while neither has been answered.
LEMMA BothUnderWay ==
  ASSUME RequestsInv, NEW p \in Requests, NEW q \in Requests, pc[p] # "done", pc[q] # "done"
  PROVE  Overlap(p, q) /\ Overlap(q, p)
BY DEF RequestsInv, IdsInv, Phases, Overlap

-----------------------------------------------------------------------------
(* Failed creations *)

\* Before it is given its identifier a row holds what getVishnuCounter put there.
Placeholders ==
  \A r \in Requests :
    /\ key[r] = 0 => status[r] = "none" /\ content[r] = NoOne
    /\ pc[r] \in {"check", "reserve"} =>
         /\ id[r] = PlaceholderId(op[r].kind)
         /\ op[r].kind # "work" => status[r] = PlaceholderStatus(op[r].kind)

\* The identifier generated is the name asked for, or has a counter appended;
\* with an empty name nobody comes as far as to fill the row.
NamesGiven ==
  \A r \in Requests : key[r] # 0 =>
    /\ gen[r] = GeneratedName(r, key[r]) \/ gen[r].counters # <<>>
    /\ pc[r] \in {"count", "fill"} => GeneratedName(r, key[r]) # Empty

\* Rows are filled by creations of the same name that overlapped.
FillerOf(q, r) ==
  /\ q \in Requests /\ Settled(q) /\ Settled(r)
  /\ id[q] = id[r] /\ Overlap(q, r)
Contents ==
  \A r \in Requests : content[r] # NoOne => FillerOf(content[r], r)

\* A user in use has been filled; anything else has, or an update activated it.
InUse ==
  \A r \in Requests : key[r] # 0 =>
    /\ op[r].kind = "user" /\ status[r] \notin {"null", "deleted"} => content[r] \in Requests
    /\ op[r].kind \notin {"user", "work"} /\ status[r] = "active" =>
         content[r] \in Requests \/ Activated(r)

FailedInv == RequestsInv /\ Placeholders /\ NamesGiven /\ Contents /\ InUse

LEMMA FailedInvInit == Init => FailedInv
<1> SUFFICES ASSUME Init PROVE FailedInv
  OBVIOUS
<1>1. RequestsInv
  BY RequestsInvInit
<1>2. \A r \in Requests :
        /\ key[r] = 0 /\ pc[r] = "idle" /\ status[r] = "none" /\ content[r] = NoOne
  BY IdsAssumption DEF Init, IdsInit, Objects
<1>3. QED
  BY <1>1, <1>2 DEF FailedInv, Placeholders, NamesGiven, Contents, InUse

\* The steps that do not write the rows that are created.
LEMMA RowsLeft ==
  ASSUME RequestsInv, NEW r \in Requests, Step(r),
         ~GetVishnuCounter(r), ~CheckObjectId(r), ~ReserveObjectId(r), ~FillRows(r), ~WriteStatus(r)
  PROVE  /\ UNCHANGED rowVars
         /\ pc'[r] \notin {"check", "reserve"}
         /\ pc'[r] \in {"count", "fill"} => pc[r] = "count"
BY DEF RequestsInv, IdsInv, IdsTypes, Step, CreationStep, StatementFails, CountRows, Finish,
   LookUpObject, CheckNotLocked, DeleteAccounts, FindHolder, FindNumbers, CheckAccount,
   CheckLogin, WriteAccount, Answer, Continue, GoTo, rowVars

\* An identifier that is counted, or written, is no placeholder.
LEMMA NoPlaceholder ==
  ASSUME FailedInv, NEW r \in Requests, pc[r] \in {"count", "fill"}
  PROVE  /\ gen[r] # PlaceholderId(op[r].kind)
         /\ op[r].do = "create" /\ op[r].kind \in Kinds /\ key[r] # 0 /\ id[r] = gen[r]
<1> USE DEF FailedInv, RequestsInv, IdsInv
<1>1. /\ op[r].do = "create" /\ op[r].kind \in Kinds /\ key[r] # 0 /\ id[r] = gen[r]
      /\ gen[r].name # Null.name
  BY IdsAssumption DEF Phases, RowKnown, Creating, Reserved, IdsTypes
<1>2. gen[r] # Null
  BY <1>1
<1>3. CASE op[r].kind = "user"
  <2>1. Empty.counters = <<>>
    BY DEF Empty, Id
  <2>2. gen[r] # Empty
    BY <1>1, <2>1 DEF NamesGiven
  <2>3. QED
    BY <1>1, <1>3, <2>2 DEF PlaceholderId
<1>4. CASE op[r].kind = "work"
  <2>1. gen[r].counters # <<>>
    BY <1>1, <1>4 DEF KeysFirst, Counted
  <2>2. gen[r] # Id("t", <<>>)
    BY <2>1 DEF Id
  <2>3. QED
    BY <1>1, <1>4, <2>2 DEF PlaceholderId
<1>5. CASE op[r].kind \in {"machine", "authsystem", "job"}
  BY <1>1, <1>2, <1>5 DEF PlaceholderId
<1>6. QED
  BY <1>1, <1>3, <1>4, <1>5 DEF Kinds, Named, Counted

\* The rows that a creation fills have their identifiers, and their requests
\* overlap with it.
LEMMA SameAreSettled ==
  ASSUME FailedInv, NEW r \in Requests, pc[r] = "fill", NEW q \in Requests,
         q \in Rows(op[r].kind, gen[r])
  PROVE  Settled(q) /\ id[q] = gen[r] /\ Overlap(r, q)
<1> USE DEF FailedInv, RequestsInv, IdsInv
<1>1. key[q] # 0 /\ op[q].kind = op[r].kind /\ id[q] = gen[r] /\ q \notin Existing
  BY IdsAssumption DEF Rows, KindOf
<1>2. pc[q] \notin {"idle", "check", "reserve"}
  BY <1>1, NoPlaceholder DEF Placeholders, Procedures
<1>3. r \notin before[q]
  BY DEF Phases
<1>4. q \notin before[r]
  <2>1. Checked(r)
    BY DEF Checked, Phases, Creating
  <2>2. QED
    BY <1>1, <2>1 DEF NewToTheTable
<1>5. QED
  BY <1>1, <1>2, <1>3, <1>4 DEF Settled, Overlap

LEMMA PlaceholdersNext ==
  ASSUME FailedInv, NEW r \in Requests, Step(r)
  PROVE  Placeholders'
<1> USE DEF FailedInv, RequestsInv, IdsInv, IdsTypes
<1>1. StepOf(r) /\ r \in Objects
  BY StepIsOneRequests DEF Objects
<1>2. \A q \in Requests \ {r} :
        /\ q \in Objects /\ q \notin Existing /\ op'[q] = op[q]
        /\ pc'[q] = pc[q] /\ key'[q] = key[q] /\ id'[q] = id[q]
  BY <1>1, IdsAssumption DEF StepOf, Objects
<1>3. CASE GetVishnuCounter(r)
  <2>1. \A q \in Requests \ {r} : status'[q] = status[q] /\ content'[q] = content[q]
    BY <1>3, <1>2 DEF GetVishnuCounter
  <2>2. /\ key'[r] # 0 /\ id'[r] = PlaceholderId(op[r].kind)
        /\ status'[r] = PlaceholderStatus(op[r].kind)
    <3>1. counter[op[r].kind] + 1 \in Nat \ {0}
      BY <1>3, IdsAssumption DEF GetVishnuCounter
    <3>2. QED
      BY <1>1, <1>3, <3>1 DEF GetVishnuCounter
  <2>3. QED
    BY <1>1, <1>2, <2>1, <2>2 DEF Placeholders, StepOf
<1>4. CASE CheckObjectId(r) \/ ReserveObjectId(r)
  <2>1. status' = status /\ content' = content /\ key' = key
    BY <1>4 DEF CheckObjectId, ReserveObjectId
  <2>2. pc'[r] \in {"check", "reserve"} => pc[r] \in {"check", "reserve"} /\ id'[r] = id[r]
    BY <1>1, <1>4 DEF CheckObjectId, ReserveObjectId, Answer, Continue, GoTo
  <2>3. QED
    BY <1>1, <1>2, <2>1, <2>2 DEF Placeholders, StepOf
<1>5. CASE FillRows(r) \/ WriteStatus(r)
  <2>1. key' = key /\ pc'[r] \notin {"check", "reserve"}
    BY <1>5 DEF FillRows, WriteStatus, Answer, Continue, GoTo
  <2>2. ASSUME NEW q \in Requests, key[q] = 0
        PROVE  status'[q] = status[q] /\ content'[q] = content[q]
    BY <1>5, <2>2 DEF FillRows, WriteStatus, Rows, NotDeleted, Objects
  <2>3. ASSUME NEW q \in Requests \ {r}, pc[q] \in {"check", "reserve"}, op[q].kind # "work"
        PROVE  status'[q] = status[q]
    <3>1. CASE FillRows(r)
      <4>1. ~Settled(q)
        BY <2>3 DEF Settled
      <4>2. q \notin Rows(op[r].kind, gen[r])
        BY <3>1, <4>1, SameAreSettled DEF FillRows
      <4>3. QED
        BY <1>2, <3>1, <4>2 DEF FillRows
    <3>2. CASE WriteStatus(r)
      <4>1. op[q].kind \in Kinds
        BY <2>3, IdsAssumption DEF Phases, Creating
      <4>2. op[q].kind \in {"machine", "authsystem", "job"} => id[q] = Null
        BY <2>3 DEF Placeholders, PlaceholderId
      <4>3. op[q].kind = "user" => status[q] = "null"
        BY <2>3 DEF Placeholders, PlaceholderStatus
      <4>4. q \notin IF op[r].kind = "user" THEN NotDeleted(Rows(op[r].kind, op[r].id))
                     ELSE Rows(op[r].kind, op[r].id)
        BY <1>2, <2>3, <4>1, <4>2, <4>3 DEF NotDeleted, Rows, KindOf, Kinds, Named, Counted
      <4>5. QED
        BY <1>2, <3>2, <4>4 DEF WriteStatus
    <3>3. QED
      BY <1>5, <3>1, <3>2
  <2>4. QED
    BY <1>1, <1>2, <2>1, <2>2, <2>3 DEF Placeholders, StepOf
<1>6. CASE ~GetVishnuCounter(r) /\ ~CheckObjectId(r) /\ ~ReserveObjectId(r) /\ ~FillRows(r) /\ ~WriteStatus(r)
  <2>1. UNCHANGED rowVars /\ pc'[r] \notin {"check", "reserve"}
    BY <1>6, RowsLeft
  <2>2. QED
    BY <1>1, <1>2, <2>1 DEF Placeholders, StepOf, rowVars
<1>7. QED
  BY <1>3, <1>4, <1>5, <1>6

LEMMA NamesGivenNext ==
  ASSUME FailedInv, NEW r \in Requests, Step(r)
  PROVE  NamesGiven'
<1> USE DEF FailedInv, RequestsInv, IdsInv, IdsTypes
<1>1. StepOf(r) /\ r \in Objects
  BY StepIsOneRequests DEF Objects
<1> USE DEF GeneratedName
<1>2. op' = op
  BY <1>1 DEF StepOf
<1>3. \A q \in Requests \ {r} :
        q \in Objects /\ pc'[q] = pc[q] /\ key'[q] = key[q] /\ gen'[q] = gen[q]
  BY <1>1 DEF StepOf, Objects
<1>4. CASE GetVishnuCounter(r)
  <2>1. gen'[r] = GeneratedName(r, key'[r]) /\ pc'[r] = "check"
    BY <1>1, <1>4 DEF GetVishnuCounter, Continue, GoTo
  <2>2. QED
    BY <1>2, <1>3, <2>1 DEF NamesGiven
<1>5. CASE CheckObjectId(r)
  <2>1. key'[r] = key[r] /\ pc'[r] \notin {"count", "fill"}
    BY <1>1, <1>5 DEF CheckObjectId, Continue, GoTo
  <2>2. gen'[r] = gen[r] \/ gen'[r].counters # <<>>
    <3>1. gen[r].counters \in Seq(Nat) /\ key[r] \in Nat
      BY <1>1
    <3>2. Append(gen[r].counters, key[r]) # <<>>
      BY <3>1, CountersGrow
    <3>3. \/ gen' = gen
          \/ gen' = [gen EXCEPT ![r] = Id(@.name, Append(@.counters, key[r]))]
      BY <1>5 DEF CheckObjectId
    <3>4. QED
      BY <3>2, <3>3 DEF Id
  <2>3. QED
    BY <1>2, <1>3, <2>1, <2>2 DEF NamesGiven
<1>6. CASE ReserveObjectId(r)
  <2>1. key'[r] = key[r] /\ gen'[r] = gen[r]
    BY <1>6 DEF ReserveObjectId
  <2>2. pc'[r] \in {"count", "fill"} => GeneratedName(r, key[r]) # Empty
    BY <1>6 DEF ReserveObjectId, Answer, GoTo
  <2>3. QED
    BY <1>2, <1>3, <2>1, <2>2 DEF NamesGiven
<1>7. CASE ~GetVishnuCounter(r) /\ ~CheckObjectId(r) /\ ~ReserveObjectId(r)
  <2>1. key'[r] = key[r] /\ gen'[r] = gen[r] /\ (pc'[r] \in {"count", "fill"} => pc[r] = "count")
    <3>1. CASE FillRows(r) \/ WriteStatus(r)
      BY <3>1 DEF FillRows, WriteStatus, Answer, Continue, GoTo
    <3>2. CASE ~FillRows(r) /\ ~WriteStatus(r)
      BY <1>7, <3>2, RowsLeft DEF rowVars
    <3>3. QED
      BY <3>1, <3>2
  <2>2. QED
    BY <1>2, <1>3, <2>1 DEF NamesGiven
<1>8. QED
  BY <1>4, <1>5, <1>6, <1>7

LEMMA ContentsNext ==
  ASSUME FailedInv, NEW r \in Requests, Step(r)
  PROVE  Contents'
<1> USE DEF FailedInv, RequestsInv
<1>1. StepOf(r) /\ r \in Objects
  BY StepIsOneRequests DEF Objects
<1>2. ASSUME NEW q, NEW o \in Requests, FillerOf(q, o)
      PROVE  FillerOf(q, o)'
  <2>1. q \in Requests /\ q \in Objects /\ o \in Objects
    BY <1>2 DEF FillerOf, Objects
  <2>2. /\ Settled(q)' /\ id'[q] = id[q]
        /\ Settled(o)' /\ id'[o] = id[o]
    BY <1>1, <1>2, <2>1, SettledStays DEF FillerOf
  <2>3. Overlap(q, o)'
    BY <1>1, <1>2, <2>1, OverlapStays DEF FillerOf, Settled
  <2>4. QED
    BY <1>2, <2>1, <2>2, <2>3 DEF FillerOf
<1>3. ASSUME NEW q, NEW o \in Requests, content'[o] = q, content[o] = q, q # NoOne
      PROVE  FillerOf(q, o)'
  <2>1. FillerOf(q, o)
    BY <1>3 DEF Contents
  <2>2. QED
    BY <1>2, <2>1
<1>4. ASSUME NEW q, NEW o \in Requests, content'[o] = q, content[o] # q
      PROVE  FillerOf(q, o)'
  <2>1. FillRows(r) /\ o \in Objects
    BY <1>4, RowsLeft DEF GetVishnuCounter, CheckObjectId, ReserveObjectId, WriteStatus, rowVars, Objects
  <2>2. o \in Rows(op[r].kind, gen[r]) /\ q = r
    BY <1>4, <2>1 DEF FillRows
  <2>3. Settled(o) /\ id[o] = gen[r] /\ Overlap(r, o)
    BY <2>1, <2>2, SameAreSettled DEF FillRows
  <2>4. Settled(r) /\ id[r] = gen[r]
    BY <2>1, NoPlaceholder DEF FillRows, Settled
  <2>5. FillerOf(q, o)
    BY <2>2, <2>3, <2>4 DEF FillerOf
  <2>6. QED
    BY <1>2, <2>5
<1>5. ASSUME NEW o \in Requests, NEW q, content'[o] = q, q # NoOne
      PROVE  FillerOf(q, o)'
  BY <1>3, <1>4, <1>5
<1>6. QED
  BY <1>5 DEF Contents

LEMMA InUseNext ==
  ASSUME FailedInv, NEW r \in Requests, Step(r)
  PROVE  InUse'
<1> USE DEF FailedInv, RequestsInv, IdsInv, IdsTypes
<1>1. StepOf(r) /\ r \in Objects
  BY StepIsOneRequests DEF Objects
<1>2. \A q \in Requests : q \in Objects /\ q \notin Existing
  BY IdsAssumption DEF Objects
<1>3. ASSUME NEW o \in Requests, key[o] # 0, id'[o] = id[o], Activated(o)
      PROVE  Activated(o)'
  BY <1>1, <1>3 DEF Activated, StepOf
<1> DEFINE Fine(o) ==
      /\ op[o].kind = "user" /\ status[o] \notin {"null", "deleted"} => content[o] \in Requests
      /\ op[o].kind \notin {"user", "work"} /\ status[o] = "active" =>
           content[o] \in Requests \/ Activated(o)
<1>4. ASSUME NEW o \in Requests, key[o] # 0, id'[o] = id[o],
             status'[o] = status[o], content'[o] = content[o]
      PROVE  Fine(o)'
  <2>1. Fine(o)
    BY <1>4 DEF InUse
  <2>2. QED
    BY <1>1, <1>3, <1>4, <2>1 DEF StepOf
<1>5. CASE GetVishnuCounter(r)
  <2>1. op[r].kind \in Kinds
    BY <1>5, IdsAssumption DEF GetVishnuCounter
  <2>2. Fine(r)'
    BY <1>1, <1>5, <2>1 DEF GetVishnuCounter, PlaceholderStatus, Kinds, Named, Counted
  <2>3. ASSUME NEW o \in Requests \ {r}, key'[o] # 0
        PROVE  Fine(o)'
    BY <1>1, <1>2, <1>4, <1>5, <2>3 DEF GetVishnuCounter, StepOf
  <2>4. QED
    BY <2>2, <2>3 DEF InUse
<1>6. CASE ReserveObjectId(r)
  <2>1. op[r].kind \in Kinds /\ op' = op
    BY <1>6, IdsAssumption DEF ReserveObjectId, Phases, Creating
  <2>2. op[r].kind # "work" => status'[r] = PlaceholderStatus(op[r].kind)
    BY <1>6 DEF ReserveObjectId, Placeholders
  <2>3. Fine(r)'
    BY <2>1, <2>2 DEF PlaceholderStatus, Kinds, Named, Counted
  <2>4. ASSUME NEW o \in Requests \ {r}, key'[o] # 0
        PROVE  Fine(o)'
    BY <1>1, <1>2, <1>4, <1>6, <2>4 DEF ReserveObjectId, StepOf
  <2>5. QED
    BY <2>3, <2>4 DEF InUse
<1>7. CASE FillRows(r)
  <2>1. ASSUME NEW o \in Requests, key'[o] # 0
        PROVE  Fine(o)'
    <3>1. key[o] # 0 /\ id'[o] = id[o]
      BY <1>7, <2>1 DEF FillRows
    <3>2. CASE o \in Rows(op[r].kind, gen[r])
      BY <1>2, <1>7, <3>2 DEF FillRows
    <3>3. CASE o \notin Rows(op[r].kind, gen[r])
      BY <1>2, <1>4, <1>7, <3>1, <3>3 DEF FillRows
    <3>4. QED
      BY <3>2, <3>3
  <2>2. QED
    BY <2>1 DEF InUse
<1>8. CASE WriteStatus(r)
  <2>1. ASSUME NEW o \in Requests, key'[o] # 0
        PROVE  Fine(o)'
    <3>1. key[o] # 0 /\ id'[o] = id[o] /\ content'[o] = content[o] /\ op' = op
      BY <1>8, <2>1 DEF WriteStatus
    <3>2. CASE status'[o] = status[o]
      BY <1>4, <3>1, <3>2
    <3>3. CASE status'[o] # status[o]
      <4>1. /\ o \in Rows(op[r].kind, op[r].id) /\ status'[o] = NewStatus(r)
            /\ op[r].kind = "user" => status[o] \notin {"null", "deleted"}
        <5>1. o \in Objects
          BY DEF Objects
        <5> DEFINE same == Rows(op[r].kind, op[r].id)
                   hit == IF op[r].kind = "user" THEN NotDeleted(same) ELSE same
        <5>2. status'[o] = IF o \in hit THEN NewStatus(r) ELSE status[o]
          BY <1>8, <5>1 DEF WriteStatus
        <5>3. o \in hit
          BY <3>3, <5>2
        <5>4. QED
          BY <3>3, <5>2, <5>3 DEF NotDeleted
      <4>2. op[r].kind = op[o].kind /\ op[r].id = id[o]
        BY <1>2, <4>1 DEF Rows, KindOf
      <4>3. op[o].kind = "user" => content[o] \in Requests
        BY <3>1, <4>1, <4>2 DEF InUse
      <4>4. status'[o] = "active" => Activated(o)
        <5>1. pc[r] = "write"
          BY <1>8 DEF WriteStatus
        <5>2. Procedures
          OBVIOUS
        <5> HIDE DEF FailedInv, RequestsInv, IdsInv, IdsTypes
        <5>3. op[r].do \in {"update", "delete"}
          BY <5>1, <5>2 DEF Procedures
        <5>4. status'[o] = "active" => op[r].do = "update" /\ op[r].status = "active"
          BY <4>1, <5>3 DEF NewStatus
        <5>5. QED
          BY <4>2, <5>4 DEF Activated
      <4>5. status'[o] = "active" => Activated(o)'
        BY <1>3, <3>1, <4>4
      <4>6. QED
        BY <3>1, <4>3, <4>5
    <3>4. QED
      BY <3>2, <3>3
  <2>2. QED
    BY <2>1 DEF InUse
<1>9. CASE ~GetVishnuCounter(r) /\ ~ReserveObjectId(r) /\ ~FillRows(r) /\ ~WriteStatus(r)
  <2>1. UNCHANGED <<key, id, status, content>>
    BY <1>9, RowsLeft DEF CheckObjectId, rowVars
  <2>2. QED
    BY <1>4, <2>1 DEF InUse
<1>10. QED
  BY <1>5, <1>6, <1>7, <1>8, <1>9

LEMMA FailedInvNext == FailedInv /\ [Next]_vars => FailedInv'
<1> SUFFICES ASSUME FailedInv, [Next]_vars PROVE FailedInv'
  OBVIOUS
<1>1. CASE Next
  <2>1. PICK r \in Requests : Step(r)
    BY <1>1 DEF Next
  <2>2. QED
    BY <2>1, RequestsInvNext, PlaceholdersNext, NamesGivenNext, ContentsNext, InUseNext
       DEF FailedInv
<1>2. CASE UNCHANGED vars
  <2>1. IdsInv'
    BY <1>2, IdsInvNext DEF FailedInv, RequestsInv
  <2>2. QED
    BY <1>2, <2>1 DEF vars, idVars, requestVars, rowVars, accVars, FailedInv, RequestsInv, Procedures,
       Placeholders, NamesGiven, Contents, FillerOf, InUse, GeneratedName, Settled, Overlap, Activated
<1>3. QED
  BY <1>1, <1>2

LEMMA FailedInvUnusable == FailedInv => FailedIsUnusable
<1> SUFFICES ASSUME FailedInv, NEW r \in Requests,
                    op[r].do = "create", op[r].kind # "work", result[r] = "error", status[r] = "active"
             PROVE  \/ /\ content[r] \in Requests
                       /\ Overlap(content[r], r) /\ id[content[r]] = id[r]
                    \/ op[r].kind # "user" /\ Activated(r)
  BY DEF FailedIsUnusable
<1>1. key[r] # 0
  BY DEF FailedInv, Placeholders
<1>2. content[r] \in Requests => Overlap(content[r], r) /\ id[content[r]] = id[r]
  BY AccountsAssumption DEF FailedInv, Contents, FillerOf, Objects
<1>3. QED
  BY <1>1, <1>2 DEF FailedInv, InUse

\* A creation that was told an error has left nothing that can be used, unless
\* its row had been filled, by itself or by a creation of the same name that
\* went on at the same time, or an update has activated a machine or an
\* authentication system that had only been reserved: whichever statement failed, and
\* whatever other requests did.  What sees to it is the status of the
\* placeholder of getVishnuCounter, and for users the condition of the UPDATE.
THEOREM FailedCreationsAreUnusable == Spec => []FailedIsUnusable
<1>1. Init => FailedInv
  BY FailedInvInit
<1>2. FailedInv /\ [Next]_vars => FailedInv'
  BY FailedInvNext
<1>3. FailedInv => FailedIsUnusable
  BY FailedInvUnusable
<1>4. QED
  BY <1>1, <1>2, <1>3, PTL DEF Spec

-----------------------------------------------------------------------------
(* One account per user and login *)

\* r has found the machine or authentication system, and the user.
Found(r) == pc[r] \in {"exist", "login", "account"} \/ account[r] # NoAccount

AccountTypes ==
  /\ \A a \in AccountRows : DOMAIN account[a] = DOMAIN NoAccount
  /\ \A a \in OldAccounts :
       /\ account[a].holder \in Existing /\ KindOf(account[a].holder) \in Holders
       /\ account[a].user \in Existing /\ KindOf(account[a].user) = "user"
  /\ \A r \in Requests : account[r] # NoAccount =>
       /\ op[r].do = "addAccount" /\ pc[r] = "done"
       /\ account[r].holder = holder[r] /\ account[r].user = owner[r]

\* What was found has the names asked for, and keeps them.
FoundOnes ==
  \A r \in Requests : Found(r) =>
    /\ holder[r] \in Objects /\ Settled(holder[r])
    /\ op[r].kind \in Holders /\ KindOf(holder[r]) = op[r].kind /\ id[holder[r]] = op[r].id
    /\ owner[r] \in Objects /\ KindOf(owner[r]) = "user"
    /\ op[r].do = "addAccount" /\ op[r].kind = "machine" =>
         Settled(owner[r]) /\ id[owner[r]] = op[r].user

\* Whoever adds an account and has looked for one: those that are there now
\* were added by others in the meantime.
OneAccountEach ==
  \A r \in Requests, a \in AccountRows :
    /\ op[r].do = "addAccount" /\ pc[r] \in {"login", "account"}
    /\ Live(a) /\ account[a].holder = holder[r] /\ account[a].user = owner[r]
    => Inserted(a) /\ Overlap(a, r)

LoginUpdated(p) == op[p].do = "updateAccount" /\ pc[p] = "done"

\* Whoever has looked for the login: those that have it now were added, or given it,
\* by others in the meantime.
LoginsLookedUp ==
  \A r \in Requests, a \in AccountRows :
    /\ pc[r] = "account"
    /\ op[r].do = "addAccount" \/ (op[r].do = "updateAccount" /\ op[r].kind = "authsystem")
    /\ Live(a) /\ account[a].holder = holder[r] /\ account[a].login = op[r].login
    => \/ Inserted(a) /\ Overlap(a, r)
       \/ \E p \in Requests \ {r} :
            /\ LoginUpdated(p) /\ op[p].login = op[r].login /\ Overlap(p, r)
            /\ holder[p] = holder[r] /\ owner[p] = account[a].user

Together(a, b) == Inserted(a) /\ Inserted(b) /\ Overlap(a, b)

\* The excuses of AccountsAreOnce, with updates that have been carried out.
LoginGiven(q, a, b) ==
  /\ LoginUpdated(q) /\ op[q].login = account[a].login
  /\ holder[q] = account[a].holder /\ owner[q] \in {account[a].user, account[b].user}
  /\ \/ op[q].kind = "machine"
     \/ \E c \in {a, b} : Inserted(c) /\ Overlap(q, c)
     \/ \E p \in Requests \ {q} :
          LoginUpdated(p) /\ op[p].login = op[q].login /\ Overlap(p, q)

Neighbours(a, b) ==
  a # b /\ Live(a) /\ Live(b) /\ account[a].holder = account[b].holder

UsersOnce ==
  \A a, b \in AccountRows :
    Neighbours(a, b) /\ account[a].user = account[b].user => Together(a, b)

LoginsOnce ==
  \A a, b \in AccountRows :
    Neighbours(a, b) /\ account[a].login = account[b].login =>
      Together(a, b) \/ \E q \in Requests : LoginGiven(q, a, b)

FoundInv == FailedInv /\ AccountTypes /\ FoundOnes
OnceInv == FoundInv /\ OneAccountEach /\ LoginsLookedUp /\ UsersOnce /\ LoginsOnce

LEMMA FoundInvInit == Init => FoundInv
<1> SUFFICES ASSUME Init PROVE FoundInv
  OBVIOUS
<1>1. FailedInv
  BY FailedInvInit
<1>2. \A r \in Requests : r \in AccountRows /\ r \notin OldAccounts /\ pc[r] = "idle" /\ account[r] = NoAccount
  BY AccountsAssumption DEF Init, IdsInit, AccountRows
<1>3. \A a \in OldAccounts : a \in AccountRows /\ account[a] = AccountsAre[a]
  BY DEF Init, AccountRows
<1>4. AccountTypes
  BY <1>2, <1>3, AccountsAssumption DEF AccountTypes, AccountRows, KindOf
<1>5. FoundOnes
  BY <1>2 DEF FoundOnes, Found
<1>6. QED
  BY <1>1, <1>4, <1>5 DEF FoundInv

LEMMA OnceInvInit == Init => OnceInv
<1> SUFFICES ASSUME Init PROVE OnceInv
  OBVIOUS
<1>1. FoundInv
  BY FoundInvInit
<1>2. \A r \in Requests : r \notin OldAccounts /\ pc[r] = "idle" /\ account[r] = NoAccount
  BY AccountsAssumption DEF Init, IdsInit, AccountRows
<1>3. \A a \in OldAccounts : account[a] = AccountsAre[a]
  BY DEF Init, AccountRows
<1>4. OneAccountEach /\ LoginsLookedUp
  BY <1>2 DEF OneAccountEach, LoginsLookedUp
<1>5. ASSUME NEW a \in AccountRows, NEW b \in AccountRows, Neighbours(a, b)
      PROVE  account[a].user # account[b].user /\ account[a].login # account[b].login
  <2>1. a \in OldAccounts /\ b \in OldAccounts \ {a}
    BY <1>2, <1>5 DEF Neighbours, Live, NoAccount, AccountRows
  <2>2. {AccountsAre[a].status, AccountsAre[b].status} = {"active"}
    BY <1>3, <1>5, <2>1 DEF Neighbours, Live
  <2>3. QED
    BY <1>3, <1>5, <2>1, <2>2, AccountsAssumption DEF Neighbours
<1>6. QED
  BY <1>1, <1>4, <1>5 DEF OnceInv, UsersOnce, LoginsOnce

\* A step of r inserts the account a.
AddedBy(r, a) ==
  /\ a = r /\ op[r].do = "addAccount" /\ pc[r] = "account" /\ pc'[r] = "done"
  /\ account'[a] = [holder |-> holder[r], user |-> owner[r],
                    login |-> op[r].login, status |-> "active"]

\* A step of r leaves the account a, deletes it or gives it a login.
KeptBy(r, a) ==
  /\ account'[a].holder = account[a].holder /\ account'[a].user = account[a].user
  /\ DOMAIN account'[a] = DOMAIN account[a]
  /\ Live(a)' => Live(a)
  /\ Inserted(a)' <=> Inserted(a)
  /\ \/ account'[a].login = account[a].login
     \/ /\ op[r].do = "updateAccount" /\ pc[r] = "account" /\ pc'[r] = "done"
        /\ a \in AccountsOf(holder[r], owner[r])
        /\ account'[a].login = op[r].login

LEMMA AccountsLeft ==
  ASSUME RequestsInv, NEW r \in Requests, Step(r), ~DeleteAccounts(r), ~WriteAccount(r)
  PROVE  account' = account
BY DEF Step, CreationStep, LookUpObject, CheckNotLocked, WriteStatus, FindHolder, FindNumbers,
   CheckAccount, CheckLogin, accVars

\* An account that is not there is nobody's.
LEMMA NobodysAccount ==
  ASSUME FoundInv, NEW a \in AccountRows, account[a] = NoAccount
  PROVE  /\ account[a].holder \notin Objects /\ account[a].user \notin Objects /\ ~Live(a)
BY AccountsAssumption DEF NoAccount, Live

LEMMA AccountWritten ==
  ASSUME FoundInv, NEW r \in Requests, Step(r), NEW a \in AccountRows
  PROVE  AddedBy(r, a) \/ KeptBy(r, a)
<1> USE DEF FoundInv, FailedInv, RequestsInv, IdsInv, IdsTypes
<1>1. DOMAIN account[a] = {"holder", "user", "login", "status"}
  BY DEF AccountTypes, NoAccount
<1>2. CASE ~DeleteAccounts(r) /\ ~WriteAccount(r)
  BY <1>2, AccountsLeft DEF KeptBy, Live, Inserted
<1>3. CASE account'[a] = account[a]
  BY <1>3 DEF KeptBy, Live, Inserted
<1>4. CASE account'[a] = [account[a] EXCEPT !.status = "deleted"] /\ account[a] # NoAccount
  <2>1. account'[a].status = "deleted" /\ account'[a] # NoAccount
    BY <1>1, <1>4 DEF NoAccount
  <2>2. account'[a].login = account[a].login
    BY <1>1, <1>4
  <2>3. QED
    BY <1>1, <1>4, <2>1, <2>2 DEF KeptBy, Live, Inserted
<1>5. CASE DeleteAccounts(r)
  <2>1. a \in AccountsToDelete(r) => account[a] # NoAccount
    BY NobodysAccount DEF AccountsToDelete, Rows
  <2>2. QED
    BY <1>3, <1>4, <1>5, <2>1 DEF DeleteAccounts
<1>6. CASE WriteAccount(r)
  <2>1. pc[r] = "account" /\ op[r].do \in AccountOps /\ r \in AccountRows
    BY <1>6 DEF WriteAccount, Procedures, AccountRows
  <2>2. a \in AccountsOf(holder[r], owner[r]) => account[a] # NoAccount
    BY <2>1, NobodysAccount DEF AccountsOf, FoundOnes, Found
  <2>3. CASE op[r].do = "addAccount"
    <3>1. a = r => AddedBy(r, a)
      BY <1>6, <2>1, <2>3 DEF WriteAccount, AddedBy, Answer, GoTo
    <3>2. a # r => account'[a] = account[a]
      BY <1>6, <2>1, <2>3 DEF WriteAccount
    <3>3. QED
      BY <1>3, <3>1, <3>2
  <2>4. CASE op[r].do = "deleteAccount"
    BY <1>3, <1>4, <1>6, <2>2, <2>4 DEF WriteAccount
  <2>5. CASE op[r].do = "updateAccount" /\ a \in AccountsOf(holder[r], owner[r])
    <3>1. account'[a] = [account[a] EXCEPT !.login = op[r].login] /\ pc'[r] = "done"
      BY <1>6, <2>5 DEF WriteAccount, Answer, GoTo
    <3>2. account'[a].holder = account[a].holder
      BY <1>1, <3>1
    <3>3. account'[a] # NoAccount
      BY <2>1, <2>5, <3>2, AccountsAssumption DEF AccountsOf, FoundOnes, Found, NoAccount
    <3>4. QED
      BY <1>1, <2>1, <2>2, <2>5, <3>1, <3>3 DEF KeptBy, Live, Inserted
  <2>6. CASE op[r].do = "updateAccount" /\ a \notin AccountsOf(holder[r], owner[r])
    BY <1>3, <1>6, <2>6 DEF WriteAccount
  <2>7. QED
    BY <2>1, <2>3, <2>4, <2>5, <2>6 DEF AccountOps
<1>7. QED
  BY <1>2, <1>5, <1>6

LEMMA AccountTypesNext ==
  ASSUME FoundInv, NEW r \in Requests, Step(r)
  PROVE  AccountTypes'
<1> USE DEF FoundInv, FailedInv, RequestsInv
<1>1. StepOf(r)
  BY StepIsOneRequests
<1>2. ASSUME NEW a \in AccountRows
      PROVE  DOMAIN account'[a] = DOMAIN NoAccount
  <2>1. CASE AddedBy(r, a)
    BY <2>1 DEF AddedBy, NoAccount
  <2>2. CASE KeptBy(r, a)
    BY <2>2 DEF KeptBy, AccountTypes
  <2>3. QED
    BY <2>1, <2>2, AccountWritten
<1>3. ASSUME NEW a \in OldAccounts
      PROVE  account'[a].holder = account[a].holder /\ account'[a].user = account[a].user
  <2>1. a \in AccountRows /\ a # r
    BY AccountsAssumption DEF AccountRows
  <2>2. AddedBy(r, a) \/ KeptBy(r, a)
    BY <2>1, AccountWritten
  <2>3. QED
    BY <2>1, <2>2 DEF AddedBy, KeptBy
<1>4. ASSUME NEW a \in OldAccounts
      PROVE  /\ account'[a].holder \in Existing /\ KindOf(account[a].holder)' \in Holders
             /\ account'[a].user \in Existing /\ KindOf(account[a].user)' = "user"
  BY <1>3 DEF AccountTypes, KindOf
<1>5. ASSUME NEW q \in Requests, account'[q] # NoAccount
      PROVE  /\ op'[q].do = "addAccount" /\ pc'[q] = "done"
             /\ account'[q].holder = holder'[q] /\ account'[q].user = owner'[q]
  <2>1. q \in AccountRows
    BY DEF AccountRows
  <2>2. CASE AddedBy(r, q)
    BY <1>1, <2>2 DEF AddedBy, StepOf
  <2>3. CASE KeptBy(r, q)
    <3>1. account[q] # NoAccount
      BY <1>5, <2>3 DEF KeptBy, Inserted
    <3>2. QED
      BY <1>1, <2>3, <3>1 DEF KeptBy, AccountTypes, StepOf
  <2>4. QED
    BY <2>1, <2>2, <2>3, AccountWritten
<1>6. QED
  BY <1>2, <1>4, <1>5 DEF AccountTypes

\* Who has found its objects after a step found them then or before.
LEMMA FoundBefore ==
  ASSUME FoundInv, NEW r \in Requests, Step(r), NEW q \in Requests, Found(q)'
  PROVE  \/ q = r /\ FindNumbers(r)
         \/ Found(q) /\ holder'[q] = holder[q] /\ owner'[q] = owner[q]
<1> USE DEF FoundInv, FailedInv, RequestsInv, IdsInv, IdsTypes
<1>1. StepOf(r)
  BY StepIsOneRequests
<1>2. account'[q] # NoAccount => account[q] # NoAccount \/ (q = r /\ pc[q] = "account")
  BY AccountWritten DEF AddedBy, KeptBy, Inserted, AccountRows
<1>3. CASE q # r
  BY <1>1, <1>2, <1>3 DEF Found, StepOf
<1>4. CASE q = r
  <2>1. account[r] = NoAccount
    BY <1>1 DEF AccountTypes, StepOf
  <2>2. pc'[r] \in {"exist", "login", "account"} => FindNumbers(r) \/ pc[r] \in {"exist", "login"}
    BY DEF Step, CreationStep, StatementFails, GetVishnuCounter, CheckObjectId, ReserveObjectId,
       CountRows, FillRows, Finish, LookUpObject, CheckNotLocked, WriteStatus, DeleteAccounts,
       FindHolder, CheckAccount, CheckLogin, WriteAccount, Answer, Continue, GoTo
  <2>3. FindNumbers(r) \/ pc[r] \in {"exist", "login", "account"}
    BY <1>2, <1>4, <2>1, <2>2 DEF Found
  <2>4. QED
    BY <1>1, <1>4, <2>3 DEF Found, StepOf
<1>5. QED
  BY <1>3, <1>4

\* A machine, an authentication system or a user who is not a placeholder has
\* its identifier.
LEMMA NamedIsSettled ==
  ASSUME FailedInv, NEW k \in Holders \cup {"user"}, NEW i, NEW o \in Rows(k, i),
         k = "user" => status[o] # "null"
  PROVE  o \in Objects /\ Settled(o) /\ KindOf(o) = k /\ id[o] = i
<1> USE DEF FailedInv, RequestsInv, IdsInv
<1>1. o \in Objects /\ key[o] # 0 /\ KindOf(o) = k /\ id[o] = i /\ i # Null
  BY DEF Rows
<1>2. ASSUME o \in Requests
      PROVE  pc[o] \notin {"idle", "check", "reserve"}
  <2>1. op[o].kind = k
    BY <1>1, <1>2, IdsAssumption DEF KindOf
  <2>2. k \in Holders => PlaceholderId(k) = Null
    BY DEF Holders, PlaceholderId
  <2>3. k = "user" => PlaceholderStatus(k) = "null" /\ k # "work"
    BY DEF PlaceholderStatus
  <2>4. QED
    BY <1>1, <1>2, <2>1, <2>2, <2>3 DEF Procedures, Placeholders
<1>3. QED
  BY <1>1, <1>2 DEF Settled

LEMMA FoundOnesNext ==
  ASSUME FoundInv, NEW r \in Requests, Step(r)
  PROVE  FoundOnes'
<1> USE DEF FoundInv, FailedInv, RequestsInv
<1>1. StepOf(r) /\ op' = op
  BY StepIsOneRequests DEF StepOf
<1> DEFINE FoundBy(q, h, u) ==
      /\ h \in Objects /\ Settled(h)
      /\ op[q].kind \in Holders /\ KindOf(h) = op[q].kind /\ id[h] = op[q].id
      /\ u \in Objects /\ KindOf(u) = "user"
      /\ op[q].do = "addAccount" /\ op[q].kind = "machine" => Settled(u) /\ id[u] = op[q].user
<1>2. ASSUME NEW q \in Requests, NEW h, NEW u, FoundBy(q, h, u)
      PROVE  FoundBy(q, h, u)'
  <2>1. Settled(h)' /\ id'[h] = id[h] /\ KindOf(h)' = KindOf(h)
    BY <1>1, <1>2, SettledStays
  <2>2. Settled(u) => Settled(u)' /\ id'[u] = id[u]
    BY <1>1, <1>2, SettledStays
  <2>3. KindOf(u)' = KindOf(u)
    BY <1>1 DEF KindOf
  <2>4. QED
    BY <1>1, <1>2, <2>1, <2>2, <2>3
<1>3. CASE FindNumbers(r)
  <2>1. op[r].do \in AccountOps /\ op \in Mixes
    BY <1>3 DEF FindNumbers, Procedures, IdsInv, IdsTypes
  <2>2. op[r].kind \in Holders
    BY <2>1, AccountsAssumption
  <2>3. ASSUME Found(r)', NEW h, NEW u, holder'[r] = h, owner'[r] = u
        PROVE  FoundBy(r, h, u)
    <3>1. /\ h \in Rows(op[r].kind, op[r].id) /\ u \in Rows("user", op[r].user)
          /\ op[r].do = "addAccount" /\ op[r].kind = "machine" => status[u] # "null"
      <4>1. account'[r] = account[r] /\ account[r] = NoAccount
        BY <1>3 DEF FindNumbers, AccountTypes
      <4>2. pc'[r] # "done"
        BY <2>3, <4>1 DEF Found
      <4>3. QED
        BY <1>3, <2>3, <4>2 DEF FindNumbers, NotDeleted, Answer, GoTo, IdsInv, IdsTypes
    <3>2. h \in Objects /\ Settled(h) /\ KindOf(h) = op[r].kind /\ id[h] = op[r].id
      BY <2>2, <3>1, NamedIsSettled DEF Holders
    <3>3. u \in Objects /\ KindOf(u) = "user"
      BY <3>1 DEF Rows
    <3>4. op[r].do = "addAccount" /\ op[r].kind = "machine" => Settled(u) /\ id[u] = op[r].user
      BY <3>1, NamedIsSettled
    <3>5. QED
      BY <2>2, <3>2, <3>3, <3>4
  <2>4. ASSUME Found(r)', NEW h, NEW u, holder'[r] = h, owner'[r] = u
        PROVE  FoundBy(r, h, u)'
    BY <1>2, <2>3, <2>4
  <2>5. ASSUME NEW q \in Requests \ {r}, Found(q)', NEW h, NEW u, holder'[q] = h, owner'[q] = u
        PROVE  FoundBy(q, h, u)'
    <3>1. Found(q) /\ holder[q] = h /\ owner[q] = u
      BY <2>5, FoundBefore
    <3>2. FoundBy(q, h, u)
      BY <3>1 DEF FoundOnes
    <3>3. QED
      BY <1>2, <3>2
  <2>6. QED
    BY <2>4, <2>5 DEF FoundOnes
<1>4. CASE ~FindNumbers(r)
  <2>1. ASSUME NEW q \in Requests, Found(q)', NEW h, NEW u, holder'[q] = h, owner'[q] = u
        PROVE  FoundBy(q, h, u)'
    <3>1. Found(q) /\ holder[q] = h /\ owner[q] = u
      BY <1>4, <2>1, FoundBefore
    <3>2. FoundBy(q, h, u)
      BY <3>1 DEF FoundOnes
    <3>3. QED
      BY <1>2, <3>2
  <2>2. QED
    BY <2>1 DEF FoundOnes
<1>5. QED
  BY <1>3, <1>4

LEMMA FoundInvNext ==
  ASSUME FoundInv, NEW r \in Requests, Step(r)
  PROVE  FoundInv'
<1>1. FailedInv'
  BY FailedInvNext DEF FoundInv, Next
<1>2. QED
  BY <1>1, AccountTypesNext, FoundOnesNext DEF FoundInv

LEMMA OneAccountEachNext ==
  ASSUME OnceInv, NEW r \in Requests, Step(r)
  PROVE  OneAccountEach'
<1> USE DEF OnceInv, FoundInv, FailedInv, RequestsInv
<1>1. StepOf(r) /\ op' = op
  BY StepIsOneRequests DEF StepOf
<1> SUFFICES ASSUME NEW q \in Requests, NEW a \in AccountRows,
                    op[q].do = "addAccount", pc'[q] \in {"login", "account"}, Live(a)',
                    account'[a].holder = holder'[q], account'[a].user = owner'[q]
             PROVE  Inserted(a)' /\ Overlap(a, q)'
  BY <1>1 DEF OneAccountEach
<1>2. CASE pc[q] \notin {"login", "account"}
  <2>1. q = r /\ CheckAccount(r)
    <3>1. q = r
      BY <1>1, <1>2 DEF StepOf
    <3>2. ~CheckLogin(r)
      BY <1>2, <3>1 DEF CheckLogin
    <3>3. QED
      BY <3>1, <3>2, WhereToNext
  <2>2. /\ UNCHANGED accVars
        /\ ~\E b \in AccountsOf(holder[r], owner[r]) : Live(b)
    BY <2>1 DEF CheckAccount, Answer, GoTo, IdsInv, IdsTypes
  <2>3. a \in AccountsOf(holder[r], owner[r]) /\ Live(a)
    BY <2>1, <2>2 DEF accVars, AccountsOf, Live
  <2>4. QED
    BY <2>2, <2>3
<1>3. CASE pc[q] \in {"login", "account"}
  <2>1. holder'[q] = holder[q] /\ owner'[q] = owner[q]
    BY <1>1, <1>3 DEF StepOf
  <2>2. CASE AddedBy(r, a)
    <3>1. Overlap(a, q) /\ pc[a] # "idle" /\ a \in Requests
      BY <1>3, <2>2, BothUnderWay DEF AddedBy
    <3>2. Overlap(a, q)'
      BY <1>1, <1>3, <3>1, OverlapStays
    <3>3. Inserted(a)'
      BY <2>2, <3>1 DEF AddedBy, Inserted, NoAccount
    <3>4. QED
      BY <3>2, <3>3
  <2>3. CASE KeptBy(r, a)
    <3>1. Inserted(a) /\ Overlap(a, q)
      BY <1>3, <2>1, <2>3 DEF KeptBy, OneAccountEach
    <3>2. a \in Requests /\ pc[a] = "done"
      BY <3>1 DEF Inserted, AccountTypes
    <3>3. QED
      BY <1>1, <1>3, <2>3, <3>1, <3>2, OverlapStays DEF KeptBy
  <2>4. QED
    BY <2>2, <2>3, AccountWritten
<1>4. QED
  BY <1>2, <1>3

LEMMA LoginsLookedUpNext ==
  ASSUME OnceInv, NEW r \in Requests, Step(r)
  PROVE  LoginsLookedUp'
<1> USE DEF OnceInv, FoundInv, FailedInv, RequestsInv
<1>1. StepOf(r) /\ op' = op
  BY StepIsOneRequests DEF StepOf
<1> SUFFICES ASSUME NEW q \in Requests, NEW a \in AccountRows, pc'[q] = "account",
                    op[q].do = "addAccount" \/ (op[q].do = "updateAccount" /\ op[q].kind = "authsystem"),
                    Live(a)', account'[a].holder = holder'[q], account'[a].login = op[q].login
             PROVE  \/ Inserted(a)' /\ Overlap(a, q)'
                    \/ \E p \in Requests \ {q} :
                         /\ LoginUpdated(p)' /\ op[p].login = op[q].login /\ Overlap(p, q)'
                         /\ holder'[p] = holder'[q] /\ owner'[p] = account'[a].user
  BY <1>1 DEF LoginsLookedUp
<1>2. CASE pc[q] # "account"
  <2>1. q = r /\ CheckLogin(r)
    <3>1. q = r
      BY <1>1, <1>2 DEF StepOf
    <3>2. CASE CheckAccount(r)
      <4>1. Answer(r, "error") \/ Continue(r, "login")
        BY <3>1, <3>2 DEF CheckAccount
      <4>2. pc'[r] # "account"
        BY <4>1 DEF Answer, Continue, GoTo, IdsInv, IdsTypes
      <4>3. QED
        BY <3>1, <4>2
    <3>3. QED
      BY <3>1, <3>2, WhereToNext
  <2>2. /\ UNCHANGED accVars
        /\ ~\E b \in AccountRows :
              account[b].holder = holder[r] /\ account[b].login = op[r].login /\ Live(b)
    BY <2>1 DEF CheckLogin, Answer, GoTo, IdsInv, IdsTypes
  <2>3. account[a].holder = holder[r] /\ account[a].login = op[r].login /\ Live(a)
    BY <2>1, <2>2 DEF accVars, Live
  <2>4. QED
    BY <2>2, <2>3
<1>3. CASE pc[q] = "account"
  <2>1. holder'[q] = holder[q] /\ owner'[q] = owner[q] /\ q # r
    <3>1. pc'[r] # "account" \/ pc[r] # "account"
      BY DEF Step, CreationStep, StatementFails, GetVishnuCounter, CheckObjectId,
         ReserveObjectId, CountRows, FillRows, Finish, LookUpObject, CheckNotLocked, WriteStatus,
         DeleteAccounts, FindHolder, FindNumbers, CheckAccount, CheckLogin, WriteAccount,
         Answer, Continue, GoTo, IdsInv, IdsTypes
    <3>2. QED
      BY <1>1, <1>3, <3>1 DEF StepOf
  <2>2. CASE AddedBy(r, a)
    <3>1. Overlap(a, q) /\ pc[a] # "idle" /\ a \in Requests
      BY <1>3, <2>2, BothUnderWay DEF AddedBy
    <3>2. Overlap(a, q)'
      BY <1>1, <1>3, <3>1, OverlapStays
    <3>3. Inserted(a)'
      BY <2>2, <3>1 DEF AddedBy, Inserted, NoAccount
    <3>4. QED
      BY <3>2, <3>3
  <2>3. CASE KeptBy(r, a) /\ account'[a].login = account[a].login
    <3>1. \/ Inserted(a) /\ Overlap(a, q)
          \/ \E p \in Requests \ {q} :
               /\ LoginUpdated(p) /\ op[p].login = op[q].login /\ Overlap(p, q)
               /\ holder[p] = holder[q] /\ owner[p] = account[a].user
      <4>1. Live(a) /\ account[a].holder = holder[q] /\ account[a].login = op[q].login
        BY <2>1, <2>3 DEF KeptBy
      <4>2. QED
        BY <1>3, <4>1 DEF LoginsLookedUp
    <3>2. CASE Inserted(a) /\ Overlap(a, q)
      <4>1. a \in Requests /\ pc[a] = "done"
        BY <3>2 DEF Inserted, AccountTypes
      <4>2. QED
        BY <1>1, <1>3, <2>3, <3>2, <4>1, OverlapStays DEF KeptBy
    <3>3. ASSUME NEW p \in Requests \ {q}, LoginUpdated(p), op[p].login = op[q].login, Overlap(p, q),
                 holder[p] = holder[q], owner[p] = account[a].user
          PROVE  /\ LoginUpdated(p)' /\ Overlap(p, q)'
                 /\ holder'[p] = holder'[q] /\ owner'[p] = account'[a].user
      <4>1. pc[p] = "done" /\ p # r
        BY <1>1, <3>3 DEF LoginUpdated, StepOf
      <4>2. Overlap(p, q)'
        BY <1>1, <1>3, <3>3, <4>1, OverlapStays
      <4>3. QED
        BY <1>1, <2>1, <2>3, <3>3, <4>1, <4>2 DEF LoginUpdated, StepOf, KeptBy
    <3>4. QED
      BY <3>1, <3>2, <3>3
  <2>4. CASE KeptBy(r, a) /\ account'[a].login # account[a].login
    <3>1. /\ op[r].do = "updateAccount" /\ pc[r] = "account" /\ pc'[r] = "done"
          /\ a \in AccountsOf(holder[r], owner[r]) /\ account'[a].login = op[r].login
          /\ account'[a].holder = account[a].holder /\ account'[a].user = account[a].user
      BY <2>4 DEF KeptBy
    <3>2. holder'[r] = holder[r] /\ owner'[r] = owner[r]
      BY <1>1, <3>1 DEF StepOf
    <3>3. Overlap(r, q)'
      BY <1>1, <1>3, <3>1, BothUnderWay, OverlapStays
    <3>4. /\ LoginUpdated(r)' /\ op[r].login = op[q].login
          /\ holder'[r] = holder'[q] /\ owner'[r] = account'[a].user
      BY <1>1, <2>1, <3>1, <3>2 DEF LoginUpdated, AccountsOf
    <3>5. QED
      BY <2>1, <3>3, <3>4
  <2>5. QED
    BY <2>2, <2>3, <2>4, AccountWritten
<1>4. QED
  BY <1>2, <1>3

\* Accounts that were added while neither request was answered remain so.
LEMMA TogetherStays ==
  ASSUME FoundInv, NEW r \in Requests, Step(r), NEW a \in AccountRows, NEW b \in AccountRows,
         KeptBy(r, a), KeptBy(r, b), Together(a, b)
  PROVE  Together(a, b)'
<1>1. StepOf(r)
  BY StepIsOneRequests DEF FoundInv, FailedInv
<1>2. a \in Requests /\ b \in Requests /\ pc[a] = "done" /\ pc[b] = "done"
  BY DEF FoundInv, AccountTypes, Together, Inserted
<1>3. Overlap(a, b)'
  BY <1>1, <1>2, OverlapStays DEF Together, FoundInv, FailedInv
<1>4. QED
  BY <1>3 DEF Together, KeptBy

\* Who adds an account meets accounts that were added in the meantime.
LEMMA AddedMeets ==
  ASSUME OnceInv, NEW r \in Requests, Step(r), AddedBy(r, r), NEW b \in AccountRows \ {r},
         KeptBy(r, b), Neighbours(r, b)'
  PROVE  /\ account[b].holder = holder[r] /\ Live(b) /\ account'[b].login = account[b].login
         /\ account'[r].user = account'[b].user => Together(r, b)' /\ Together(b, r)'
<1> USE DEF OnceInv, FoundInv, FailedInv, RequestsInv
<1>1. StepOf(r)
  BY StepIsOneRequests
<1>2. /\ op[r].do = "addAccount" /\ pc[r] = "account"
      /\ account'[r].holder = holder[r] /\ account'[r].user = owner[r] /\ Inserted(r)'
  BY DEF AddedBy, Inserted, NoAccount
<1>3. /\ account[b].holder = holder[r] /\ Live(b)
      /\ account'[b].login = account[b].login /\ account'[b].user = account[b].user
  BY <1>2 DEF Neighbours, KeptBy
<1>4. ASSUME account'[r].user = account'[b].user
      PROVE  Together(r, b)' /\ Together(b, r)'
  <2>1. Inserted(b) /\ Overlap(b, r)
    BY <1>2, <1>3, <1>4 DEF OneAccountEach
  <2>2. b \in Requests /\ pc[b] = "done"
    BY <2>1 DEF Inserted, AccountTypes
  <2>3. Overlap(b, r)'
    BY <1>1, <1>2, <2>1, <2>2, OverlapStays
  <2>4. Inserted(b)'
    BY <2>1 DEF KeptBy
  <2>5. QED
    BY <1>2, <2>3, <2>4 DEF Together, Overlap
<1>5. QED
  BY <1>3, <1>4

LEMMA UsersOnceNext ==
  ASSUME OnceInv, NEW r \in Requests, Step(r)
  PROVE  UsersOnce'
<1> USE DEF OnceInv
<1> SUFFICES ASSUME NEW a \in AccountRows, NEW b \in AccountRows, Neighbours(a, b)',
                    account'[a].user = account'[b].user
             PROVE  Together(a, b)'
  BY DEF UsersOnce
<1>1. a # b /\ Neighbours(b, a)'
  BY DEF Neighbours
<1>2. CASE AddedBy(r, a) /\ KeptBy(r, b)
  <2>1. a = r
    BY <1>2 DEF AddedBy
  <2>2. QED
    BY <1>1, <1>2, <2>1, AddedMeets
<1>3. CASE KeptBy(r, a) /\ AddedBy(r, b)
  <2>1. b = r
    BY <1>3 DEF AddedBy
  <2>2. QED
    BY <1>1, <1>3, <2>1, AddedMeets
<1>4. CASE KeptBy(r, a) /\ KeptBy(r, b)
  <2>1. Neighbours(a, b) /\ account[a].user = account[b].user
    BY <1>1, <1>4 DEF Neighbours, KeptBy
  <2>2. Together(a, b)
    BY <2>1 DEF UsersOnce
  <2>3. QED
    BY <1>4, <2>2, TogetherStays
<1>5. QED
  BY <1>1, <1>2, <1>3, <1>4, AccountWritten DEF AddedBy

\* A witness of LoginsOnce remains one while the logins of the two accounts remain.
LEMMA LoginGivenStays ==
  ASSUME FoundInv, NEW r \in Requests, Step(r), NEW a \in AccountRows, NEW b \in AccountRows,
         KeptBy(r, a), KeptBy(r, b), account'[a].login = account[a].login,
         NEW q \in Requests, LoginGiven(q, a, b)
  PROVE  LoginGiven(q, a, b)'
<1> USE DEF FoundInv, FailedInv, RequestsInv
<1>1. StepOf(r)
  BY StepIsOneRequests
<1>2. ASSUME NEW p \in Requests, LoginUpdated(p)
      PROVE  LoginUpdated(p)' /\ pc[p] # "idle" /\ holder'[p] = holder[p] /\ owner'[p] = owner[p] /\ op' = op
  BY <1>1, <1>2 DEF LoginUpdated, StepOf
<1>3. /\ LoginUpdated(q)' /\ op'[q].login = account'[a].login
      /\ holder'[q] = account'[a].holder /\ owner'[q] \in {account'[a].user, account'[b].user}
  BY <1>2 DEF LoginGiven, KeptBy
<1>4. CASE op[q].kind = "machine"
  BY <1>1, <1>3, <1>4 DEF LoginGiven, StepOf
<1>5. ASSUME NEW c \in {a, b}, Inserted(c), Overlap(q, c)
      PROVE  Inserted(c)' /\ Overlap(q, c)'
  <2>1. c \in Requests /\ pc[c] = "done"
    BY <1>5 DEF Inserted, AccountTypes
  <2>2. Overlap(q, c)'
    BY <1>1, <1>2, <1>5, <2>1, OverlapStays DEF LoginGiven
  <2>3. QED
    BY <1>5, <2>2 DEF KeptBy
<1>6. ASSUME NEW p \in Requests \ {q}, LoginUpdated(p), op[p].login = op[q].login, Overlap(p, q)
      PROVE  LoginUpdated(p)' /\ op'[p].login = op'[q].login /\ Overlap(p, q)'
  BY <1>1, <1>2, <1>6, OverlapStays DEF LoginGiven
<1>7. QED
  BY <1>3, <1>4, <1>5, <1>6 DEF LoginGiven

\* An update that was carried out, and what it went by, stay.
LEMMA UpdatedStays ==
  ASSUME FoundInv, NEW r \in Requests, StepOf(r), NEW p \in Requests, LoginUpdated(p),
         NEW q \in Requests, pc[q] # "idle"
  PROVE  /\ LoginUpdated(p)' /\ p # r /\ holder'[p] = holder[p] /\ owner'[p] = owner[p]
         /\ Overlap(p, q) => Overlap(p, q)' /\ Overlap(q, p)'
<1>1. pc[p] = "done" /\ p # r
  BY DEF LoginUpdated, StepOf
<1>2. Overlap(p, q) => Overlap(p, q)'
  BY <1>1, OverlapStays DEF FoundInv, FailedInv
<1>3. QED
  BY <1>1, <1>2 DEF LoginUpdated, StepOf, Overlap

\* Who adds an account whose login another has.
LEMMA AddedSharesLogin ==
  ASSUME OnceInv, NEW r \in Requests, Step(r), AddedBy(r, r), NEW b \in AccountRows \ {r},
         KeptBy(r, b), Neighbours(r, b)', account'[r].login = account'[b].login
  PROVE  \/ Together(r, b)' /\ Together(b, r)'
         \/ \E p \in Requests : LoginGiven(p, r, b)' /\ LoginGiven(p, b, r)'
<1> USE DEF OnceInv, FoundInv, FailedInv, RequestsInv
<1>1. StepOf(r) /\ op' = op
  BY StepIsOneRequests DEF StepOf
<1>2. /\ op[r].do = "addAccount" /\ pc[r] = "account"
      /\ account'[r].holder = holder[r] /\ account'[r].login = op[r].login /\ Inserted(r)'
  BY DEF AddedBy, Inserted, NoAccount
<1>3. /\ account[b].holder = holder[r] /\ Live(b) /\ account[b].login = op[r].login
      /\ account'[b].user = account[b].user /\ account'[b].holder = holder[r]
  BY <1>2, AddedMeets DEF KeptBy
<1>4. \/ Inserted(b) /\ Overlap(b, r)
      \/ \E p \in Requests \ {r} :
           /\ LoginUpdated(p) /\ op[p].login = op[r].login /\ Overlap(p, r)
           /\ holder[p] = holder[r] /\ owner[p] = account[b].user
  BY <1>2, <1>3 DEF LoginsLookedUp
<1>5. CASE Inserted(b) /\ Overlap(b, r)
  <2>1. b \in Requests /\ pc[b] = "done" /\ Inserted(b)'
    BY <1>5 DEF Inserted, AccountTypes, KeptBy
  <2>2. Overlap(b, r)'
    BY <1>1, <1>2, <1>5, <2>1, OverlapStays
  <2>3. QED
    BY <1>2, <2>1, <2>2 DEF Together, Overlap
<1>6. ASSUME NEW p \in Requests \ {r}, LoginUpdated(p), op[p].login = op[r].login, Overlap(p, r),
             holder[p] = holder[r], owner[p] = account[b].user
      PROVE  LoginGiven(p, r, b)' /\ LoginGiven(p, b, r)'
  <2>1. /\ LoginUpdated(p)' /\ Overlap(p, r)'
        /\ holder'[p] = holder[p] /\ owner'[p] = owner[p]
    BY <1>1, <1>2, <1>6, UpdatedStays
  <2>2. /\ op'[p].login = account'[r].login /\ op'[p].login = account'[b].login
        /\ holder'[p] = account'[r].holder /\ holder'[p] = account'[b].holder
        /\ owner'[p] = account'[b].user
    BY <1>1, <1>2, <1>3, <1>6, <2>1
  <2>3. QED
    BY <1>2, <2>1, <2>2 DEF LoginGiven
<1>7. QED
  BY <1>4, <1>5, <1>6

\* Who updates an account to a login that another has.
LEMMA UpdateSharesLogin ==
  ASSUME OnceInv, NEW r \in Requests, Step(r), NEW a \in AccountRows, NEW b \in AccountRows,
         KeptBy(r, a), KeptBy(r, b), Neighbours(a, b)', account'[a].login = account'[b].login,
         account'[a].login # account[a].login, account'[b].login = account[b].login
  PROVE  LoginGiven(r, a, b)' /\ LoginGiven(r, b, a)'
<1> USE DEF OnceInv, FoundInv, FailedInv, RequestsInv
<1>1. StepOf(r) /\ op' = op
  BY StepIsOneRequests DEF StepOf
<1>2. /\ op[r].do = "updateAccount" /\ pc[r] = "account" /\ pc'[r] = "done"
      /\ account[a].holder = holder[r] /\ account[a].user = owner[r]
      /\ account'[a].login = op[r].login
      /\ account'[a].holder = holder[r] /\ account'[a].user = owner[r]
  BY DEF KeptBy, AccountsOf
<1>3. LoginUpdated(r)' /\ holder'[r] = holder[r] /\ owner'[r] = owner[r]
  BY <1>1, <1>2 DEF LoginUpdated, StepOf
<1>4. /\ Live(b) /\ account[b].holder = holder[r] /\ account[b].login = op[r].login
      /\ account'[b].holder = holder[r] /\ account'[b].login = op[r].login
  BY <1>2 DEF Neighbours, KeptBy
<1>5. \/ op'[r].kind = "machine"
      \/ Inserted(b)' /\ Overlap(r, b)'
      \/ \E p \in Requests \ {r} :
           LoginUpdated(p)' /\ op'[p].login = op'[r].login /\ Overlap(p, r)'
  <2>1. op[r].kind \in {"machine", "authsystem"}
    BY <1>2 DEF FoundOnes, Found, Holders
  <2>2. CASE op[r].kind = "machine"
    BY <1>1, <2>2
  <2>3. CASE op[r].kind = "authsystem"
    <3>1. \/ Inserted(b) /\ Overlap(b, r)
          \/ \E p \in Requests \ {r} :
               LoginUpdated(p) /\ op[p].login = op[r].login /\ Overlap(p, r)
      BY <1>2, <1>4, <2>3 DEF LoginsLookedUp
    <3>2. CASE Inserted(b) /\ Overlap(b, r)
      <4>1. b \in Requests /\ pc[b] = "done" /\ Inserted(b)'
        BY <3>2 DEF Inserted, AccountTypes, KeptBy
      <4>2. Overlap(b, r)'
        BY <1>1, <1>2, <3>2, <4>1, OverlapStays
      <4>3. QED
        BY <4>1, <4>2 DEF Overlap
    <3>3. ASSUME NEW p \in Requests \ {r}, LoginUpdated(p), op[p].login = op[r].login, Overlap(p, r)
          PROVE  LoginUpdated(p)' /\ op'[p].login = op'[r].login /\ Overlap(p, r)'
      BY <1>1, <1>2, <3>3, UpdatedStays
    <3>4. QED
      BY <3>1, <3>2, <3>3
  <2>4. QED
    BY <2>1, <2>2, <2>3
<1>6. QED
  BY <1>1, <1>2, <1>3, <1>4, <1>5 DEF LoginGiven

LEMMA LoginsOnceNext ==
  ASSUME OnceInv, NEW r \in Requests, Step(r)
  PROVE  LoginsOnce'
<1> USE DEF OnceInv
<1> SUFFICES ASSUME NEW a \in AccountRows, NEW b \in AccountRows, Neighbours(a, b)',
                    account'[a].login = account'[b].login
             PROVE  Together(a, b)' \/ \E q \in Requests : LoginGiven(q, a, b)'
  BY DEF LoginsOnce
<1>1. a # b /\ Neighbours(b, a)'
  BY DEF Neighbours
<1>2. CASE AddedBy(r, a) /\ KeptBy(r, b)
  <2>1. a = r
    BY <1>2 DEF AddedBy
  <2>2. QED
    BY <1>1, <1>2, <2>1, AddedSharesLogin
<1>3. CASE KeptBy(r, a) /\ AddedBy(r, b)
  <2>1. b = r
    BY <1>3 DEF AddedBy
  <2>2. QED
    BY <1>1, <1>3, <2>1, AddedSharesLogin
<1>4. CASE KeptBy(r, a) /\ KeptBy(r, b)
  <2>1. Neighbours(a, b)
    BY <1>1, <1>4 DEF Neighbours, KeptBy
  <2>2. CASE account'[a].login = account[a].login /\ account'[b].login = account[b].login
    <3>1. Together(a, b) \/ \E q \in Requests : LoginGiven(q, a, b)
      BY <2>1, <2>2 DEF LoginsOnce
    <3>2. QED
      BY <1>4, <2>2, <3>1, TogetherStays, LoginGivenStays
  <2>3. CASE account'[a].login # account[a].login /\ account'[b].login = account[b].login
    BY <1>4, <2>3, UpdateSharesLogin
  <2>4. CASE account'[a].login = account[a].login /\ account'[b].login # account[b].login
    BY <1>1, <1>4, <2>4, UpdateSharesLogin
  <2>5. CASE account'[a].login # account[a].login /\ account'[b].login # account[b].login
    <3>1. account[a].user = account[b].user
      BY <1>4, <2>5 DEF KeptBy, AccountsOf
    <3>2. Together(a, b)
      BY <2>1, <3>1 DEF UsersOnce
    <3>3. QED
      BY <1>4, <3>2, TogetherStays
  <2>6. QED
    BY <2>2, <2>3, <2>4, <2>5
<1>5. QED
  BY <1>1, <1>2, <1>3, <1>4, AccountWritten DEF AddedBy

LEMMA OnceInvNext == OnceInv /\ [Next]_vars => OnceInv'
<1> SUFFICES ASSUME OnceInv, [Next]_vars PROVE OnceInv'
  OBVIOUS
<1>1. CASE Next
  <2>1. PICK r \in Requests : Step(r)
    BY <1>1 DEF Next
  <2>2. QED
    BY <2>1, FoundInvNext, OneAccountEachNext, LoginsLookedUpNext, UsersOnceNext, LoginsOnceNext
       DEF OnceInv
<1>2. CASE UNCHANGED vars
  <2>1. FailedInv'
    BY <1>2, FailedInvNext DEF OnceInv, FoundInv
  <2>2. QED
    BY <1>2, <2>1 DEF vars, idVars, requestVars, rowVars, accVars, OnceInv, FoundInv, AccountTypes,
       FoundOnes, Found, OneAccountEach, LoginsLookedUp, UsersOnce, LoginsOnce, Neighbours, Together,
       LoginGiven, LoginUpdated, Inserted, Live, Overlap, Settled, KindOf
<1>3. QED
  BY <1>1, <1>2

LEMMA OnceInvOnce == OnceInv => AccountsAreOnce
<1> SUFFICES ASSUME OnceInv, NEW a \in AccountRows, NEW b \in AccountRows,
                    a # b, Live(a), Live(b), account[a].holder = account[b].holder
             PROVE  LET together == Inserted(a) /\ Inserted(b) /\ Overlap(a, b)
                    IN /\ account[a].user = account[b].user => together
                       /\ account[a].login = account[b].login =>
                            \/ together
                            \/ \E q \in Requests :
                                 /\ op[q].do = "updateAccount" /\ op[q].login = account[a].login
                                 /\ holder[q] = account[a].holder
                                 /\ owner[q] \in {account[a].user, account[b].user}
                                 /\ \/ op[q].kind = "machine"
                                    \/ \E c \in {a, b} : Inserted(c) /\ Overlap(q, c)
                                    \/ \E p \in Requests \ {q} :
                                         /\ op[p].do = "updateAccount" /\ op[p].login = op[q].login
                                         /\ Overlap(p, q)
  BY DEF AccountsAreOnce
<1>1. Neighbours(a, b)
  BY DEF Neighbours
<1>2. account[a].user = account[b].user => Together(a, b)
  BY <1>1 DEF OnceInv, UsersOnce
<1>3. account[a].login = account[b].login => Together(a, b) \/ \E q \in Requests : LoginGiven(q, a, b)
  BY <1>1 DEF OnceInv, LoginsOnce
<1>4. QED
  BY <1>2, <1>3 DEF Together, LoginGiven, LoginUpdated

\* A user has one account on a machine or authentication system, and a login there
\* is one user's, but for accounts that were added while neither addition had been
\* answered and for logins that an update set: LocalAccountServer::update, which
\* never looks whether the login is used, or one of AuthAccountServer next to another.
THEOREM AccountsExistOnce == Spec => []AccountsAreOnce
<1>1. Init => OnceInv
  BY OnceInvInit
<1>2. OnceInv /\ [Next]_vars => OnceInv'
  BY OnceInvNext
<1>3. OnceInv => AccountsAreOnce
  BY OnceInvOnce
<1>4. QED
  BY <1>1, <1>2, <1>3, PTL DEF Spec

-----------------------------------------------------------------------------
(* Deletions: what the rows of a name go through *)

\* A deletion has found its object, has written the status, has been told "done".
Deleting(p) ==
  op[p].do = "delete" /\ (pc[p] \in {"locked?", "write", "accounts"} \/ result[p] = "ok")
Marked(p) == op[p].do = "delete" /\ (pc[p] = "accounts" \/ result[p] = "ok")
Gone(p) == op[p].do = "delete" /\ result[p] = "ok"

\* What excuses the deletion p: a creation of the name, or an update that does not
\* look at the status.
Excuse(q, p) ==
  /\ pc[q] # "idle" /\ op[q].kind = op[p].kind /\ Overlap(q, p)
  /\ \/ op[q].do = "create" /\ Settled(q) /\ id[q] = op[p].id
     \/ op[q].do = "update" /\ op[q].kind # "user" /\ op[q].id = op[p].id
Excused(p) == \E q \in Requests : Excuse(q, p)

\* q is about an object of this kind and name, which it has found.
About(q, k, i) ==
  \/ /\ op[q].do = "update" /\ pc[q] \in {"locked?", "write"}
     /\ op[q].kind = k /\ op[q].id = i /\ k # "user"
  \/ /\ op[q].do = "addAccount" /\ pc[q] \in {"numbers", "exist", "login", "account"}
     /\ op[q].kind = k /\ op[q].id = i
  \/ /\ op[q].do = "addAccount" /\ pc[q] \in {"exist", "login", "account"}
     /\ op[q].kind = "machine" /\ k = "user" /\ op[q].user = i

\* The name that is deleted is some row's, and nobody who comes later gets it.
NameTaken ==
  \A p \in Requests : Deleting(p) => \E o \in Rows(op[p].kind, op[p].id) : Settled(o)
NamesNotReused ==
  \A p, q \in Requests :
    Gone(p) /\ p \in before[q] /\ Checked(q) /\ op[q].kind = op[p].kind => gen[q] # op[p].id

\* What is deleted stays so: whoever comes later finds no object.
StaysDeleted ==
  \A p \in Requests : Marked(p) =>
    Excused(p) \/ \A o \in Rows(op[p].kind, op[p].id) : status[o] \in {"deleted", "null"}
NobodyLater ==
  \A p, q \in Requests :
    Gone(p) /\ p \in before[q] /\ About(q, op[p].kind, op[p].id) => Excused(p)

\* The rows of one name of a machine or authentication system are marked together.
OneStatus ==
  \A o, p \in Objects :
    /\ KindOf(o) \in Holders /\ KindOf(p) = KindOf(o) /\ p \in Rows(KindOf(o), id[o])
    /\ status[o] = "active"
    => status[p] # "deleted"

NamesInv == FoundInv /\ NameTaken /\ NamesNotReused /\ StaysDeleted /\ NobodyLater /\ OneStatus

LEMMA NamesInvInit == Init => NamesInv
<1> SUFFICES ASSUME Init PROVE NamesInv
  OBVIOUS
<1>1. FoundInv
  BY FoundInvInit
<1>2. \A r \in Requests : pc[r] = "idle" /\ result[r] = "none" /\ key[r] = 0
  BY IdsAssumption DEF Init, IdsInit, Objects
<1>3. \A e \in Existing : status[e] = "active"
  BY DEF Init, IdsInit, Objects
<1>4. NameTaken /\ NamesNotReused /\ StaysDeleted /\ NobodyLater
  BY <1>2 DEF NameTaken, NamesNotReused, StaysDeleted, NobodyLater, Deleting, Marked, Gone
<1>5. OneStatus
  BY <1>2, <1>3 DEF OneStatus, Rows, Objects
<1>6. QED
  BY <1>1, <1>4, <1>5 DEF NamesInv

\* A request under way overlaps with those that were not answered before it.
LEMMA NotBefore ==
  ASSUME RequestsInv, NEW r \in Requests, NEW p \in Requests, pc[r] # "done", p \notin before[r]
  PROVE  Overlap(r, p) /\ Overlap(p, r)
BY DEF RequestsInv, IdsInv, Phases, Overlap

LEMMA ExcuseStays ==
  ASSUME RequestsInv, NEW r \in Requests, StepOf(r), NEW p \in Requests, pc[p] # "idle", Excused(p)
  PROVE  Excused(p)'
<1>1. PICK q \in Requests : Excuse(q, p)
  BY DEF Excused
<1>2. q \in Objects /\ op' = op
  BY DEF Objects, StepOf
<1>3. Settled(q) => Settled(q)' /\ id'[q] = id[q]
  BY <1>2, SettledStays
<1>4. Overlap(q, p)' /\ pc'[q] # "idle"
  BY <1>1, OverlapStays DEF Excuse
<1>5. Excuse(q, p)'
  BY <1>1, <1>2, <1>3, <1>4 DEF Excuse
<1>6. QED
  BY <1>5 DEF Excused

\* Rows get a name when it is inserted or written.
LEMMA RowsGrow ==
  ASSUME FoundInv, NEW r \in Requests, Step(r), NEW k \in Holders \cup {"user"}, NEW i,
         NEW o \in Rows(k, i)', o \notin Rows(k, i)
  PROVE  /\ o = r /\ op[r].kind = k /\ ~Settled(r)
         /\ \/ k = "user" /\ status'[r] = "null"
            \/ k \in Holders /\ ReserveObjectId(r) /\ gen[r] = i /\ status'[r] \in {"locked", "undefined"}
<1> USE DEF FoundInv, FailedInv, RequestsInv
<1>1. StepOf(r)
  BY StepIsOneRequests
<1>2. o \in Objects /\ key'[o] # 0 /\ KindOf(o) = k /\ id'[o] = i /\ i # Null
  BY <1>1 DEF Rows, KindOf, StepOf
<1>3. o = r /\ (GetVishnuCounter(r) \/ ReserveObjectId(r))
  <2>1. key'[o] # key[o] \/ id'[o] # id[o]
    BY <1>2 DEF Rows
  <2>2. o = r
    BY <1>1, <1>2, <2>1 DEF StepOf
  <2>3. QED
    BY <1>2, <2>1, <2>2, RowsLeft DEF CheckObjectId, FillRows, WriteStatus, rowVars
<1>4. op[r].kind = k
  BY <1>2, <1>3, IdsAssumption DEF KindOf
<1>5. CASE GetVishnuCounter(r)
  <2>1. /\ id'[r] = PlaceholderId(k) /\ status'[r] = PlaceholderStatus(k) /\ pc[r] = "idle"
    BY <1>2, <1>3, <1>4, <1>5 DEF GetVishnuCounter, IdsInv, IdsTypes
  <2>2. k = "user"
    BY <1>2, <1>3, <2>1 DEF PlaceholderId, Holders
  <2>3. QED
    BY <1>3, <1>4, <2>1, <2>2 DEF PlaceholderStatus, Settled
<1>6. CASE ReserveObjectId(r)
  <2>1. pc[r] = "reserve" /\ id'[r] = gen[r] /\ status' = status
    BY <1>2, <1>3, <1>6 DEF ReserveObjectId, IdsInv, IdsTypes
  <2>2. status[r] = PlaceholderStatus(k)
    BY <1>4, <2>1 DEF Placeholders, Holders
  <2>3. k = "user" => status[r] = "null"
    BY <2>2 DEF PlaceholderStatus
  <2>4. k \in Holders => status[r] \in {"locked", "undefined"}
    BY <2>2 DEF PlaceholderStatus, Holders
  <2>5. QED
    BY <1>2, <1>3, <1>4, <1>6, <2>1, <2>3, <2>4 DEF Settled
<1>7. QED
  BY <1>3, <1>5, <1>6

\* The status of a row changes when it is filled, updated or deleted.
LEMMA StatusWritten ==
  ASSUME FoundInv, NEW r \in Requests, Step(r), NEW o \in Objects, key[o] # 0,
         KindOf(o) \in Holders \cup {"user"}, status'[o] # status[o]
  PROVE  \/ /\ FillRows(r) /\ status'[o] = "active"
            /\ KindOf(o) = op[r].kind /\ o \in Rows(KindOf(o), gen[r])
         \/ /\ WriteStatus(r) /\ status'[o] = NewStatus(r)
            /\ KindOf(o) = op[r].kind /\ o \in Rows(KindOf(o), op[r].id)
            /\ KindOf(o) = "user" => status[o] \notin {"deleted", "null"}
<1> USE DEF FoundInv, FailedInv, RequestsInv
<1>1. StepOf(r)
  BY StepIsOneRequests
<1>2. FillRows(r) \/ WriteStatus(r) \/ (GetVishnuCounter(r) /\ o = r)
  BY RowsLeft DEF GetVishnuCounter, CheckObjectId, ReserveObjectId, rowVars
<1>3. ~(GetVishnuCounter(r) /\ o = r)
  BY DEF GetVishnuCounter, Procedures
<1>4. CASE FillRows(r)
  <2>1. o \in Rows(op[r].kind, gen[r])
    BY <1>4 DEF FillRows
  <2>2. KindOf(o) = op[r].kind
    BY <2>1 DEF Rows
  <2>3. status'[o] = "active"
    BY <1>4, <2>1, <2>2 DEF FillRows, Holders
  <2>4. QED
    BY <1>4, <2>1, <2>2, <2>3
<1>5. CASE WriteStatus(r)
  <2>1. /\ o \in Rows(op[r].kind, op[r].id) /\ status'[o] = NewStatus(r)
        /\ op[r].kind = "user" => status[o] \notin {"deleted", "null"}
    BY <1>5 DEF WriteStatus, NotDeleted
  <2>2. KindOf(o) = op[r].kind
    BY <2>1 DEF Rows
  <2>3. QED
    BY <1>5, <2>1, <2>2
<1>6. QED
  BY <1>2, <1>3, <1>4, <1>5

\* What a request writes; updates do not delete.
LEMMA StatusNew ==
  ASSUME RequestsInv, NEW r \in Requests, WriteStatus(r)
  PROVE  /\ op[r].kind \in Holders \cup {"user"}
         /\ \/ op[r].do = "delete" /\ NewStatus(r) = "deleted"
            \/ op[r].do = "update" /\ NewStatus(r) \in {"active", "locked"}
<1>1. op[r].do \in {"update", "delete"} /\ op \in Mixes
  BY DEF RequestsInv, IdsInv, IdsTypes, Procedures, WriteStatus
<1>2. QED
  BY <1>1, AccountsAssumption DEF NewStatus

LEMMA NameTakenNext ==
  ASSUME NamesInv, NEW r \in Requests, Step(r)
  PROVE  NameTaken'
<1> USE DEF NamesInv, FoundInv, FailedInv, RequestsInv
<1>1. StepOf(r) /\ op' = op
  BY StepIsOneRequests DEF StepOf
<1> SUFFICES ASSUME NEW p \in Requests, Deleting(p)'
             PROVE  \E o \in Rows(op[p].kind, op[p].id)' : Settled(o)'
  BY <1>1 DEF NameTaken
<1>2. ASSUME NEW o \in Rows(op[p].kind, op[p].id), Settled(o)
      PROVE  o \in Rows(op[p].kind, op[p].id)' /\ Settled(o)'
  <2>1. o \in Objects /\ key[o] # 0 /\ KindOf(o) = op[p].kind /\ id[o] = op[p].id /\ op[p].id # Null
    BY DEF Rows
  <2>2. Settled(o)' /\ id'[o] = id[o] /\ KindOf(o)' = KindOf(o)
    BY <1>1, <1>2, <2>1, SettledStays
  <2>3. QED
    BY <1>1, <2>1, <2>2 DEF Rows, Settled
<1>3. CASE Deleting(p)
  BY <1>2, <1>3 DEF NameTaken
<1>4. CASE ~Deleting(p)
  <2>1. p = r /\ LookUpObject(r) /\ pc'[r] # "done" /\ op[r].do = "delete"
    <3>1. p = r /\ op[r].do = "delete"
      BY <1>1, <1>4 DEF Deleting, StepOf
    <3>2. pc[r] \notin {"locked?", "write", "accounts"} /\ result[r] # "ok"
      BY <1>4, <3>1 DEF Deleting
    <3>3. pc'[r] \in {"locked?", "write", "accounts"} \/ result'[r] = "ok"
      BY <1>1, <3>1 DEF Deleting
    <3>4. ~CreationStep(r)
      BY <3>1 DEF CreationStep, GetVishnuCounter, CheckObjectId, ReserveObjectId, CountRows, FillRows,
         Finish, IdsInv, Phases, Creating
    <3>5. LookUpObject(r)
      BY <3>1, <3>2, <3>3, <3>4 DEF Step, StatementFails, CheckNotLocked, WriteStatus,
         DeleteAccounts, FindHolder, FindNumbers, CheckAccount, CheckLogin, WriteAccount, Procedures,
         AccountOps, Answer, Continue, GoTo, IdsInv, IdsTypes
    <3>6. pc'[r] # "done"
      BY <3>2, <3>3, <3>5 DEF LookUpObject, Answer, Continue, GoTo, IdsInv, IdsTypes
    <3>7. QED
      BY <3>1, <3>5, <3>6
  <2>2. PICK o \in NotDeleted(Rows(op[r].kind, op[r].id)) : TRUE
    BY <2>1 DEF LookUpObject, Answer, GoTo, IdsInv, IdsTypes
  <2>3. o \in Rows(op[r].kind, op[r].id) /\ status[o] # "null"
    BY DEF NotDeleted
  <2>4. op[r].kind \in Holders \cup {"user"}
    BY <2>1, AccountsAssumption DEF IdsInv, IdsTypes
  <2>5. Settled(o)
    BY <2>3, <2>4, NamedIsSettled
  <2>6. QED
    BY <1>2, <2>1, <2>3, <2>5
<1>5. QED
  BY <1>3, <1>4

\* Whoever is told "done" now precedes nobody who has begun.
LEMMA GoneBefore ==
  ASSUME FoundInv, NEW r \in Requests, Step(r), NEW p \in Requests, NEW q \in Requests,
         Gone(p)', p \in before'[q]
  PROVE  Gone(p) /\ pc[p] = "done" /\ (p \in before[q] \/ (q = r /\ pc[r] = "idle"))
<1> USE DEF FoundInv, FailedInv, RequestsInv, IdsInv
<1>1. StepOf(r)
  BY StepIsOneRequests
<1>2. pc[p] = "done"
  BY <1>1 DEF StepOf, Answered, Phases
<1>3. p # r
  BY <1>1, <1>2 DEF StepOf
<1>4. QED
  BY <1>1, <1>2, <1>3 DEF StepOf, Gone

LEMMA NamesNotReusedNext ==
  ASSUME NamesInv, NEW r \in Requests, Step(r)
  PROVE  NamesNotReused'
<1> USE DEF NamesInv, FoundInv, FailedInv, RequestsInv
<1>1. StepOf(r) /\ op' = op
  BY StepIsOneRequests DEF StepOf
<1> SUFFICES ASSUME NEW p \in Requests, NEW q \in Requests, Gone(p)', p \in before'[q],
                    Checked(q)', op[q].kind = op[p].kind
             PROVE  gen'[q] # op[p].id
  BY <1>1 DEF NamesNotReused
<1>2. Gone(p) /\ (p \in before[q] \/ (q = r /\ pc[r] = "idle"))
  BY GoneBefore
<1>3. CASE Checked(q)
  <2>1. q # r \/ pc[r] \notin {"idle", "check"}
    BY <1>1, <1>3 DEF Checked, StepOf, Procedures
  <2>2. p \in before[q] /\ gen'[q] = gen[q]
    BY <1>1, <1>2, <2>1 DEF StepOf
  <2>3. QED
    BY <1>2, <1>3, <2>2 DEF NamesNotReused
<1>4. CASE ~Checked(q)
  <2>1. q = r /\ op[r].do = "create"
    BY <1>1, <1>4 DEF Checked, StepOf
  <2>2. pc[r] \notin {"reserve", "count", "fill", "finish"} /\ result[r] # "ok"
    BY <1>4, <2>1 DEF Checked
  <2>3. pc'[r] \in {"reserve", "count", "fill", "finish"} \/ result'[r] = "ok"
    BY <1>1, <2>1 DEF Checked
  <2>4. CheckObjectId(r)
    BY <2>1, <2>2, <2>3 DEF Step, CreationStep, GetVishnuCounter, ReserveObjectId, CountRows, FillRows,
       Finish, StatementFails, LookUpObject, CheckNotLocked, WriteStatus, DeleteAccounts, FindHolder,
       FindNumbers, CheckAccount, CheckLogin, WriteAccount, Procedures, AccountOps,
       Answer, Continue, GoTo, IdsInv, IdsTypes
  <2>5. Rows(op[r].kind, gen[r]) = {} /\ gen'[r] = gen[r]
    BY <2>2, <2>3, <2>4 DEF CheckObjectId, Continue, GoTo, IdsInv, IdsTypes
  <2>6. Rows(op[p].kind, op[p].id) # {}
    BY <1>2 DEF NameTaken, Deleting, Gone
  <2>7. QED
    BY <2>1, <2>5, <2>6
<1>5. QED
  BY <1>3, <1>4

\* A creation that writes or fills a row of the name is an excuse.
LEMMA CreationExcuses ==
  ASSUME NamesInv, NEW r \in Requests, Step(r), NEW p \in Requests, Marked(p),
         ReserveObjectId(r) \/ FillRows(r), gen[r] = op[p].id, op[r].kind = op[p].kind
  PROVE  Excused(p)'
<1> USE DEF NamesInv, FoundInv, FailedInv, RequestsInv
<1>1. StepOf(r) /\ op' = op
  BY StepIsOneRequests DEF StepOf
<1>2. /\ pc[r] \in {"reserve", "fill"} /\ op[r].do = "create" /\ key[r] # 0 /\ Checked(r)
  BY DEF ReserveObjectId, FillRows, IdsInv, Phases, Creating, RowKnown, Checked
<1>3. pc[p] # "idle" /\ (pc[p] = "done" => Gone(p))
  BY DEF Marked, Gone, Procedures
<1>4. p \notin before[r]
  BY <1>2, <1>3 DEF NamesNotReused, IdsInv, Phases
<1>5. Overlap(r, p)'
  BY <1>1, <1>2, <1>3, <1>4, NotBefore, OverlapStays
<1>6. Settled(r)' /\ id'[r] = gen[r]
  <2>1. r \in Objects
    BY DEF Objects
  <2>2. CASE ReserveObjectId(r)
    BY <1>1, <1>2, <2>1, <2>2 DEF ReserveObjectId, Settled, Answer, Continue, GoTo, IdsInv, IdsTypes
  <2>3. CASE FillRows(r)
    <3>1. Settled(r) /\ id[r] = gen[r]
      BY <2>3, NoPlaceholder DEF FillRows, Settled
    <3>2. QED
      BY <1>1, <2>1, <3>1, SettledStays
  <2>4. QED
    BY <2>2, <2>3
<1>7. Excuse(r, p)'
  BY <1>1, <1>2, <1>5, <1>6 DEF Excuse, StepOf
<1>8. QED
  BY <1>7 DEF Excused

\* So is an update that writes the status.
LEMMA UpdateExcuses ==
  ASSUME NamesInv, NEW r \in Requests, Step(r), NEW p \in Requests, Marked(p),
         WriteStatus(r), op[r].do = "update", op[r].kind = op[p].kind, op[r].kind # "user",
         op[r].id = op[p].id
  PROVE  Excused(p)'
<1> USE DEF NamesInv, FoundInv, FailedInv, RequestsInv
<1>1. StepOf(r) /\ op' = op
  BY StepIsOneRequests DEF StepOf
<1>2. pc[r] = "write"
  BY DEF WriteStatus
<1>3. pc[p] # "idle" /\ (pc[p] = "done" => Gone(p))
  BY DEF Marked, Gone, Procedures
<1>4. CASE p \in before[r]
  <2>1. Gone(p)
    BY <1>3, <1>4 DEF IdsInv, Phases
  <2>2. Excused(p)
    BY <1>2, <1>4, <2>1 DEF NobodyLater, About
  <2>3. QED
    BY <1>1, <1>3, <2>2, ExcuseStays
<1>5. CASE p \notin before[r]
  <2>1. Overlap(r, p)'
    BY <1>1, <1>2, <1>3, <1>5, NotBefore, OverlapStays
  <2>2. Excuse(r, p)'
    BY <1>1, <2>1 DEF Excuse, StepOf
  <2>3. QED
    BY <2>2 DEF Excused
<1>6. QED
  BY <1>4, <1>5

LEMMA StaysDeletedNext ==
  ASSUME NamesInv, NEW r \in Requests, Step(r)
  PROVE  StaysDeleted'
<1> USE DEF NamesInv, FoundInv, FailedInv, RequestsInv
<1>1. StepOf(r) /\ op' = op
  BY StepIsOneRequests DEF StepOf
<1> SUFFICES ASSUME NEW p \in Requests, Marked(p)', ~Excused(p)', NEW o \in Rows(op[p].kind, op[p].id)'
             PROVE  status'[o] \in {"deleted", "null"}
  BY <1>1 DEF StaysDeleted
<1>2. op[p].kind \in Holders \cup {"user"}
  BY <1>1, AccountsAssumption DEF Marked, IdsInv, IdsTypes
<1>3. CASE Marked(p)
  <2>1. ~Excused(p)
    BY <1>1, <1>3, ExcuseStays DEF Marked, Procedures
  <2>2. CASE o \notin Rows(op[p].kind, op[p].id)
    <3>1. ~(ReserveObjectId(r) /\ gen[r] = op[p].id /\ op[r].kind = op[p].kind)
      BY <1>3, CreationExcuses
    <3>2. PICK k \in Holders \cup {"user"}, i \in {op[p].id} : k = op[p].kind
      BY <1>2
    <3>3. o \in Rows(k, i)' /\ o \notin Rows(k, i)
      BY <1>1, <2>2, <3>2 DEF Rows, KindOf
    <3>4. k = "user" /\ status'[o] = "null"
      BY <3>1, <3>2, <3>3, RowsGrow
    <3>5. QED
      BY <3>4
  <2>3. CASE o \in Rows(op[p].kind, op[p].id)
    <3>1. status[o] \in {"deleted", "null"}
      BY <1>3, <2>1, <2>3 DEF StaysDeleted
    <3>2. o \in Objects /\ key[o] # 0 /\ KindOf(o) = op[p].kind /\ id[o] = op[p].id
      BY <2>3 DEF Rows
    <3>3. CASE status'[o] = status[o]
      BY <3>1, <3>3
    <3>4. CASE FillRows(r) /\ KindOf(o) = op[r].kind /\ o \in Rows(KindOf(o), gen[r])
      BY <1>3, <3>2, <3>4, CreationExcuses DEF Rows
    <3>5. CASE /\ WriteStatus(r) /\ status'[o] = NewStatus(r)
               /\ KindOf(o) = op[r].kind /\ o \in Rows(KindOf(o), op[r].id)
               /\ KindOf(o) # "user"
      <4>1. op[r].id = op[p].id /\ op[r].kind = op[p].kind
        BY <3>2, <3>5 DEF Rows
      <4>2. op[r].do # "update"
        BY <1>3, <3>2, <3>5, <4>1, UpdateExcuses
      <4>3. QED
        BY <3>5, <4>2, StatusNew
    <3>6. QED
      BY <1>2, <3>1, <3>2, <3>3, <3>4, <3>5, StatusWritten
  <2>4. QED
    BY <2>2, <2>3
<1>4. CASE ~Marked(p)
  <2>1. p = r /\ WriteStatus(r) /\ op[r].do = "delete"
    <3>1. p = r /\ op[r].do = "delete"
      BY <1>1, <1>4 DEF Marked, StepOf
    <3>2. pc[r] # "accounts" /\ result[r] # "ok"
      BY <1>4, <3>1 DEF Marked
    <3>3. pc'[r] = "accounts" \/ result'[r] = "ok"
      BY <1>1, <3>1 DEF Marked
    <3>4. ~CreationStep(r)
      BY <3>1 DEF CreationStep, GetVishnuCounter, CheckObjectId, ReserveObjectId, CountRows, FillRows,
         Finish, IdsInv, Phases, Creating
    <3>5. WriteStatus(r)
      BY <3>1, <3>2, <3>3, <3>4 DEF Step, StatementFails, LookUpObject, CheckNotLocked,
         DeleteAccounts, FindHolder, FindNumbers, CheckAccount, CheckLogin, WriteAccount, Procedures,
         AccountOps, Answer, Continue, GoTo, IdsInv, IdsTypes
    <3>6. QED
      BY <3>1, <3>5
  <2>2. o \in Rows(op[r].kind, op[r].id) /\ o \in Objects
    BY <2>1 DEF WriteStatus, Rows, KindOf
  <2>3. NewStatus(r) = "deleted"
    BY <2>1 DEF NewStatus
  <2>4. QED
    BY <2>1, <2>2, <2>3 DEF WriteStatus, NotDeleted
<1>5. QED
  BY <1>3, <1>4

LEMMA NobodyLaterNext ==
  ASSUME NamesInv, NEW r \in Requests, Step(r)
  PROVE  NobodyLater'
<1> USE DEF NamesInv, FoundInv, FailedInv, RequestsInv
<1>1. StepOf(r) /\ op' = op
  BY StepIsOneRequests DEF StepOf
<1> SUFFICES ASSUME NEW p \in Requests, NEW q \in Requests, Gone(p)', p \in before'[q],
                    NEW k, NEW i, k = op[p].kind, i = op[p].id, About(q, k, i)'
             PROVE  Excused(p)'
  BY <1>1 DEF NobodyLater, About
<1>2. Gone(p) /\ pc[p] = "done" /\ (p \in before[q] \/ (q = r /\ pc[r] = "idle"))
  BY GoneBefore
<1>3. Excused(p) \/ \A o \in Rows(k, i) : status[o] \in {"deleted", "null"}
  BY <1>2 DEF StaysDeleted, Marked, Gone
<1>4. SUFFICES Excused(p)
  BY <1>1, <1>2, ExcuseStays
<1>5. CASE About(q, k, i)
  <2>1. pc[q] # "idle"
    BY <1>5 DEF About
  <2>2. p \in before[q]
    BY <1>2, <2>1
  <2>3. QED
    BY <1>2, <1>5, <2>2 DEF NobodyLater
<1>6. CASE ~About(q, k, i)
  <2>1. q = r
    BY <1>1, <1>6 DEF About, StepOf
  <2>2. op[r].do \in {"update", "addAccount"} /\ pc'[r] # pc[r]
    BY <1>1, <1>6, <2>1 DEF About
  <2>3. ~CreationStep(r)
    BY <2>2 DEF CreationStep, GetVishnuCounter, CheckObjectId, ReserveObjectId, CountRows, FillRows,
       Finish, IdsInv, Phases, Creating
  <2>4. \/ LookUpObject(r) /\ NotDeleted(Rows(op[r].kind, op[r].id)) # {}
           /\ op[r].kind = k /\ op[r].id = i
        \/ FindHolder(r) /\ (\E o \in Rows(op[r].kind, op[r].id) : status[o] = "active")
           /\ op[r].kind = k /\ op[r].id = i
        \/ FindNumbers(r) /\ NotDeleted(Rows("user", op[r].user)) # {}
           /\ k = "user" /\ op[r].user = i
    <3>1. CASE op[r].do = "update"
      <4>1. pc'[r] \in {"locked?", "write"} /\ op[r].kind = k /\ op[r].id = i /\ k # "user"
        BY <1>1, <2>1, <3>1 DEF About
      <4>2. pc[r] \notin {"locked?", "write"}
        BY <1>6, <2>1, <3>1, <4>1 DEF About
      <4>3. LookUpObject(r)
        BY <2>3, <3>1, <4>1, <4>2 DEF Step, StatementFails, CheckNotLocked, WriteStatus, DeleteAccounts,
           FindHolder, FindNumbers, CheckAccount, CheckLogin, WriteAccount, Answer, Continue, GoTo,
           IdsInv, IdsTypes
      <4>4. QED
        BY <4>1, <4>3 DEF LookUpObject, Answer, GoTo, IdsInv, IdsTypes
    <3>2. CASE op[r].do = "addAccount"
      <4>1. \/ /\ pc'[r] \in {"numbers", "exist", "login", "account"}
               /\ pc[r] \notin {"numbers", "exist", "login", "account"}
               /\ op[r].kind = k /\ op[r].id = i
            \/ /\ pc'[r] \in {"exist", "login", "account"}
               /\ pc[r] \notin {"exist", "login", "account"}
               /\ op[r].kind = "machine" /\ k = "user" /\ op[r].user = i
        BY <1>1, <1>6, <2>1, <3>2 DEF About
      <4>2. CASE /\ pc'[r] \in {"numbers", "exist", "login", "account"}
                 /\ pc[r] \notin {"numbers", "exist", "login", "account"}
                 /\ op[r].kind = k /\ op[r].id = i
        <5>1. FindHolder(r)
          BY <2>3, <3>2, <4>2 DEF Step, StatementFails, LookUpObject, CheckNotLocked, WriteStatus,
             DeleteAccounts, FindNumbers, CheckAccount, CheckLogin, WriteAccount, Answer, Continue,
             GoTo, IdsInv, IdsTypes
        <5>2. QED
          BY <4>2, <5>1 DEF FindHolder, Answer, GoTo, IdsInv, IdsTypes
      <4>3. CASE /\ pc'[r] \in {"exist", "login", "account"}
                 /\ pc[r] \notin {"exist", "login", "account"}
                 /\ op[r].kind = "machine" /\ k = "user" /\ op[r].user = i
        <5>1. FindNumbers(r)
          BY <2>3, <3>2, <4>3 DEF Step, StatementFails, LookUpObject, CheckNotLocked, WriteStatus,
             DeleteAccounts, FindHolder, CheckAccount, CheckLogin, WriteAccount, Answer, Continue,
             GoTo, IdsInv, IdsTypes
        <5>2. QED
          BY <3>2, <4>3, <5>1 DEF FindNumbers, Answer, GoTo, IdsInv, IdsTypes
      <4>4. QED
        BY <4>1, <4>2, <4>3
    <3>3. QED
      BY <2>2, <3>1, <3>2
  <2>5. ~\A o \in Rows(k, i) : status[o] \in {"deleted", "null"}
    BY <2>4 DEF NotDeleted
  <2>6. QED
    BY <1>3, <2>5
<1>7. QED
  BY <1>5, <1>6

\* A row is deleted by a deletion of its name.
LEMMA DeletedNow ==
  ASSUME FoundInv, NEW r \in Requests, Step(r), NEW o \in Objects,
         KindOf(o) \in Holders \cup {"user"}, status'[o] = "deleted", status[o] # "deleted"
  PROVE  /\ WriteStatus(r) /\ op[r].do = "delete"
         /\ op[r].kind = KindOf(o) /\ op[r].id = id[o]
         /\ pc'[r] = "accounts"
<1> USE DEF FoundInv, FailedInv, RequestsInv
<1>1. CASE key[o] # 0
  <2>1. WriteStatus(r) /\ NewStatus(r) = "deleted" /\ op[r].kind = KindOf(o) /\ op[r].id = id[o]
    BY <1>1, StatusWritten DEF Rows
  <2>2. op[r].do = "delete"
    BY <2>1, StatusNew
  <2>3. QED
    BY <2>1, <2>2 DEF WriteStatus, Continue, GoTo, IdsInv, IdsTypes
<1>2. CASE key[o] = 0
  <2>1. o \in Requests /\ op[o].kind = KindOf(o)
    BY <1>2, IdsAssumption DEF IdsInv, IdsTypes, Objects, KindOf
  <2>2. GetVishnuCounter(r) /\ o = r
    BY <1>2, RowsLeft DEF GetVishnuCounter, CheckObjectId, ReserveObjectId, FillRows, WriteStatus,
       NotDeleted, Rows, rowVars
  <2>3. status'[r] = PlaceholderStatus(op[r].kind)
    BY <2>2 DEF GetVishnuCounter
  <2>4. status'[r] # "deleted"
    BY <2>1, <2>2, <2>3 DEF PlaceholderStatus, Holders
  <2>5. QED
    BY <2>2, <2>4
<1>3. QED
  BY <1>1, <1>2

LEMMA OneStatusNext ==
  ASSUME NamesInv, NEW r \in Requests, Step(r)
  PROVE  OneStatus'
<1> USE DEF NamesInv, FoundInv, FailedInv, RequestsInv
<1>1. StepOf(r) /\ op' = op
  BY StepIsOneRequests DEF StepOf
<1> SUFFICES ASSUME NEW o \in Objects, NEW p \in Objects, NEW k \in Holders, NEW i,
                    KindOf(o) = k, KindOf(p) = k, id'[o] = i, p \in Rows(k, i)',
                    status'[o] = "active", status'[p] = "deleted"
             PROVE  FALSE
  BY <1>1 DEF OneStatus, Rows, KindOf
<1>2. key'[o] # 0
  <2>1. Placeholders'
    BY PlaceholdersNext
  <2>2. o \in Existing \/ o \in Requests
    BY DEF Objects
  <2>3. o \in Existing => key'[o] # 0
    BY RequestsInvNext DEF IdsInv, IdsTypes
  <2>4. QED
    BY <2>1, <2>2, <2>3 DEF Placeholders
<1>3. i # Null /\ key'[p] # 0 /\ id'[p] = i
  BY DEF Rows
<1>4. o \in Rows(k, i)'
  BY <1>1, <1>2, <1>3 DEF Rows, KindOf
<1>5. o \in Rows(k, i) /\ p \in Rows(k, i)
  <2>1. k # "user"
    BY DEF Holders
  <2>2. QED
    BY <1>4, <2>1, RowsGrow
<1>6. key[o] # 0 /\ key[p] # 0 /\ id[o] = i /\ id[p] = i
  BY <1>5 DEF Rows
<1>7. ~(status[o] = "active" /\ status[p] = "deleted")
  BY <1>5, <1>6 DEF OneStatus
<1>8. CASE status[p] # "deleted"
  <2>1. WriteStatus(r) /\ op[r].do = "delete" /\ op[r].kind = k /\ op[r].id = i
    BY <1>6, <1>8, DeletedNow
  <2>2. status'[o] = "deleted"
    BY <1>5, <2>1 DEF WriteStatus, NewStatus, Holders
  <2>3. QED
    BY <2>2
<1>9. CASE status[o] # "active" /\ status[p] = "deleted"
  <2>1. CASE FillRows(r) /\ op[r].kind = k /\ o \in Rows(k, gen[r])
    <3>1. gen[r] = i
      BY <1>6, <2>1 DEF Rows
    <3>2. status'[p] = "active"
      BY <1>5, <2>1, <3>1 DEF FillRows, Holders
    <3>3. QED
      BY <3>2
  <2>2. CASE WriteStatus(r) /\ status'[o] = NewStatus(r) /\ op[r].kind = k /\ o \in Rows(k, op[r].id)
    <3>1. op[r].id = i
      BY <1>6, <2>2 DEF Rows
    <3>2. status'[p] = "active"
      BY <1>5, <2>2, <3>1 DEF WriteStatus, Holders
    <3>3. QED
      BY <3>2
  <2>3. QED
    BY <1>6, <1>9, <2>1, <2>2, StatusWritten
<1>10. QED
  BY <1>7, <1>8, <1>9

LEMMA NamesInvNext ==
  ASSUME NamesInv, NEW r \in Requests, Step(r)
  PROVE  NamesInv'
BY FoundInvNext, NameTakenNext, NamesNotReusedNext, StaysDeletedNext, NobodyLaterNext, OneStatusNext
   DEF NamesInv

-----------------------------------------------------------------------------
(* Deletions: what becomes of the accounts *)

\* A deletion of this name has begun that overlaps with the request a.
DeletedBy(k, i, a) ==
  \E q \in Requests :
    /\ op[q].do = "delete" /\ op[q].kind = k /\ op[q].id = i
    /\ pc[q] # "idle" /\ Overlap(a, q)

\* A machine, an authentication system or a user that is deleted although
\* somebody has found it to add an account.
DeletedMeanwhile ==
  \A a \in Requests, o \in Objects : op[a].do = "addAccount" /\ status[o] = "deleted" =>
    /\ \/ pc[a] = "numbers" /\ o \in Rows(op[a].kind, op[a].id)
       \/ pc[a] \in {"exist", "login", "account"} /\ o = holder[a]
       => DeletedBy(op[a].kind, op[a].id, a)
    /\ pc[a] \in {"exist", "login", "account"} /\ op[a].kind = "machine" /\ o = owner[a]
       => DeletedBy("user", op[a].user, a)

\* The accounts of what was deleted are deleted, but those added meanwhile.
AccountsGone ==
  \A p \in Requests : Gone(p) =>
    \/ Excused(p)
    \/ \A o \in Rows(op[p].kind, op[p].id), a \in AccountRows :
         Live(a) /\ AccountOf(a, o) => Inserted(a) /\ Overlap(a, p)

\* Why the account a is there after the deletion q of o.
Spares(q, o, a) ==
  /\ op[q].do = "delete" /\ op[q].kind = KindOf(o) /\ op[q].id = id[o]
  /\ \/ pc[q] = "accounts" \/ result[q] = "error"
     \/ Inserted(a) /\ Overlap(a, q) /\ pc[q] # "idle"

Outlived ==
  \A o \in Objects, a \in AccountRows :
    status[o] = "deleted" /\ Live(a) /\ AccountOf(a, o) => \E q \in Requests : Spares(q, o, a)

DeletionInv == NamesInv /\ DeletedMeanwhile /\ AccountsGone /\ Outlived

LEMMA DeletionInvInit == Init => DeletionInv
<1> SUFFICES ASSUME Init PROVE DeletionInv
  OBVIOUS
<1>1. NamesInv
  BY NamesInvInit
<1>2. \A r \in Requests : pc[r] = "idle" /\ result[r] = "none"
  BY DEF Init, IdsInit
<1>3. \A o \in Objects : status[o] # "deleted"
  BY DEF Init, IdsInit
<1>4. DeletedMeanwhile /\ AccountsGone /\ Outlived
  BY <1>2, <1>3 DEF DeletedMeanwhile, AccountsGone, Outlived, Gone
<1>5. QED
  BY <1>1, <1>4 DEF DeletionInv

\* An account in use is of objects that have their names, the ones that were found.
LEMMA AccountsOfNamed ==
  ASSUME FoundInv, NEW a \in AccountRows, NEW o \in Objects, Live(a), AccountOf(a, o)
  PROVE  /\ Settled(o) /\ KindOf(o) \in Holders \cup {"user"}
         /\ Inserted(a) => a \in Requests /\ pc[a] = "done"
<1> USE DEF FoundInv, FailedInv, RequestsInv, IdsInv, IdsTypes
<1>1. account[a] # NoAccount
  BY NobodysAccount
<1>2. \A e \in Existing : Settled(e)
  BY IdsAssumption DEF Settled, Objects
<1>3. CASE a \in OldAccounts
  <2>1. a \notin Requests
    BY <1>3, AccountsAssumption
  <2>2. QED
    BY <1>2, <1>3, <2>1 DEF AccountTypes, AccountOf, Inserted
<1>4. CASE a \in Requests
  <2>1. /\ Found(a) /\ op[a].do = "addAccount" /\ pc[a] = "done"
        /\ account[a].holder = holder[a] /\ account[a].user = owner[a]
    BY <1>1, <1>4 DEF AccountTypes, Found
  <2>2. QED
    BY <1>4, <2>1 DEF FoundOnes, AccountOf
<1>5. QED
  BY <1>3, <1>4 DEF AccountRows

LEMMA AccountOfKept ==
  ASSUME FoundInv, NEW r \in Requests, Step(r), NEW a \in AccountRows, NEW o \in Objects,
         KeptBy(r, a), Live(a)', AccountOf(a, o)'
  PROVE  Live(a) /\ AccountOf(a, o)
<1>1. op' = op
  BY StepIsOneRequests DEF FoundInv, FailedInv, StepOf
<1>2. account'[a].holder = account[a].holder /\ account'[a].user = account[a].user /\ Live(a)
  BY DEF KeptBy
<1>3. PICK h : h = account[a].holder
  OBVIOUS
<1>4. account'[a].holder = o \/ (account'[a].user = o /\ KindOf(h) = "machine")
  BY <1>1, <1>2, <1>3 DEF AccountOf, KindOf
<1>5. QED
  BY <1>2, <1>3, <1>4 DEF AccountOf

\* What an account that is inserted belongs to.
LEMMA AccountOfAdded ==
  ASSUME FoundInv, NEW r \in Requests, Step(r), NEW o \in Objects,
         AddedBy(r, r), AccountOf(r, o)'
  PROVE  /\ Settled(o) /\ Inserted(r)'
         /\ \/ o = holder[r] /\ op[r].kind \in Holders /\ KindOf(o) = op[r].kind /\ id[o] = op[r].id
            \/ /\ o = owner[r] /\ op[r].kind = "machine"
               /\ KindOf(o) = "user" /\ id[o] = op[r].user
<1>1. op' = op
  BY StepIsOneRequests DEF FoundInv, FailedInv, StepOf
<1>2. account'[r].holder = holder[r] /\ account'[r].user = owner[r] /\ account'[r].status = "active"
  BY DEF AddedBy
<1>3. Inserted(r)'
  BY <1>2 DEF Inserted, NoAccount
<1>4. op[r].do = "addAccount" /\ Found(r)
  BY DEF AddedBy, Found
<1>5. PICK h : h = holder[r]
  OBVIOUS
<1>6. KindOf(h) = op[r].kind /\ op[r].kind \in Holders /\ id[h] = op[r].id /\ Settled(h)
  BY <1>4, <1>5 DEF FoundInv, FoundOnes
<1>7. h = o \/ (owner[r] = o /\ KindOf(h) = "machine")
  BY <1>1, <1>2, <1>5 DEF AccountOf, KindOf
<1>8. QED
  BY <1>3, <1>4, <1>5, <1>6, <1>7 DEF FoundInv, FoundOnes

LEMMA DeletedByStays ==
  ASSUME RequestsInv, NEW r \in Requests, StepOf(r), NEW a \in Requests, pc[a] # "idle",
         NEW k, NEW i, DeletedBy(k, i, a)
  PROVE  DeletedBy(k, i, a)'
<1>1. PICK q \in Requests : /\ op[q].do = "delete" /\ op[q].kind = k /\ op[q].id = i
                            /\ pc[q] # "idle" /\ Overlap(a, q)
  BY DEF DeletedBy
<1>2. Overlap(a, q)' /\ pc'[q] # "idle"
  BY <1>1, OverlapStays
<1>3. op' = op
  BY DEF StepOf
<1>4. QED
  BY <1>1, <1>2, <1>3 DEF DeletedBy

LEMMA DeletedByNow ==
  ASSUME FoundInv, NEW r \in Requests, Step(r), NEW a \in Requests, pc[a] \notin {"idle", "done"},
         NEW o \in Objects, NEW k \in Holders \cup {"user"}, NEW i, KindOf(o) = k, id[o] = i,
         status[o] # "deleted", status'[o] = "deleted"
  PROVE  DeletedBy(k, i, a)'
<1> USE DEF FoundInv, FailedInv
<1>1. StepOf(r) /\ op' = op
  BY StepIsOneRequests DEF StepOf
<1>2. WriteStatus(r) /\ op[r].do = "delete" /\ op[r].kind = k /\ op[r].id = i
  BY DeletedNow
<1>3. pc[r] = "write"
  BY <1>2 DEF WriteStatus
<1>4. Overlap(a, r)
  BY <1>3, BothUnderWay
<1>5. Overlap(a, r)' /\ pc'[r] # "idle"
  BY <1>1, <1>3, <1>4, OverlapStays
<1>6. QED
  BY <1>1, <1>2, <1>5 DEF DeletedBy

LEMMA DeletedMeanwhileNext ==
  ASSUME DeletionInv, NEW r \in Requests, Step(r)
  PROVE  DeletedMeanwhile'
<1> USE DEF DeletionInv, NamesInv, FoundInv, FailedInv, RequestsInv
<1>1. StepOf(r) /\ op' = op
  BY StepIsOneRequests DEF StepOf
<1> SUFFICES ASSUME NEW a \in Requests, NEW o \in Objects,
                    op[a].do = "addAccount", status'[o] = "deleted",
                    NEW k \in Holders, NEW i, k = op[a].kind, i = op[a].id
             PROVE  /\ \/ pc'[a] = "numbers" /\ o \in Rows(k, i)'
                       \/ pc'[a] \in {"exist", "login", "account"} /\ o = holder'[a]
                       => DeletedBy(k, i, a)'
                    /\ /\ pc'[a] \in {"exist", "login", "account"}
                       /\ op[a].kind = "machine" /\ o = owner'[a]
                       => DeletedBy("user", op[a].user, a)'
  <2>1. \A a \in Requests : op[a].do = "addAccount" => op[a].kind \in Holders
    BY AccountsAssumption DEF AccountOps, IdsInv, IdsTypes
  <2>2. QED
    BY <1>1, <2>1 DEF DeletedMeanwhile, Rows, KindOf, DeletedBy
<1>2. ~CreationStep(r) \/ a # r
  BY DEF CreationStep, GetVishnuCounter, CheckObjectId, ReserveObjectId, CountRows, FillRows,
     Finish, IdsInv, Phases, Creating
<1>3. ASSUME pc'[a] = "numbers", o \in Rows(k, i)'
      PROVE  DeletedBy(k, i, a)'
  <2>1. o \in Rows(k, i)
    BY <1>3, RowsGrow DEF Holders
  <2>2. KindOf(o) = k /\ id[o] = i
    BY <2>1 DEF Rows
  <2>3. CASE pc[a] = "numbers"
    <3>1. CASE status[o] = "deleted"
      <4>1. DeletedBy(k, i, a)
        BY <2>1, <2>3, <3>1 DEF DeletedMeanwhile
      <4>2. QED
        BY <1>1, <2>3, <4>1, DeletedByStays
    <3>2. CASE status[o] # "deleted"
      BY <2>2, <2>3, <3>2, DeletedByNow
    <3>3. QED
      BY <3>1, <3>2
  <2>4. CASE pc[a] # "numbers"
    <3>1. a = r
      BY <1>1, <1>3, <2>4 DEF StepOf
    <3>2. FindHolder(r)
      BY <1>2, <1>3, <2>4, <3>1 DEF Step, StatementFails, LookUpObject, CheckNotLocked, WriteStatus,
         DeleteAccounts, FindNumbers, CheckAccount, CheckLogin, WriteAccount, Answer, Continue, GoTo,
         IdsInv, IdsTypes
    <3>3. PICK h \in Rows(k, i) : status[h] = "active"
      BY <1>3, <3>1, <3>2 DEF FindHolder, Answer, GoTo, IdsInv, IdsTypes
    <3>4. status[o] = "deleted"
      BY <3>2 DEF FindHolder, rowVars
    <3>5. h \in Objects /\ KindOf(h) = k /\ id[h] = i
      BY <3>3 DEF Rows
    <3>6. QED
      BY <2>1, <2>2, <3>3, <3>4, <3>5 DEF OneStatus
  <2>5. QED
    BY <2>3, <2>4
<1>4. CASE pc[a] \in {"exist", "login", "account"}
  <2>1. holder'[a] = holder[a] /\ owner'[a] = owner[a] /\ Found(a)
    BY <1>1, <1>4 DEF StepOf, Found
  <2>2. ASSUME o = holder[a]
        PROVE  DeletedBy(k, i, a)'
    <3>1. KindOf(o) = k /\ id[o] = i
      BY <2>1, <2>2 DEF FoundOnes
    <3>2. CASE status[o] = "deleted"
      <4>1. DeletedBy(k, i, a)
        BY <1>4, <2>2, <3>2 DEF DeletedMeanwhile
      <4>2. QED
        BY <1>1, <1>4, <4>1, DeletedByStays
    <3>3. CASE status[o] # "deleted"
      BY <1>4, <3>1, <3>3, DeletedByNow
    <3>4. QED
      BY <3>2, <3>3
  <2>3. ASSUME o = owner[a], op[a].kind = "machine", NEW u, u = op[a].user
        PROVE  DeletedBy("user", u, a)'
    <3>1. KindOf(o) = "user" /\ id[o] = u
      BY <2>1, <2>3 DEF FoundOnes
    <3>2. CASE status[o] = "deleted"
      <4>1. DeletedBy("user", u, a)
        BY <1>4, <2>3, <3>2 DEF DeletedMeanwhile
      <4>2. QED
        BY <1>1, <1>4, <4>1, DeletedByStays
    <3>3. CASE status[o] # "deleted"
      BY <1>4, <3>1, <3>3, DeletedByNow
    <3>4. QED
      BY <3>2, <3>3
  <2>4. PICK u : u = op[a].user
    OBVIOUS
  <2>5. op[a].kind = "machine" /\ o = owner[a] => DeletedBy("user", op[a].user, a)'
    BY <1>1, <2>3, <2>4 DEF DeletedBy
  <2>6. QED
    BY <1>3, <2>1, <2>2, <2>5
<1>5. CASE pc[a] \notin {"exist", "login", "account"} /\ pc'[a] \in {"exist", "login", "account"}
  <2>1. a = r
    BY <1>1, <1>5 DEF StepOf
  <2>2. FindNumbers(r)
    BY <1>2, <1>5, <2>1 DEF Step, StatementFails, LookUpObject, CheckNotLocked, WriteStatus,
       DeleteAccounts, FindHolder, CheckAccount, CheckLogin, WriteAccount, Answer, Continue, GoTo,
       IdsInv, IdsTypes
  <2>3. status[o] = "deleted" /\ pc[r] = "numbers"
    BY <2>2 DEF FindNumbers, rowVars
  <2>4. holder'[r] \in Rows(k, i)
    BY <1>5, <2>1, <2>2 DEF FindNumbers, Answer, GoTo, IdsInv, IdsTypes
  <2>5. op[r].kind = "machine" => owner'[r] \in NotDeleted(Rows("user", op[r].user))
    BY <1>5, <2>1, <2>2 DEF FindNumbers, Answer, GoTo, IdsInv, IdsTypes
  <2>6. ~(op[a].kind = "machine" /\ o = owner'[a])
    BY <2>1, <2>3, <2>5 DEF NotDeleted
  <2>7. o = holder'[a] => DeletedBy(k, i, a)
    BY <2>1, <2>3, <2>4 DEF DeletedMeanwhile
  <2>8. o = holder'[a] => DeletedBy(k, i, a)'
    BY <1>1, <2>1, <2>3, <2>7, DeletedByStays
  <2>9. QED
    BY <1>5, <2>6, <2>8
<1>6. QED
  BY <1>3, <1>4, <1>5

LEMMA AccountsGoneNext ==
  ASSUME DeletionInv, NEW r \in Requests, Step(r)
  PROVE  AccountsGone'
<1> USE DEF DeletionInv, NamesInv, FoundInv, FailedInv, RequestsInv
<1>1. StepOf(r) /\ op' = op
  BY StepIsOneRequests DEF StepOf
<1> SUFFICES ASSUME NEW p \in Requests, Gone(p)', ~Excused(p)',
                    NEW k \in Holders \cup {"user"}, NEW i, k = op[p].kind, i = op[p].id,
                    NEW o \in Objects, o \in Rows(k, i)',
                    NEW a \in AccountRows, Live(a)', AccountOf(a, o)'
             PROVE  Inserted(a)' /\ Overlap(a, p)'
  <2>1. \A p \in Requests : op[p].do = "delete" => op[p].kind \in Holders \cup {"user"}
    BY AccountsAssumption DEF IdsInv, IdsTypes
  <2>2. QED
    BY <1>1, <2>1 DEF AccountsGone, Gone, Rows, KindOf
<1>2. AddedBy(r, a) \/ KeptBy(r, a)
  BY AccountWritten
<1>3. op[p].do = "delete"
  BY <1>1 DEF Gone
<1>4. id'[o] = i
  BY DEF Rows
<1>5. CASE Gone(p) /\ KeptBy(r, a)
  <2>1. pc[p] = "done" /\ ~Excused(p)
    BY <1>1, <1>5, ExcuseStays DEF Gone, Procedures
  <2>2. Live(a) /\ AccountOf(a, o)
    BY <1>5, AccountOfKept
  <2>3. Settled(o)
    BY <2>2, AccountsOfNamed
  <2>4. o \in Rows(k, i)
    BY <2>3, RowsGrow
  <2>5. Inserted(a) /\ Overlap(a, p)
    BY <1>5, <2>1, <2>2, <2>4 DEF AccountsGone
  <2>6. a \in Requests /\ pc[a] = "done"
    BY <2>2, <2>5, AccountsOfNamed
  <2>7. Overlap(a, p)'
    BY <1>1, <2>1, <2>5, <2>6, OverlapStays
  <2>8. QED
    BY <1>5, <2>5, <2>7 DEF KeptBy
<1>6. CASE Gone(p) /\ AddedBy(r, a)
  <2>1. pc[p] = "done" /\ ~Excused(p)
    BY <1>1, <1>6, ExcuseStays DEF Gone, Procedures
  <2>2. a = r /\ op[r].do = "addAccount" /\ pc[r] = "account"
    BY <1>6 DEF AddedBy
  <2>3. Settled(o) /\ Inserted(r)'
    BY <1>6, <2>2, AccountOfAdded
  <2>4. KindOf(o) = k /\ id[o] = i
    BY <1>1, <1>4, <2>3, SettledStays DEF Rows
  <2>5. About(r, k, i)
    BY <1>6, <2>2, <2>4, AccountOfAdded DEF About
  <2>6. p \notin before[r]
    BY <1>6, <2>1, <2>5 DEF NobodyLater
  <2>7. Overlap(r, p)
    BY <2>2, <2>6, NotBefore
  <2>8. Overlap(r, p)'
    BY <1>1, <2>1, <2>2, <2>7, OverlapStays
  <2>9. QED
    BY <2>2, <2>3, <2>8
<1>7. CASE ~Gone(p)
  <2>1. p = r /\ result[r] # "ok" /\ result'[r] = "ok"
    BY <1>1, <1>3, <1>7 DEF Gone, StepOf
  <2>2. ~CreationStep(r)
    BY <1>3, <2>1 DEF CreationStep, GetVishnuCounter, CheckObjectId, ReserveObjectId, CountRows,
       FillRows, Finish, IdsInv, Phases, Creating
  <2>3. DeleteAccounts(r)
    BY <1>3, <2>1, <2>2 DEF Step, StatementFails, LookUpObject, CheckNotLocked, WriteStatus,
       FindHolder, FindNumbers, CheckAccount, CheckLogin, WriteAccount, Procedures, AccountOps,
       Answer, Continue, GoTo, IdsInv, IdsTypes
  <2>4. KeptBy(r, a)
    BY <1>2, <2>3 DEF AddedBy, DeleteAccounts
  <2>5. Live(a) /\ AccountOf(a, o)
    BY <2>4, AccountOfKept
  <2>6. o \in Rows(k, i)
    BY <1>1, <2>3 DEF DeleteAccounts, Rows, KindOf, rowVars
  <2>7. a \in AccountsToDelete(r)
    BY <2>1, <2>5, <2>6 DEF AccountsToDelete, AccountOf
  <2>8. DOMAIN account[a] = DOMAIN NoAccount
    BY DEF AccountTypes
  <2>9. account'[a].status = "deleted"
    BY <2>3, <2>7, <2>8 DEF DeleteAccounts, NoAccount
  <2>10. QED
    BY <2>9 DEF Live
<1>8. QED
  BY <1>2, <1>5, <1>6, <1>7

LEMMA OutlivedNext ==
  ASSUME DeletionInv, NEW r \in Requests, Step(r)
  PROVE  Outlived'
<1> USE DEF DeletionInv, NamesInv, FoundInv, FailedInv, RequestsInv
<1>1. StepOf(r) /\ op' = op
  BY StepIsOneRequests DEF StepOf
<1> SUFFICES ASSUME NEW o \in Objects, NEW a \in AccountRows,
                    status'[o] = "deleted", Live(a)', AccountOf(a, o)'
             PROVE  \E q \in Requests : Spares(q, o, a)'
  BY DEF Outlived
<1>2. CASE AddedBy(r, a)
  <2>1. a = r /\ op[r].do = "addAccount" /\ pc[r] = "account" /\ pc'[r] = "done"
    BY <1>2 DEF AddedBy
  <2>2. /\ Settled(o) /\ Inserted(r)'
        /\ \/ o = holder[r] /\ op[r].kind \in Holders /\ KindOf(o) = op[r].kind /\ id[o] = op[r].id
           \/ /\ o = owner[r] /\ op[r].kind = "machine"
              /\ KindOf(o) = "user" /\ id[o] = op[r].user
    BY <1>2, <2>1, AccountOfAdded
  <2>3. status[o] = "deleted"
    BY <2>1, <2>2, DeletedNow
  <2>4. DeletedBy(KindOf(o), id[o], r)
    BY <2>1, <2>2, <2>3 DEF DeletedMeanwhile
  <2>5. PICK q \in Requests : /\ op[q].do = "delete" /\ op[q].kind = KindOf(o) /\ op[q].id = id[o]
                              /\ pc[q] # "idle" /\ Overlap(r, q)
    BY <2>4 DEF DeletedBy
  <2>6. Overlap(r, q)' /\ pc'[q] # "idle"
    BY <1>1, <2>1, <2>5, OverlapStays
  <2>7. id'[o] = id[o] /\ KindOf(o)' = KindOf(o)
    BY <1>1, <2>2, SettledStays
  <2>8. QED
    BY <1>1, <2>1, <2>2, <2>5, <2>6, <2>7 DEF Spares
<1>3. CASE KeptBy(r, a)
  <2>1. Live(a) /\ AccountOf(a, o)
    BY <1>3, AccountOfKept
  <2>2. /\ Settled(o) /\ KindOf(o) \in Holders \cup {"user"}
        /\ Inserted(a) => a \in Requests /\ pc[a] = "done"
    BY <2>1, AccountsOfNamed
  <2>3. id'[o] = id[o] /\ KindOf(o)' = KindOf(o)
    BY <1>1, <2>2, SettledStays
  <2>4. CASE status[o] # "deleted"
    <3>1. /\ op[r].do = "delete" /\ op[r].kind = KindOf(o) /\ op[r].id = id[o]
          /\ pc'[r] = "accounts"
      BY <2>2, <2>4, DeletedNow
    <3>2. Spares(r, o, a)'
      BY <1>1, <2>3, <3>1 DEF Spares
    <3>3. QED
      BY <3>2
  <2>5. CASE status[o] = "deleted"
    <3>1. PICK q \in Requests : Spares(q, o, a)
      BY <2>1, <2>5 DEF Outlived
    <3>2. op[q].do = "delete" /\ op[q].kind = KindOf(o) /\ op[q].id = id[o]
      BY <3>1 DEF Spares
    <3>3. CASE Inserted(a) /\ Overlap(a, q) /\ pc[q] # "idle"
      <4>1. Overlap(a, q)' /\ pc'[q] # "idle"
        BY <1>1, <2>2, <3>3, OverlapStays
      <4>2. Spares(q, o, a)'
        BY <1>1, <1>3, <2>3, <3>2, <3>3, <4>1 DEF Spares, KeptBy
      <4>3. QED
        BY <4>2
    <3>4. CASE q # r /\ (pc[q] = "accounts" \/ result[q] = "error")
      <4>1. pc'[q] = pc[q] /\ result'[q] = result[q]
        BY <1>1, <3>4 DEF StepOf
      <4>2. Spares(q, o, a)'
        BY <1>1, <2>3, <3>2, <3>4, <4>1 DEF Spares
      <4>3. QED
        BY <4>2
    <3>5. CASE q = r /\ (pc[q] = "accounts" \/ result[q] = "error")
      <4>1. pc[r] = "accounts"
        BY <1>1, <3>5 DEF StepOf, Procedures
      <4>2. DeleteAccounts(r) \/ StatementFails(r)
        BY <4>1 DEF Step, CreationStep, GetVishnuCounter, CheckObjectId, ReserveObjectId, CountRows,
           FillRows, Finish, LookUpObject, CheckNotLocked, WriteStatus, FindHolder, FindNumbers,
           CheckAccount, CheckLogin, WriteAccount
      <4>3. ~DeleteAccounts(r)
        <5>1. op[r].id # Null
          BY <3>2, <3>5, <4>1 DEF NameTaken, Deleting, Rows
        <5>2. o \in Rows(op[r].kind, op[r].id)
          BY <2>2, <3>2, <3>5, <5>1 DEF Rows, Settled
        <5>3. a \in AccountsToDelete(r)
          BY <2>1, <5>2 DEF AccountsToDelete, AccountOf
        <5>4. DOMAIN account[a] = DOMAIN NoAccount
          BY DEF AccountTypes
        <5>5. DeleteAccounts(r) => account'[a].status = "deleted"
          BY <5>3, <5>4 DEF DeleteAccounts, NoAccount
        <5>6. QED
          BY <5>5 DEF Live
      <4>4. result'[r] = "error"
        BY <4>2, <4>3 DEF StatementFails, Answer, IdsInv, IdsTypes
      <4>5. Spares(q, o, a)'
        BY <1>1, <2>3, <3>2, <3>5, <4>4 DEF Spares
      <4>6. QED
        BY <4>5
    <3>6. QED
      BY <3>1, <3>3, <3>4, <3>5 DEF Spares
  <2>6. QED
    BY <2>4, <2>5
<1>4. QED
  BY <1>2, <1>3, AccountWritten

LEMMA DeletionInvNext == DeletionInv /\ [Next]_vars => DeletionInv'
<1> SUFFICES ASSUME DeletionInv, [Next]_vars PROVE DeletionInv'
  OBVIOUS
<1>1. CASE Next
  <2>1. PICK r \in Requests : Step(r)
    BY <1>1 DEF Next
  <2>2. QED
    BY <2>1, NamesInvNext, DeletedMeanwhileNext, AccountsGoneNext, OutlivedNext DEF DeletionInv
<1>2. CASE UNCHANGED vars
  <2> USE <1>2 DEF vars, idVars, requestVars, rowVars, accVars, DeletionInv, NamesInv
  <2>1. FailedInv'
    BY FailedInvNext DEF FoundInv
  <2>2. FoundInv'
    BY <2>1 DEF FoundInv, AccountTypes, FoundOnes, Found, Settled, KindOf
  <2>3. NameTaken' /\ NamesNotReused' /\ OneStatus'
    BY DEF NameTaken, NamesNotReused, OneStatus, Deleting, Gone, Checked, Rows, Settled, KindOf
  <2>4. \A p \in Requests : Excused(p)' <=> Excused(p)
    BY DEF Excused, Excuse, Settled, Overlap
  <2>5. StaysDeleted' /\ NobodyLater'
    BY <2>4 DEF StaysDeleted, NobodyLater, Marked, Gone, About, Rows, KindOf
  <2>6. DeletedMeanwhile'
    BY DEF DeletedMeanwhile, DeletedBy, Rows, KindOf, Overlap
  <2>7. AccountsGone'
    BY <2>4 DEF AccountsGone, Gone, Rows, KindOf, Live, AccountOf, Inserted, Overlap
  <2>8. Outlived'
    BY DEF Outlived, Spares, KindOf, Live, AccountOf, Inserted, Overlap
  <2>9. QED
    BY <2>2, <2>3, <2>5, <2>6, <2>7, <2>8
<1>3. QED
  BY <1>1, <1>2

LEMMA DeletionInvComplete == DeletionInv => DeletionIsComplete
<1> SUFFICES ASSUME DeletionInv PROVE DeletionIsComplete
  OBVIOUS
<1>1. ASSUME NEW p \in Requests, op[p].do = "delete", result[p] = "ok",
             NEW o \in Rows(op[p].kind, op[p].id)
      PROVE  \/ /\ status[o] \in {"deleted", "null"}
                /\ \A a \in AccountRows :
                     Live(a) /\ AccountOf(a, o) => Inserted(a) /\ Overlap(a, p)
             \/ \E q \in Requests :
                  /\ Names(q, o) /\ Overlap(q, p)
                  /\ \/ op[q].do = "create"
                     \/ op[q].do = "update" /\ op[q].kind # "user"
  <2>1. KindOf(o) = op[p].kind /\ id[o] = op[p].id
    BY DEF Rows
  <2>2. CASE Excused(p)
    <3>1. PICK q \in Requests : Excuse(q, p)
      BY <2>2 DEF Excused
    <3>2. Names(q, o)
      BY <2>1, <3>1 DEF Excuse, Names
    <3>3. QED
      BY <3>1, <3>2 DEF Excuse
  <2>3. CASE ~Excused(p)
    BY <1>1, <2>3 DEF DeletionInv, NamesInv, StaysDeleted, AccountsGone, Marked, Gone
  <2>4. QED
    BY <2>2, <2>3
<1>2. ASSUME NEW o \in Objects, NEW a \in AccountRows,
             status[o] = "deleted", Live(a), AccountOf(a, o)
      PROVE  \E q \in Requests :
               /\ op[q].do = "delete" /\ Names(q, o)
               /\ \/ pc[q] = "accounts" \/ result[q] = "error"
                  \/ Inserted(a) /\ Overlap(a, q)
  BY <1>2 DEF DeletionInv, Outlived, Spares, Names
<1>3. QED
  BY <1>1, <1>2 DEF DeletionIsComplete

\* A deletion that was told "done" has deleted every row of the name and every account
\* there, but those that were added at the same time; unless somebody created
\* the name meanwhile, or updated the machine or authentication system, whose UPDATE does
\* not look at the status.  What outlives a deleted object is being deleted, was
\* left by a deletion that failed, or was added during one.
THEOREM DeletionsAreComplete == Spec => []DeletionIsComplete
<1>1. Init => DeletionInv
  BY DeletionInvInit
<1>2. DeletionInv /\ [Next]_vars => DeletionInv'
  BY DeletionInvNext
<1>3. DeletionInv => DeletionIsComplete
  BY DeletionInvComplete
<1>4. QED
  BY <1>1, <1>2, <1>3, PTL DEF Spec
=============================================================================
