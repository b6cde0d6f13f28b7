-------------------------- MODULE ThreadPoolProofs --------------------------
(***************************************************************************)
(* Every oracle has one owner.  The inductive invariant PoolInv says that  *)
(* the running machines have ids below next_id and are of one pool each,   *)
(* that what the threads hold is pairwise different, of a machine in the   *)
(* pool of their group and not idle, and that without a panic every oracle *)
(* of a machine is idle or held.  The last part is needed for nothing but  *)
(* itself; a machine is killed when as many oracles as it has are idle,    *)
(* and as no oracle is idle twice those are all of them (FullStack): no    *)
(* thread holds one.                                                       *)
(***************************************************************************)
EXTENDS ThreadPool, FiniteSetTheorems, SequenceTheorems, WellFoundedInduction, TLAPS

Oracle(key) == {key} \X (1 .. NumOracles)
Machine(key) == [num_oracles : {NumOracles}, oracles : Seq(Oracle(key))]

(* The idle oracles of a machine. *)
Elements(s) == {s[a] : a \in DOMAIN s}
IdleOf(ps, g, key) == Elements(ps[g][key].oracles)

(* No oracle is idle twice. *)
Distinct(s) == \A a, b \in DOMAIN s : s[a] = s[b] => a = b

(* The machines of the pools have ids below n, and no two pools share one. *)
PoolsOK(ps, n) ==
    /\ DOMAIN ps = Group
    /\ \A g \in Group : \A key \in DOMAIN ps[g] :
          key \in Nat /\ key < n /\ ps[g][key] \in Machine(key) /\ Distinct(ps[g][key].oracles)
    /\ \A g, h \in Group : \A key \in DOMAIN ps[g] : key \in DOMAIN ps[h] => g = h

(* What a thread holds: an oracle, of a core group. *)
Hold == (Nat \X (1 .. NumOracles)) \X Group

(* What is held is of machines that run, and not idle. *)
HeldOK(H, ps) == \A x \in H : /\ x \in Hold /\ x[1][1] \in DOMAIN ps[x[2]]
                              /\ x[1] \notin IdleOf(ps, x[2], x[1][1])

(* Every oracle of a machine is idle or held. *)
NoneLost(H, ps) ==
    \A g \in Group : \A key \in DOMAIN ps[g] : \A k \in 1 .. NumOracles :
        <<key, k>> \in IdleOf(ps, g, key) \/ <<<<key, k>>, g>> \in H

(* Held and idle oracles without a mix-up. *)
Sound(H, ps, n) == PoolsOK(ps, n) /\ HeldOK(H, ps)

(* K with the pools qs has what H had with ps. *)
Kept(H, ps, K, qs, n) == Sound(K, qs, n) /\ (NoneLost(H, ps) => NoneLost(K, qs))

-----------------------------------------------------------------------------
(* A full stack has every oracle of its machine. *)
LEMMA FullStack ==
    ASSUME NEW key, NEW s \in Seq(Oracle(key)), Len(s) >= NumOracles, Distinct(s)
    PROVE  Oracle(key) \in SUBSET Elements(s)
<1> DEFINE T == 1 .. NumOracles
           f == [a \in T |-> s[a][2]]
<1>1. NumOracles \in Nat /\ Len(s) \in Nat /\ DOMAIN s = 1 .. Len(s) /\ \A a \in DOMAIN s : s[a] \in Oracle(key)
  BY OraclesAssumption
<1>2. IsFiniteSet(T) /\ Cardinality(T) = Cardinality(T)
  BY <1>1, FS_Interval
<1>3. \A a \in DOMAIN s : s[a] = <<key, s[a][2]>> /\ s[a][2] \in T
  BY <1>1 DEF Oracle
<1>4. f \in [T -> T]
  BY <1>1, <1>3
<1>5. ASSUME NEW a \in T, NEW b \in T, f[a] = f[b] PROVE a = b
  <2>1. a \in DOMAIN s /\ b \in DOMAIN s /\ s[a][2] = s[b][2]
    BY <1>1, <1>5
  <2> QED BY <1>3, <2>1, Zenon DEF Distinct
<1>6. f \in Surjection(T, T)
  <2>1. f \in Injection(T, T)
    BY <1>4, <1>5 DEF Injection, IsInjective
  <2> QED BY <1>2, <2>1, FS_Injection
<1>7. ASSUME NEW o \in Oracle(key) PROVE o \in Elements(s)
  <2>1. o = <<key, o[2]>> /\ o[2] \in T
    BY DEF Oracle
  <2>2. PICK a \in T : f[a] = o[2]
    BY <1>6, <2>1 DEF Surjection
  <2>3. a \in DOMAIN s /\ s[a][2] = o[2]
    BY <1>1, <2>2
  <2> QED BY <1>3, <2>1, <2>3, Zenon DEF Elements
<1> QED BY <1>7, Zenon

(* A machine with another stack. *)
LEMMA MachineWith ==
    ASSUME NEW key, NEW m \in Machine(key), NEW rest \in Seq(Oracle(key))
    PROVE  [m EXCEPT !.oracles = rest] \in Machine(key) /\ [m EXCEPT !.oracles = rest].oracles = rest
<1>1. PICK S : S = Seq(Oracle(key))
  BY Zenon
<1>2. m \in [num_oracles : {NumOracles}, oracles : S] /\ rest \in S
  BY <1>1, Zenon DEF Machine
<1>3. PICK r : r = [m EXCEPT !.oracles = rest]
  BY Zenon
<1>4. r \in [num_oracles : {NumOracles}, oracles : S] /\ r.oracles = rest
  BY <1>2, <1>3
<1> QED BY <1>1, <1>3, <1>4, Zenon DEF Machine

(* The stack of one machine changes, and nothing else. *)
OnlyStack(ps, qs, g, key, s) ==
    /\ \A h \in Group : DOMAIN qs[h] = DOMAIN ps[h]
    /\ qs[g][key].oracles = s
    /\ \A h \in Group : \A k \in DOMAIN ps[h] : (h = g /\ k = key) \/ qs[h][k] = ps[h][k]

(* The pools after the stack of machine key became s. *)
LEMMA StackSet ==
    ASSUME NEW ps, NEW n, PoolsOK(ps, n), NEW g \in Group, NEW key \in DOMAIN ps[g],
           NEW s \in Seq(Oracle(key)), Distinct(s),
           NEW qs, qs = [ps EXCEPT ![g] = [ps[g] EXCEPT ![key].oracles = s]]
    PROVE  PoolsOK(qs, n) /\ OnlyStack(ps, qs, g, key, s)
<1>1. DOMAIN qs = Group /\ (\A h \in Group \ {g} : qs[h] = ps[h]) /\ qs[g] = [ps[g] EXCEPT ![key].oracles = s]
  BY DEF PoolsOK
<1>2. /\ DOMAIN qs[g] = DOMAIN ps[g] /\ qs[g][key] = [ps[g][key] EXCEPT !.oracles = s]
      /\ \A k \in DOMAIN ps[g] : k = key \/ qs[g][k] = ps[g][k]
  BY <1>1
<1>3. ps[g][key] \in Machine(key)
  BY Zenon DEF PoolsOK
<1>4. qs[g][key] \in Machine(key) /\ qs[g][key].oracles = s
  <2>1. [ps[g][key] EXCEPT !.oracles = s] \in Machine(key) /\ [ps[g][key] EXCEPT !.oracles = s].oracles = s
    BY <1>3, MachineWith, Zenon
  <2> QED BY <1>2, <2>1, Zenon
<1>5. OnlyStack(ps, qs, g, key, s)
  BY <1>1, <1>2, <1>4 DEF OnlyStack
<1>6. ASSUME NEW h \in Group, NEW k \in DOMAIN qs[h]
      PROVE  k \in Nat /\ k < n /\ qs[h][k] \in Machine(k) /\ Distinct(qs[h][k].oracles)
  <2>1. k \in DOMAIN ps[h]
    BY <1>5, Zenon DEF OnlyStack
  <2>2. k \in Nat /\ k < n /\ ps[h][k] \in Machine(k) /\ Distinct(ps[h][k].oracles)
    BY <2>1, Zenon DEF PoolsOK
  <2> QED BY <1>4, <1>5, <2>1, <2>2, Zenon DEF OnlyStack
<1>7. \A h, i \in Group : \A k \in DOMAIN qs[h] : k \in DOMAIN qs[i] => h = i
  BY <1>5, Zenon DEF OnlyStack, PoolsOK
<1> QED BY <1>1, <1>5, <1>6, <1>7, Zenon DEF PoolsOK

(* A started machine has a new id: nothing of it is idle or held yet. *)
LEMMA StartKeeps ==
    ASSUME NEW ps, NEW n \in Nat, NEW H, Sound(H, ps, n),
           NEW g \in Group, NEW qs, qs = [ps EXCEPT ![g] = WithMachine(ps[g], n)]
    PROVE  /\ Kept(H, ps, H, qs, n + 1)
           /\ n \in DOMAIN qs[g] /\ Len(qs[g][n].oracles) > 0
<1>0. PoolsOK(ps, n) /\ HeldOK(H, ps)
  BY Zenon DEF Sound
<1>1. DOMAIN qs = Group /\ qs[g] = WithMachine(ps[g], n) /\ \A h \in Group \ {g} : qs[h] = ps[h]
  BY <1>0 DEF PoolsOK
<1>2. DOMAIN qs[g] = DOMAIN ps[g] \cup {n} /\ \A h \in Group : n \notin DOMAIN ps[h]
  BY <1>0, <1>1 DEF WithMachine, PoolsOK
<1>3. qs[g][n] = [num_oracles |-> NumOracles, oracles |-> OraclesOf(n)]
  BY <1>1 DEF WithMachine
<1>4. \A h \in Group : \A key \in DOMAIN ps[h] : key \in DOMAIN qs[h] /\ qs[h][key] = ps[h][key]
  BY <1>1, <1>2 DEF WithMachine
<1>5. \A h \in Group : \A key \in DOMAIN qs[h] : key \in DOMAIN ps[h] \/ (h = g /\ key = n)
  BY <1>1, <1>2, Zenon
<1>6. OraclesOf(n) \in [1 .. NumOracles -> Oracle(n)] /\ \A a \in 1 .. NumOracles : OraclesOf(n)[a] = <<n, a>>
  BY DEF OraclesOf, Oracle
<1>7. OraclesOf(n) \in Seq(Oracle(n)) /\ Len(OraclesOf(n)) > 0 /\ DOMAIN OraclesOf(n) = 1 .. NumOracles
  BY <1>6, OraclesAssumption
<1>8. qs[g][n] \in Machine(n) /\ qs[g][n].oracles = OraclesOf(n)
  BY <1>3, <1>7 DEF Machine
<1>9. Distinct(OraclesOf(n)) /\ \A k \in 1 .. NumOracles : <<n, k>> \in Elements(OraclesOf(n))
  <2>1. \A a, b \in 1 .. NumOracles : <<n, a>> = <<n, b>> => a = b
    OBVIOUS
  <2> QED BY <1>6, <1>7, <2>1, Zenon DEF Distinct, Elements
<1>10. PoolsOK(qs, n + 1)
  <2>1. ASSUME NEW h \in Group, NEW key \in DOMAIN qs[h]
        PROVE  key \in Nat /\ key < n + 1 /\ qs[h][key] \in Machine(key) /\ Distinct(qs[h][key].oracles)
    <3>1. CASE key \in DOMAIN ps[h]
      <4>1. key \in Nat /\ key < n /\ qs[h][key] \in Machine(key) /\ Distinct(qs[h][key].oracles)
        BY <1>0, <1>4, <3>1, Zenon DEF PoolsOK
      <4> QED BY <4>1
    <3>2. CASE h = g /\ key = n
      BY <1>8, <1>9, <3>2
    <3> QED BY <1>5, <3>1, <3>2, Zenon
  <2>2. ASSUME NEW h \in Group, NEW i \in Group, NEW key \in DOMAIN qs[h], key \in DOMAIN qs[i] PROVE h = i
    <3>1. key = n \/ (key \in DOMAIN ps[h] /\ key \in DOMAIN ps[i])
      BY <1>5, <2>2, Zenon
    <3> QED BY <1>0, <1>2, <1>5, <2>2, <3>1 DEF PoolsOK
  <2> QED BY <1>1, <2>1, <2>2, Zenon DEF PoolsOK
<1>11. HeldOK(H, qs)
  <2> SUFFICES ASSUME NEW x \in H PROVE x[1][1] \in DOMAIN qs[x[2]] /\ x[1] \notin IdleOf(qs, x[2], x[1][1])
    BY <1>0, Zenon DEF HeldOK
  <2>1. x[2] \in Group
    BY <1>0 DEF HeldOK, Hold
  <2> QED BY <1>0, <1>4, <2>1, Zenon DEF HeldOK, IdleOf
<1>12. ASSUME NoneLost(H, ps) PROVE NoneLost(H, qs)
  BY <1>4, <1>5, <1>8, <1>9, <1>12, Zenon DEF NoneLost, IdleOf
<1> QED BY <1>2, <1>7, <1>8, <1>10, <1>11, <1>12, Zenon DEF Kept, Sound

(* The top oracle o of the stack of machine key is taken. *)
Popped(ps, g, key, next, qs, o) ==
    /\ key \in DOMAIN ps[g] /\ Len(ps[g][key].oracles) > 0
    /\ qs = [ps EXCEPT ![g] = Pop(ps[g], key, next).idle] /\ o = Pop(ps[g], key, next).oracle

(* Who takes an idle oracle is its one owner. *)
LEMMA PopKeeps ==
    ASSUME NEW ps, NEW n \in Nat, NEW H, Sound(H, ps, n),
           NEW g \in Group, NEW key, NEW next, NEW qs, NEW o, Popped(ps, g, key, next, qs, o)
    PROVE  Kept(H, ps, H \cup {<<o, g>>}, qs, n) /\ <<o, g>> \notin H /\ o \in Nat \X (1 .. NumOracles)
<1>0. PoolsOK(ps, n) /\ HeldOK(H, ps) /\ key \in DOMAIN ps[g]
  BY Zenon DEF Sound, Popped
<1>1. ps[g][key] \in Machine(key) /\ key \in Nat /\ Distinct(ps[g][key].oracles)
  BY <1>0, Zenon DEF PoolsOK
<1>2. PICK stack \in Seq(Oracle(key)) : stack = ps[g][key].oracles /\ Len(stack) > 0
  BY <1>1, Zenon DEF Machine, Popped
<1>3. PICK top \in Nat : top = Len(stack) /\ top > 0 /\ DOMAIN stack = 1 .. top
  BY <1>2
<1>4. o = stack[top] /\ o \in Oracle(key)
  BY <1>2, <1>3 DEF Popped, Pop
<1>5. PICK rest \in Seq(Oracle(key)) :
         rest = SubSeq(stack, 1, top - 1) /\ DOMAIN rest = 1 .. top - 1 /\ \A a \in 1 .. top - 1 : rest[a] = stack[a]
  <2>1. /\ SubSeq(stack, 1, top - 1) \in Seq(Oracle(key)) /\ DOMAIN SubSeq(stack, 1, top - 1) = 1 .. top - 1
        /\ \A a \in 1 .. top - 1 : SubSeq(stack, 1, top - 1)[a] = stack[a]
    BY <1>3
  <2> QED BY <2>1, Zenon
<1>6. \A a \in 1 .. top : a \in 1 .. top - 1 \/ a = top
  OBVIOUS
<1>7. \A a \in 1 .. top - 1 : a \in 1 .. top /\ a # top
  OBVIOUS
<1>8. top \in 1 .. top
  BY <1>3
<1>9. Distinct(rest) /\ o \notin Elements(rest) /\ Elements(stack) = Elements(rest) \cup {o}
  <2>1. Distinct(stack)
    BY <1>1, <1>2, Zenon
  <2>2. Distinct(rest)
    BY <1>3, <1>5, <1>7, <2>1 DEF Distinct
  <2>3. o \notin Elements(rest)
    <3>1. ASSUME NEW a \in DOMAIN rest, rest[a] = o PROVE FALSE
      <4>1. a \in 1 .. top - 1
        BY <1>5, Zenon
      <4>2. a \in 1 .. top /\ a # top /\ stack[a] = stack[top]
        BY <1>4, <1>5, <1>7, <3>1, <4>1, Zenon
      <4> QED BY <1>3, <1>8, <2>1, <4>2, Zenon DEF Distinct
    <3> QED BY <3>1, Zenon DEF Elements
  <2>4. Elements(stack) = Elements(rest) \cup {o}
    BY <1>3, <1>4, <1>5, <1>6, <1>7, <1>8 DEF Elements
  <2> QED BY <2>2, <2>3, <2>4
<1>10. PoolsOK(qs, n) /\ OnlyStack(ps, qs, g, key, rest)
  <2>1. qs = [ps EXCEPT ![g] = [ps[g] EXCEPT ![key].oracles = rest]]
    BY <1>2, <1>3, <1>5 DEF Popped, Pop
  <2> QED BY <1>0, <1>5, <1>9, <2>1, StackSet
<1>11. /\ IdleOf(ps, g, key) = IdleOf(qs, g, key) \cup {o} /\ o \notin IdleOf(qs, g, key)
       /\ \A h \in Group : \A k \in DOMAIN ps[h] : (h = g /\ k = key) \/ IdleOf(qs, h, k) = IdleOf(ps, h, k)
  BY <1>2, <1>9, <1>10, Zenon DEF OnlyStack, IdleOf
<1>12. o[1] = key /\ o \in Nat \X (1 .. NumOracles)
  BY <1>1, <1>4 DEF Oracle
<1>13. ASSUME NEW x \in H
       PROVE  x \in Hold /\ x[2] \in Group /\ x[1][1] \in DOMAIN ps[x[2]] /\ x[1] \notin IdleOf(ps, x[2], x[1][1])
  BY <1>0 DEF HeldOK, Hold
<1>14. \A x : x = <<o, g>> => x \in Hold /\ x[1] = o /\ x[2] = g
  BY <1>12 DEF Hold
<1>15. <<o, g>> \notin H
  BY <1>11, <1>12, <1>13, <1>14, Zenon
<1>16. HeldOK(H \cup {<<o, g>>}, qs)
  <2> SUFFICES ASSUME NEW x \in H \cup {<<o, g>>}
               PROVE  x \in Hold /\ x[1][1] \in DOMAIN qs[x[2]] /\ x[1] \notin IdleOf(qs, x[2], x[1][1])
    BY Zenon DEF HeldOK
  <2>1. CASE x \in H
    BY <1>10, <1>11, <1>13, <2>1, Zenon DEF OnlyStack
  <2>2. CASE x = <<o, g>>
    BY <1>0, <1>10, <1>11, <1>12, <1>14, <2>2, Zenon DEF OnlyStack
  <2> QED BY <2>1, <2>2
<1>17. ASSUME NoneLost(H, ps) PROVE NoneLost(H \cup {<<o, g>>}, qs)
  <2> SUFFICES ASSUME NEW h \in Group, NEW k \in DOMAIN qs[h], NEW j \in 1 .. NumOracles
               PROVE  <<k, j>> \in IdleOf(qs, h, k) \/ <<<<k, j>>, h>> \in H \cup {<<o, g>>}
    BY Zenon DEF NoneLost
  <2>1. k \in DOMAIN ps[h]
    BY <1>10, Zenon DEF OnlyStack
  <2>2. <<k, j>> \in IdleOf(ps, h, k) \/ <<<<k, j>>, h>> \in H
    BY <1>17, <2>1, Zenon DEF NoneLost
  <2> QED BY <1>11, <2>1, <2>2
<1> QED BY <1>10, <1>12, <1>15, <1>16, <1>17, Zenon DEF Kept, Sound

(* An oracle is returned, and a machine all of whose oracles are idle is   *)
(* killed: nobody holds one of them.                                       *)
LEMMA ReleaseKeeps ==
    ASSUME NEW ps, NEW n \in Nat, NEW H, Sound(H, ps, n), NEW o, NEW g, <<o, g>> \in H,
           NEW qs, qs = [ps EXCEPT ![g] = Release(ps[g], o)]
    PROVE  Kept(H, ps, H \ {<<o, g>>}, qs, n)
<1>0. PoolsOK(ps, n) /\ HeldOK(H, ps)
  BY Zenon DEF Sound
<1>1. PICK key \in Nat : /\ key = o[1] /\ g \in Group /\ key \in DOMAIN ps[g]
                        /\ o \in Oracle(key) /\ o \notin IdleOf(ps, g, key)
  BY <1>0 DEF HeldOK, Hold, Oracle
<1>2. ps[g][key] \in Machine(key) /\ Distinct(ps[g][key].oracles)
  BY <1>0, <1>1, Zenon DEF PoolsOK
<1>3. PICK stack \in Seq(Oracle(key)) : stack = ps[g][key].oracles
  BY <1>2, Zenon DEF Machine
<1>4. PICK full \in Seq(Oracle(key)) : /\ full = Append(stack, o) /\ DOMAIN full = 1 .. Len(stack) + 1
                                       /\ full[Len(stack) + 1] = o /\ \A a \in 1 .. Len(stack) : full[a] = stack[a]
  <2>1. /\ Append(stack, o) \in Seq(Oracle(key)) /\ DOMAIN Append(stack, o) = 1 .. Len(stack) + 1
        /\ Append(stack, o)[Len(stack) + 1] = o /\ \A a \in 1 .. Len(stack) : Append(stack, o)[a] = stack[a]
    BY <1>1
  <2> QED BY <2>1, Zenon
<1>5. /\ DOMAIN stack = 1 .. Len(stack) /\ Len(stack) + 1 \in 1 .. Len(stack) + 1
      /\ \A a \in 1 .. Len(stack) + 1 : a \in 1 .. Len(stack) \/ a = Len(stack) + 1
      /\ \A a \in 1 .. Len(stack) : a \in 1 .. Len(stack) + 1
  OBVIOUS
<1>6. Elements(full) = Elements(stack) \cup {o} /\ Distinct(full)
  <2>1. Elements(full) = Elements(stack) \cup {o}
    BY <1>4, <1>5 DEF Elements
  <2>2. o \notin Elements(stack) /\ Distinct(stack)
    BY <1>1, <1>2, <1>3, Zenon DEF IdleOf
  <2>3. Distinct(full)
    BY <1>4, <1>5, <2>2 DEF Distinct, Elements
  <2> QED BY <2>1, <2>3
<1>7. PICK ws : ws = [ps EXCEPT ![g] = [ps[g] EXCEPT ![key].oracles = full]]
  BY Zenon
<1>8. PoolsOK(ws, n) /\ OnlyStack(ps, ws, g, key, full)
  BY <1>0, <1>1, <1>4, <1>6, <1>7, StackSet
<1>9. DOMAIN ws = Group /\ ws[g] = [ps[g] EXCEPT ![key].oracles = full] /\ \A h \in Group \ {g} : ws[h] = ps[h]
  BY <1>0, <1>1, <1>7 DEF PoolsOK
<1>10. /\ IdleOf(ws, g, key) = IdleOf(ps, g, key) \cup {o}
       /\ \A h \in Group : \A k \in DOMAIN ps[h] : (h = g /\ k = key) \/ IdleOf(ws, h, k) = IdleOf(ps, h, k)
  BY <1>3, <1>6, <1>8, Zenon DEF OnlyStack, IdleOf
<1>11. ws[g][key].num_oracles = NumOracles /\ ws[g][key].oracles = full
  BY <1>1, <1>8 DEF PoolsOK, Machine, OnlyStack
<1>12. Release(ps[g], o) = IF Len(full) >= NumOracles THEN Restrict(ws[g], DOMAIN ws[g] \ {key}) ELSE ws[g]
  BY <1>1, <1>3, <1>4, <1>9, <1>11, Zenon DEF Release
<1>13. ASSUME NEW x \in H
       PROVE  x \in Hold /\ x[2] \in Group /\ x[1][1] \in DOMAIN ps[x[2]] /\ x[1] \notin IdleOf(ps, x[2], x[1][1])
  BY <1>0 DEF HeldOK, Hold
<1>14. \A x \in H : x = <<x[1], x[2]>> /\ x[1] = <<x[1][1], x[1][2]>> /\ x[1][2] \in 1 .. NumOracles
  BY <1>13 DEF Hold
<1>15. HeldOK(H \ {<<o, g>>}, ws)
  <2> SUFFICES ASSUME NEW x \in H, x # <<o, g>>
               PROVE  x \in Hold /\ x[1][1] \in DOMAIN ws[x[2]] /\ x[1] \notin IdleOf(ws, x[2], x[1][1])
    BY Zenon DEF HeldOK
  <2>1. x[2] = g => x[1] # o
    BY <1>14, Zenon
  <2>2. x[1][1] \in DOMAIN ws[x[2]]
    BY <1>8, <1>13, Zenon DEF OnlyStack
  <2> QED BY <1>10, <1>13, <2>1, <2>2
<1>16. ASSUME NoneLost(H, ps) PROVE NoneLost(H \ {<<o, g>>}, ws)
  <2> SUFFICES ASSUME NEW h \in Group, NEW k \in DOMAIN ws[h], NEW j \in 1 .. NumOracles
               PROVE  <<k, j>> \in IdleOf(ws, h, k) \/ <<<<k, j>>, h>> \in H \ {<<o, g>>}
    BY Zenon DEF NoneLost
  <2>1. k \in DOMAIN ps[h]
    BY <1>8, Zenon DEF OnlyStack
  <2>2. <<k, j>> \in IdleOf(ps, h, k) \/ <<<<k, j>>, h>> \in H
    BY <1>16, <2>1, Zenon DEF NoneLost
  <2>3. <<<<k, j>>, h>> = <<o, g>> => <<k, j>> = o /\ h = g /\ k = key
    BY <1>1
  <2> QED BY <1>10, <2>1, <2>2, <2>3
<1>17. CASE ~ (Len(full) >= NumOracles)
  <2>1. qs = ws
    BY <1>0, <1>1, <1>7, <1>9, <1>12, <1>17 DEF PoolsOK
  <2> QED BY <1>8, <1>15, <1>16, <2>1, Zenon DEF Kept, Sound
<1>18. CASE Len(full) >= NumOracles
  <2>1. /\ DOMAIN qs = Group /\ \A h \in Group \ {g} : qs[h] = ws[h]
        /\ qs[g] = Restrict(ws[g], DOMAIN ws[g] \ {key})
    BY <1>0, <1>1, <1>9, <1>12, <1>18 DEF PoolsOK
  <2>2. DOMAIN qs[g] = DOMAIN ws[g] \ {key} /\ \A k \in DOMAIN qs[g] : qs[g][k] = ws[g][k]
    BY <2>1 DEF Restrict
  <2>3. \A h \in Group : \A k \in DOMAIN qs[h] : k \in DOMAIN ws[h] /\ qs[h][k] = ws[h][k]
    BY <2>1, <2>2, Zenon
  <2>4. \A h \in Group : \A k \in DOMAIN ws[h] : k \in DOMAIN qs[h] \/ (h = g /\ k = key)
    BY <2>1, <2>2, Zenon
  <2>5. PoolsOK(qs, n)
    <3>1. \A h \in Group : \A k \in DOMAIN qs[h] :
             k \in Nat /\ k < n /\ qs[h][k] \in Machine(k) /\ Distinct(qs[h][k].oracles)
      BY <1>8, <2>3 DEF PoolsOK
    <3>2. \A h, i \in Group : \A k \in DOMAIN qs[h] : k \in DOMAIN qs[i] => h = i
      BY <1>8, <2>3 DEF PoolsOK
    <3> QED BY <2>1, <3>1, <3>2, Zenon DEF PoolsOK
  <2>6. HeldOK(H \ {<<o, g>>}, qs)
    <3> SUFFICES ASSUME NEW x \in H, x # <<o, g>>
                 PROVE  x \in Hold /\ x[1][1] \in DOMAIN qs[x[2]] /\ x[1] \notin IdleOf(qs, x[2], x[1][1])
      BY Zenon DEF HeldOK
    <3>1. x \in Hold /\ x[2] \in Group /\ x[1][1] \in DOMAIN ws[x[2]] /\ x[1] \notin IdleOf(ws, x[2], x[1][1])
      BY <1>13, <1>15, Zenon DEF HeldOK
    <3>2. ~ (x[2] = g /\ x[1][1] = key)
      <4>1. Oracle(key) \in SUBSET IdleOf(ws, g, key)
        BY <1>4, <1>6, <1>11, <1>18, FullStack, Zenon DEF IdleOf
      <4>2. x[1][1] = key => x[1] \in Oracle(key)
        BY <1>14 DEF Oracle
      <4> QED BY <3>1, <4>1, <4>2, Zenon
    <3> QED BY <2>3, <2>4, <3>1, <3>2, Zenon DEF IdleOf
  <2>7. ASSUME NoneLost(H, ps) PROVE NoneLost(H \ {<<o, g>>}, qs)
    BY <1>16, <2>3, <2>7, Zenon DEF NoneLost, IdleOf
  <2> QED BY <2>5, <2>6, <2>7, Zenon DEF Kept, Sound
<1> QED BY <1>17, <1>18

-----------------------------------------------------------------------------
(* What the threads of s hold, that no two of them hold the same, and that *)
(* none of them has panicked.                                              *)
Pair(t) == <<t.oracle, t.group>>
Held(s) == {Pair(s[i]) : i \in DOMAIN s}
Apart(s) == \A i, j \in DOMAIN s : Pair(s[i]) = Pair(s[j]) => i = j
Calm(s) == \A i \in DOMAIN s : s[i].pc # "panicked"

(* ab is a followed by b. *)
Split(a, b, ab) ==
    /\ ab \in Seq(Thread) /\ Held(ab) = Held(a) \cup Held(b) /\ (Calm(ab) <=> Calm(a) /\ Calm(b))
    /\ Apart(ab) <=> Apart(a) /\ Apart(b) /\ Held(a) \cap Held(b) = {}

(* What the threads of a concatenation hold. *)
LEMMA Concat ==
    ASSUME NEW a \in Seq(Thread), NEW b \in Seq(Thread), NEW ab, ab = a \o b
    PROVE  Split(a, b, ab)
<1>1. PICK m \in Nat, n \in Nat : m = Len(a) /\ n = Len(b) /\ DOMAIN a = 1 .. m /\ DOMAIN b = 1 .. n
  OBVIOUS
<1>2. /\ ab \in Seq(Thread) /\ DOMAIN ab = 1 .. m + n
      /\ \A i \in 1 .. m + n : ab[i] = IF i <= m THEN a[i] ELSE b[i - m]
  BY <1>1
<1>3. \A i \in DOMAIN a : i \in DOMAIN ab /\ ab[i] = a[i]
  BY <1>1, <1>2
<1>4. \A j \in DOMAIN b : m + j \in DOMAIN ab /\ ab[m + j] = b[j]
  BY <1>1, <1>2
<1>5. \A k \in DOMAIN ab : (k \in DOMAIN a /\ ab[k] = a[k]) \/ \E j \in DOMAIN b : k = m + j /\ ab[k] = b[j]
  <2> SUFFICES ASSUME NEW k \in DOMAIN ab, k \notin DOMAIN a
               PROVE  k - m \in DOMAIN b /\ k = m + (k - m) /\ ab[k] = b[k - m]
    BY <1>3, Zenon
  <2>1. k \in Nat /\ ~ (k <= m) /\ k \in 1 .. m + n
    BY <1>1, <1>2
  <2>2. k - m \in 1 .. n /\ k = m + (k - m)
    BY <2>1
  <2> QED BY <1>1, <1>2, <2>1, <2>2, Zenon
<1>6. \A i \in DOMAIN a : \A j \in DOMAIN b : i # m + j
  BY <1>1
<1>7. \A i, j \in DOMAIN b : m + i = m + j => i = j
  BY <1>1
<1>8. Held(ab) = Held(a) \cup Held(b)
  <2>1. ASSUME NEW x \in Held(ab) PROVE x \in Held(a) \/ x \in Held(b)
    <3>1. PICK k \in DOMAIN ab : x = Pair(ab[k])
      BY Zenon DEF Held
    <3> QED BY <1>5, <3>1, Zenon DEF Held
  <2>2. \A x : x \in Held(a) \/ x \in Held(b) => x \in Held(ab)
    BY <1>3, <1>4, Zenon DEF Held
  <2> QED BY <2>1, <2>2
<1>9. Calm(ab) <=> Calm(a) /\ Calm(b)
  <2>1. Calm(ab) => Calm(a) /\ Calm(b)
    BY <1>3, <1>4, Zenon DEF Calm
  <2>2. Calm(a) /\ Calm(b) => Calm(ab)
    BY <1>5, Zenon DEF Calm
  <2> QED BY <2>1, <2>2
<1>10. ASSUME Apart(ab) PROVE Apart(a) /\ Apart(b) /\ Held(a) \cap Held(b) = {}
  <2>1. Apart(a)
    BY <1>3, <1>10, Zenon DEF Apart
  <2>2. Apart(b)
    BY <1>4, <1>7, <1>10, Zenon DEF Apart
  <2>3. ASSUME NEW x \in Held(a), x \in Held(b) PROVE FALSE
    <3>1. PICK i \in DOMAIN a : x = Pair(a[i])
      BY <2>3, Zenon DEF Held
    <3>2. PICK j \in DOMAIN b : x = Pair(b[j])
      BY <2>3, Zenon DEF Held
    <3>3. Pair(ab[i]) = Pair(ab[m + j]) /\ i \in DOMAIN ab /\ m + j \in DOMAIN ab
      BY <1>3, <1>4, <3>1, <3>2, Zenon
    <3> QED BY <1>6, <1>10, <3>3, Zenon DEF Apart
  <2> QED BY <2>1, <2>2, <2>3
<1>11. ASSUME Apart(a), Apart(b), Held(a) \cap Held(b) = {} PROVE Apart(ab)
  <2>1. \A i \in DOMAIN a : \A j \in DOMAIN b : Pair(a[i]) # Pair(b[j])
    BY <1>11 DEF Held
  <2> SUFFICES ASSUME NEW i \in DOMAIN ab, NEW j \in DOMAIN ab, Pair(ab[i]) = Pair(ab[j]) PROVE i = j
    BY Zenon DEF Apart
  <2>2. CASE i \in DOMAIN a
    <3>1. ab[i] = a[i]
      BY <1>3, <2>2, Zenon
    <3>2. CASE j \in DOMAIN a
      BY <1>3, <1>11, <2>2, <3>1, <3>2, Zenon DEF Apart
    <3>3. ASSUME NEW y \in DOMAIN b, ab[j] = b[y] PROVE FALSE
      BY <2>1, <2>2, <3>1, <3>3, Zenon
    <3> QED BY <1>5, <3>2, <3>3, Zenon
  <2>3. ASSUME NEW x \in DOMAIN b, i = m + x PROVE i = j
    <3>1. CASE j \in DOMAIN a
      BY <1>3, <1>4, <2>1, <2>3, <3>1, Zenon
    <3>2. ASSUME NEW y \in DOMAIN b, j = m + y PROVE i = j
      BY <1>4, <1>11, <2>3, <3>2, Zenon DEF Apart
    <3> QED BY <1>5, <3>1, <3>2, Zenon
  <2> QED BY <1>5, <2>2, <2>3, Zenon
<1> QED BY <1>2, <1>8, <1>9, <1>10, <1>11, Zenon DEF Split

(* One thread, and none. *)
LEMMA ConcatOne ==
    ASSUME NEW t \in Thread
    PROVE  <<t>> \in Seq(Thread) /\ Held(<<t>>) = {Pair(t)} /\ Apart(<<t>>) /\ (Calm(<<t>>) <=> t.pc # "panicked")
<1>0. <<t>> \in Seq(Thread) /\ DOMAIN <<t>> = {1} /\ <<t>>[1] = t
  OBVIOUS
<1>1. PICK s \in Seq(Thread) : s = <<t>> /\ DOMAIN s = {1} /\ s[1] = t
  BY <1>0, Zenon
<1>2. Held(s) = {Pair(t)}
  BY <1>1 DEF Held
<1>3. Apart(s) /\ (Calm(s) <=> t.pc # "panicked")
  BY <1>1, Zenon DEF Apart, Calm
<1> QED BY <1>1, <1>2, <1>3, Zenon

(* No threads hold nothing. *)
LEMMA ConcatNone == << >> \in Seq(Thread) /\ Held(<< >>) = {} /\ Apart(<< >>) /\ Calm(<< >>)
<1>0. << >> \in Seq(Thread) /\ DOMAIN << >> = {}
  OBVIOUS
<1>1. PICK s \in Seq(Thread) : s = << >> /\ DOMAIN s = {}
  BY <1>0, Zenon
<1>2. Held(s) = {}
  BY <1>1 DEF Held
<1>3. Apart(s) /\ Calm(s)
  BY <1>1, Zenon DEF Apart, Calm
<1> QED BY <1>1, <1>2, <1>3, Zenon

(* The first thread of a sequence. *)
LEMMA HeadSplit ==
    ASSUME NEW s \in Seq(Thread), s # << >>
    PROVE  Head(s) \in Thread /\ Tail(s) \in Seq(Thread) /\ s = <<Head(s)>> \o Tail(s)
           /\ (Tail(s) = << >> <=> Len(s) = 1)
<1>1. Head(s) \in Thread /\ Tail(s) \in Seq(Thread) /\ Len(Tail(s)) = Len(s) - 1 /\ Len(s) \in Nat \ {0}
  OBVIOUS
<1>2. Tail(s) = << >> <=> Len(Tail(s)) = 0
  BY <1>1, EmptySeq
<1>3. PICK w : w = <<Head(s)>> \o Tail(s)
  BY Zenon
<1>4. w \in Seq(Thread) /\ Len(w) = Len(s) /\ \A i \in 1 .. Len(s) : w[i] = s[i]
  BY <1>1, <1>3
<1>5. w = s
  BY <1>4, SeqEqual
<1> QED BY <1>1, <1>2, <1>3, <1>5

-----------------------------------------------------------------------------
(* Threads a, b and c own the oracles that the pools ps lack; p panics so  *)
(* far.                                                                    *)
Owned(a, b, c, ps, n, p) ==
    /\ a \in Seq(Thread) /\ b \in Seq(Thread) /\ c \in Seq(Thread)
    /\ Apart(a) /\ Apart(b) /\ Apart(c)
    /\ Held(a) \cap Held(b) = {} /\ Held(a) \cap Held(c) = {} /\ Held(b) \cap Held(c) = {}
    /\ Sound(Held(a) \cup Held(b) \cup Held(c), ps, n)
    /\ p = 0 => /\ NoneLost(Held(a) \cup Held(b) \cup Held(c), ps)
                /\ Calm(a) /\ Calm(b) /\ Calm(c)

(* The inductive invariant of the thread pool. *)
PoolInv == /\ Owned(threads, leaving, detached, pools, next_id, panics)
           /\ next_id \in Nat /\ panics \in Nat
           /\ (leaving # << >>) = (pc \in {"join", "drop", "drop_unwind"})

(* Nothing runs at first. *)
LEMMA PoolInit == ASSUME Init PROVE PoolInv
<1>1. next_id \in Nat /\ panics \in Nat /\ (leaving # << >>) = (pc \in {"join", "drop", "drop_unwind"})
  BY DEF Init
<1>2. DOMAIN pools = Group /\ \A g \in Group : DOMAIN pools[g] = {}
  BY DEF Init, EmptyPool
<1>3. threads = << >> /\ leaving = << >> /\ detached = << >> /\ {} \cup {} \cup {} = {} /\ {} \cap {} = {}
  BY DEF Init
<1>4. Sound({}, pools, next_id) /\ NoneLost({}, pools)
  BY <1>2, Zenon DEF Sound, PoolsOK, HeldOK, NoneLost
<1>5. Owned(threads, leaving, detached, pools, next_id, panics)
  BY <1>3, <1>4, ConcatNone, Zenon DEF Owned
<1> QED BY <1>1, <1>5 DEF PoolInv

(* t is s with some progress: the threads hold what they held. *)
Stepped(s, t, p) == /\ t \in Seq(Thread) /\ DOMAIN t = DOMAIN s /\ \A i \in DOMAIN s : Pair(t[i]) = Pair(s[i])
                    /\ p = 0 /\ Calm(s) => Calm(t)

(* Threads that do nothing have made that much progress. *)
LEMMA SteppedSelf == ASSUME NEW s \in Seq(Thread), NEW p PROVE Stepped(s, s, p)
BY Zenon DEF Stepped

(* Progress changes neither what is held nor that it is held apart. *)
LEMMA SteppedHeld ==
    ASSUME NEW s, NEW t, NEW p, Stepped(s, t, p)
    PROVE  Held(t) = Held(s) /\ (Apart(s) => Apart(t))
<1>1. Held(t) = Held(s)
  BY DEF Stepped, Held
<1>2. Apart(s) => Apart(t)
  BY Zenon DEF Stepped, Apart
<1> QED BY <1>1, <1>2

(* The progress of threads leaves the ownership alone. *)
LEMMA SteppedKeeps ==
    ASSUME NEW a, NEW b, NEW c, NEW ps, NEW n, NEW p, Owned(a, b, c, ps, n, p),
           NEW x, NEW y, NEW z, NEW q, q = 0 => p = 0, Stepped(a, x, q), Stepped(b, y, q), Stepped(c, z, q)
    PROVE  Owned(x, y, z, ps, n, q)
<1>1. Held(x) = Held(a) /\ Held(y) = Held(b) /\ Held(z) = Held(c)
  BY SteppedHeld, Zenon
<1>2. Apart(x) /\ Apart(y) /\ Apart(z)
  BY SteppedHeld, Zenon DEF Owned
<1>3. x \in Seq(Thread) /\ y \in Seq(Thread) /\ z \in Seq(Thread)
  BY Zenon DEF Stepped
<1>4. q = 0 => Calm(x) /\ Calm(y) /\ Calm(z)
  BY Zenon DEF Owned, Stepped
<1> QED BY <1>1, <1>2, <1>3, <1>4, Zenon DEF Owned

(* One thread goes on to c. *)
LEMMA OneSteps ==
    ASSUME NEW s \in Seq(Thread), NEW t, NEW i \in DOMAIN s, NEW c \in {"check", "work", "stopped", "panicked"},
           t = [s EXCEPT ![i] = [s[i] EXCEPT !.pc = c]], NEW p, c = "panicked" => p # 0
    PROVE  Stepped(s, t, p)
<1>1. s[i] \in Thread
  OBVIOUS
<1>2. PICK x : x = [s[i] EXCEPT !.pc = c]
  BY Zenon
<1>3. x \in Thread /\ x.oracle = s[i].oracle /\ x.group = s[i].group /\ x.pc = c
  BY <1>1, <1>2 DEF Thread
<1>4. t = [s EXCEPT ![i] = x]
  BY <1>2, Zenon
<1>5. t \in Seq(Thread) /\ DOMAIN t = DOMAIN s /\ t[i] = x /\ \A j \in DOMAIN s \ {i} : t[j] = s[j]
  BY <1>3, <1>4
<1>6. \A j \in DOMAIN s : Pair(t[j]) = Pair(s[j]) /\ (t[j].pc = s[j].pc \/ t[j].pc = c)
  BY <1>3, <1>5, Zenon DEF Pair
<1> QED BY <1>5, <1>6, Zenon DEF Stepped, Calm

(* A worker tests thread_active, or its work returns. *)
LEMMA WorkerSteps ==
    ASSUME NEW s \in Seq(Thread), NEW t, NEW p, NEW i \in DOMAIN s,
           t = [s EXCEPT ![i] = Check(s[i])] \/ t = [s EXCEPT ![i] = Work(s[i])]
    PROVE  Stepped(s, t, p)
<1>1. CASE t = [s EXCEPT ![i] = Check(s[i])]
  <2>1. PICK c \in {"check", "work", "stopped", "panicked"} :
           c = (IF s[i].active THEN "work" ELSE "stopped") /\ c # "panicked"
    OBVIOUS
  <2>2. t = [s EXCEPT ![i] = [s[i] EXCEPT !.pc = c]]
    BY <1>1, <2>1, Zenon DEF Check
  <2> QED BY <2>1, <2>2, OneSteps, Zenon
<1>2. CASE t = [s EXCEPT ![i] = Work(s[i])]
  <2>1. t = [s EXCEPT ![i] = [s[i] EXCEPT !.pc = "check"]]
    BY <1>2, Zenon DEF Work
  <2>2. "check" \in {"check", "work", "stopped", "panicked"} /\ "check" # "panicked"
    OBVIOUS
  <2> QED BY <2>1, <2>2, OneSteps, Zenon
<1> QED BY <1>1, <1>2

(* The work of a thread panics. *)
LEMMA PanicSteps ==
    ASSUME NEW s \in Seq(Thread), NEW t, NEW p, p # 0, NEW i \in DOMAIN s, t = [s EXCEPT ![i].pc = "panicked"]
    PROVE  Stepped(s, t, p)
<1>1. t = [s EXCEPT ![i] = [s[i] EXCEPT !.pc = "panicked"]]
  OBVIOUS
<1>2. "panicked" \in {"check", "work", "stopped", "panicked"}
  OBVIOUS
<1> QED BY <1>1, <1>2, OneSteps, Zenon

(* The threads that are told to stop keep their oracles. *)
LEMMA DeactivateSteps ==
    ASSUME NEW s \in Seq(Thread), NEW p
    PROVE  Stepped(s, Deactivate(s), p)
<1>1. PICK t : t = Deactivate(s)
  BY Zenon
<1>2. DOMAIN t = DOMAIN s /\ \A i \in DOMAIN s : t[i] = [s[i] EXCEPT !.active = FALSE]
  BY <1>1 DEF Deactivate
<1>3. ASSUME NEW i \in DOMAIN s
      PROVE  t[i] \in Thread /\ t[i].oracle = s[i].oracle /\ t[i].group = s[i].group /\ t[i].pc = s[i].pc
  <2>1. s[i] \in Thread /\ t[i] = [s[i] EXCEPT !.active = FALSE]
    BY <1>2
  <2> QED BY <2>1 DEF Thread
<1>4. t \in [1 .. Len(s) -> Thread] /\ Len(s) \in Nat
  BY <1>1, <1>2, <1>3 DEF Deactivate
<1>5. t \in Seq(Thread)
  BY <1>4
<1> QED BY <1>1, <1>2, <1>3, <1>5, Zenon DEF Stepped, Pair, Calm

(* The steps of the workers. *)
LEMMA WorkersStep ==
    ASSUME PoolInv, RunThreads \/ RunLeaving \/ RunDetached \/ Panic
    PROVE  PoolInv'
<1>0. threads \in Seq(Thread) /\ leaving \in Seq(Thread) /\ detached \in Seq(Thread) /\ panics \in Nat
  BY Zenon DEF PoolInv, Owned
<1>1. UNCHANGED <<pools, next_id, pc>>
  BY DEF RunThreads, RunLeaving, RunDetached, Panic, Others
<1>2. panics' \in Nat /\ (panics' = 0 => panics = 0)
  BY <1>0 DEF RunThreads, RunLeaving, RunDetached, Panic, WorkPanics
<1>3. ASSUME NEW s \in Seq(Thread), NEW t, \E i \in DOMAIN s : \/ t = [s EXCEPT ![i] = Check(s[i])]
                                                               \/ t = [s EXCEPT ![i] = Work(s[i])]
      PROVE  Stepped(s, t, panics')
  BY <1>3, WorkerSteps, Zenon
<1>4. ASSUME NEW s \in Seq(Thread), NEW t, panics' # 0, \E i \in DOMAIN s : t = [s EXCEPT ![i].pc = "panicked"]
      PROVE  Stepped(s, t, panics')
  BY <1>4, PanicSteps, Zenon
<1>5. Panic => panics' # 0
  BY <1>0 DEF Panic, WorkPanics
<1>6. /\ Stepped(threads, threads', panics') /\ Stepped(leaving, leaving', panics')
      /\ Stepped(detached, detached', panics')
  <2>1. CASE RunThreads
    <3>1. leaving' = leaving /\ detached' = detached
      BY <2>1 DEF RunThreads
    <3> QED BY <1>0, <1>3, <2>1, <3>1, SteppedSelf, Zenon DEF RunThreads, WorkerStep
  <2>2. CASE RunLeaving
    <3>1. threads' = threads /\ detached' = detached
      BY <2>2 DEF RunLeaving
    <3> QED BY <1>0, <1>3, <2>2, <3>1, SteppedSelf, Zenon DEF RunLeaving, WorkerStep
  <2>3. CASE RunDetached
    <3>1. threads' = threads /\ leaving' = leaving
      BY <2>3 DEF RunDetached
    <3> QED BY <1>0, <1>3, <2>3, <3>1, SteppedSelf, Zenon DEF RunDetached, WorkerStep
  <2>4. CASE WorkPanics(threads) /\ UNCHANGED <<leaving, detached, Others>>
    <3>1. leaving' = leaving /\ detached' = detached /\ panics' # 0
      BY <1>0, <2>4 DEF WorkPanics
    <3>2. \E i \in DOMAIN threads : threads' = [threads EXCEPT ![i].pc = "panicked"]
      BY <2>4 DEF WorkPanics
    <3> QED BY <1>0, <1>4, <3>1, <3>2, SteppedSelf, Zenon
  <2>5. CASE WorkPanics(leaving) /\ UNCHANGED <<threads, detached, Others>>
    <3>1. threads' = threads /\ detached' = detached /\ panics' # 0
      BY <1>0, <2>5 DEF WorkPanics
    <3>2. \E i \in DOMAIN leaving : leaving' = [leaving EXCEPT ![i].pc = "panicked"]
      BY <2>5 DEF WorkPanics
    <3> QED BY <1>0, <1>4, <3>1, <3>2, SteppedSelf, Zenon
  <2>6. CASE WorkPanics(detached) /\ UNCHANGED <<threads, leaving, Others>>
    <3>1. threads' = threads /\ leaving' = leaving /\ panics' # 0
      BY <1>0, <2>6 DEF WorkPanics
    <3>2. \E i \in DOMAIN detached : detached' = [detached EXCEPT ![i].pc = "panicked"]
      BY <2>6 DEF WorkPanics
    <3> QED BY <1>0, <1>4, <3>1, <3>2, SteppedSelf, Zenon
  <2> QED BY <2>1, <2>2, <2>3, <2>4, <2>5, <2>6, Zenon DEF Panic
<1>7. Owned(threads', leaving', detached', pools', next_id', panics')
  <2>1. Owned(threads', leaving', detached', pools, next_id, panics')
    BY <1>2, <1>6, SteppedKeeps, Zenon DEF PoolInv
  <2> QED BY <1>1, <2>1
<1>8. (leaving' # << >>) = (leaving # << >>)
  <2>1. leaving' \in Seq(Thread) /\ DOMAIN leaving' = DOMAIN leaving
    BY <1>6, Zenon DEF Stepped
  <2>2. leaving = << >> <=> DOMAIN leaving = {}
    BY <1>0
  <2>3. leaving' = << >> <=> DOMAIN leaving' = {}
    BY <2>1
  <2> QED BY <2>1, <2>2, <2>3, Zenon
<1> QED BY <1>1, <1>2, <1>7, <1>8 DEF PoolInv

-----------------------------------------------------------------------------
(* The threads after the first x leave the pool, told to stop. *)
LEMMA DrainKeeps ==
    ASSUME NEW a, NEW c, NEW ps, NEW n, NEW p, Owned(a, << >>, c, ps, n, p),
           NEW x \in Seq(Thread), NEW y \in Seq(Thread), a = x \o y
    PROVE  Owned(x, Deactivate(y), c, ps, n, p)
<1>1. Split(x, y, a)
  BY Concat, Zenon
<1>2. /\ Held(a) = Held(x) \cup Held(y) /\ Held(x) \cap Held(y) = {} /\ Apart(x) /\ Apart(y)
      /\ Calm(a) => Calm(x) /\ Calm(y)
  BY <1>1, Zenon DEF Split, Owned
<1>3. /\ Held(a) \cup Held(<< >>) \cup Held(c) = Held(x) \cup Held(y) \cup Held(c)
      /\ Held(x) \cap Held(c) = {} /\ Held(y) \cap Held(c) = {}
  <2>1. Held(a) \cap Held(c) = {} /\ Held(<< >>) = {}
    BY ConcatNone, Zenon DEF Owned
  <2> QED BY <1>2, <2>1
<1>4. Owned(x, y, c, ps, n, p)
  BY <1>2, <1>3, Zenon DEF Owned
<1>5. Stepped(x, x, p) /\ Stepped(y, Deactivate(y), p) /\ Stepped(c, c, p)
  BY SteppedSelf, DeactivateSteps, Zenon DEF Owned
<1> QED BY <1>4, <1>5, SteppedKeeps, Zenon

(* Resize drains the last threads, or has nothing to drain. *)
LEMMA ResizeStep ==
    ASSUME PoolInv, NEW n \in 0 .. MaxThreads, Resize(n)
    PROVE  PoolInv'
<1>0. threads \in Seq(Thread) /\ leaving = << >> /\ UNCHANGED <<detached, pools, next_id, panics>>
  BY DEF PoolInv, Owned, Resize
<1>1. CASE n < Len(threads)
  <2>1. /\ leaving' = Drain(n) /\ threads' = SubSeq(threads, 1, n) /\ pc' = "join"
    BY <1>1 DEF Resize
  <2>2. PICK x \in Seq(Thread), y \in Seq(Thread) :
           /\ x = SubSeq(threads, 1, n) /\ y = SubSeq(threads, n + 1, Len(threads)) /\ threads = x \o y
           /\ Len(x) = n /\ Len(y) = Len(threads) - n
    <3>1. SubSeq(threads, 1, n) \in Seq(Thread) /\ Len(SubSeq(threads, 1, n)) = n
      BY <1>0, <1>1
    <3>2. /\ SubSeq(threads, n + 1, Len(threads)) \in Seq(Thread)
          /\ Len(SubSeq(threads, n + 1, Len(threads))) = Len(threads) - n
      BY <1>0, <1>1
    <3>3. SubSeq(threads, 1, n) \o SubSeq(threads, n + 1, Len(threads)) = threads
      <4>1. 1 \in 1 .. Len(threads) + 1 /\ n \in (1 - 1) .. Len(threads) /\ Len(threads) \in n .. Len(threads)
        BY <1>0, <1>1
      <4>2. SubSeq(threads, 1, n) \o SubSeq(threads, n + 1, Len(threads)) = SubSeq(threads, 1, Len(threads))
        BY <1>0, <4>1, ConcatAdjacentSubSeq, Zenon
      <4> QED BY <1>0, <4>2, SubSeqFull, Zenon
    <3> QED BY <3>1, <3>2, <3>3, Zenon
  <2>3. Owned(x, Deactivate(y), detached, pools, next_id, panics)
    BY <1>0, <2>2, DrainKeeps, Zenon DEF PoolInv
  <2>4. leaving' # << >>
    <3>0. Len(y) = Len(threads) - n
      BY <2>2, Zenon
    <3>1. Len(y) > 0 /\ Len(y) \in Nat /\ DOMAIN y = 1 .. Len(y)
      BY <1>1, <3>0
    <3>2. 1 \in DOMAIN y /\ DOMAIN Deactivate(y) = DOMAIN y /\ DOMAIN << >> = {}
      BY <3>1 DEF Deactivate
    <3> QED BY <2>1, <2>2, <3>2, Zenon DEF Drain
  <2>5. Owned(threads', leaving', detached', pools', next_id', panics')
    BY <1>0, <2>1, <2>2, <2>3 DEF Drain
  <2> QED BY <1>0, <2>1, <2>4, <2>5 DEF PoolInv
<1>2. CASE ~ (n < Len(threads))
  <2>1. UNCHANGED <<threads, leaving>> /\ pc' \in {"idle", "grow"}
    BY <1>2 DEF Resize
  <2> QED BY <1>0, <2>1 DEF PoolInv
<1> QED BY <1>1, <1>2

(* Drop drains all threads. *)
LEMMA DropStep ==
    ASSUME PoolInv, Drop
    PROVE  PoolInv'
<1>0. threads \in Seq(Thread) /\ leaving = << >> /\ UNCHANGED <<detached, pools, next_id, panics>>
  BY DEF PoolInv, Owned, Drop
<1>1. leaving' = Deactivate(threads) /\ threads' = << >>
  BY DEF Drop
<1>2. threads = << >> \o threads /\ << >> \in Seq(Thread)
  BY <1>0
<1>3. Owned(<< >>, Deactivate(threads), detached, pools, next_id, panics)
  BY <1>0, <1>2, DrainKeeps, Zenon DEF PoolInv
<1>4. (leaving' # << >>) = (threads # << >>)
  <2>1. Stepped(threads, leaving', panics)
    BY <1>0, <1>1, DeactivateSteps, Zenon
  <2>2. leaving' \in Seq(Thread) /\ DOMAIN leaving' = DOMAIN threads
    BY <2>1, Zenon DEF Stepped
  <2>3. threads = << >> <=> DOMAIN threads = {}
    BY <1>0
  <2>4. leaving' = << >> <=> DOMAIN leaving' = {}
    BY <2>2
  <2> QED BY <2>2, <2>3, <2>4, Zenon
<1>5. (pc' \in {"join", "drop", "drop_unwind"}) = (threads # << >>)
  BY DEF Drop
<1>6. Owned(threads', leaving', detached', pools', next_id', panics')
  BY <1>0, <1>1, <1>3
<1> QED BY <1>0, <1>4, <1>5, <1>6 DEF PoolInv

(* A thread is joined and its oracle released. *)
LEMMA ReleasedKeeps ==
    ASSUME NEW a, NEW b, NEW c, NEW ps, NEW n \in Nat, NEW p, Owned(a, b, c, ps, n, p),
           NEW t \in Thread, NEW y \in Seq(Thread), b = <<t>> \o y,
           NEW qs, qs = [ps EXCEPT ![t.group] = Release(ps[t.group], t.oracle)]
    PROVE  Owned(a, y, c, qs, n, p)
<1>1. Split(<<t>>, y, b) /\ <<t>> \in Seq(Thread) /\ Held(<<t>>) = {Pair(t)}
  BY Concat, ConcatOne, Zenon
<1>2. Held(b) = {Pair(t)} \cup Held(y) /\ {Pair(t)} \cap Held(y) = {} /\ Apart(y) /\ (Calm(b) => Calm(y))
  BY <1>1, Zenon DEF Split, Owned
<1>3. Held(a) \cap Held(b) = {} /\ Held(a) \cap Held(c) = {} /\ Held(b) \cap Held(c) = {}
  BY Zenon DEF Owned
<1>4. PICK H : H = Held(a) \cup Held(b) \cup Held(c)
  BY Zenon
<1>5. Pair(t) \in H /\ H \ {Pair(t)} = Held(a) \cup Held(y) \cup Held(c)
  BY <1>2, <1>3, <1>4
<1>6. Held(a) \cap Held(y) = {} /\ Held(y) \cap Held(c) = {}
  BY <1>2, <1>3
<1>7. Kept(H, ps, H \ {Pair(t)}, qs, n)
  <2>1. Sound(H, ps, n)
    BY <1>4, Zenon DEF Owned
  <2>2. PICK o, g : o = t.oracle /\ g = t.group
    BY Zenon
  <2>3. <<o, g>> \in H /\ qs = [ps EXCEPT ![g] = Release(ps[g], o)]
    BY <1>5, <2>2, Zenon DEF Pair
  <2>4. Kept(H, ps, H \ {<<o, g>>}, qs, n)
    BY <2>1, <2>3, ReleaseKeeps, Zenon
  <2> QED BY <2>2, <2>4, Zenon DEF Pair
<1>8. p = 0 => Calm(a) /\ Calm(y) /\ Calm(c) /\ NoneLost(H, ps)
  BY <1>2, <1>4, Zenon DEF Owned
<1>9. Sound(Held(a) \cup Held(y) \cup Held(c), qs, n) /\ (p = 0 => NoneLost(Held(a) \cup Held(y) \cup Held(c), qs))
  BY <1>5, <1>7, <1>8, Zenon DEF Kept
<1> QED BY <1>2, <1>3, <1>6, <1>8, <1>9, Zenon DEF Owned

(* After a panic the threads z of b and c may be left, the others lost. *)
LEMMA LoseKeeps ==
    ASSUME NEW a, NEW b, NEW c, NEW ps, NEW n, NEW p, p # 0, Owned(a, b, c, ps, n, p),
           NEW z \in Seq(Thread), Apart(z), Held(z) \in SUBSET (Held(b) \cup Held(c))
    PROVE  Owned(a, << >>, z, ps, n, p)
<1>1. Held(a) \cap Held(b) = {} /\ Held(a) \cap Held(c) = {}
  BY Zenon DEF Owned
<1>2. Held(a) \cap Held(z) = {} /\ Held(a) \cap {} = {} /\ {} \cap Held(z) = {}
  BY <1>1
<1>3. Held(a) \cup {} \cup Held(z) \in SUBSET (Held(a) \cup Held(b) \cup Held(c))
  OBVIOUS
<1>4. Sound(Held(a) \cup {} \cup Held(z), ps, n)
  <2>1. ASSUME NEW H, NEW K \in SUBSET H, Sound(H, ps, n) PROVE Sound(K, ps, n)
    BY <2>1, Zenon DEF Sound, HeldOK
  <2> QED BY <1>3, <2>1, Zenon DEF Owned
<1> QED BY <1>2, <1>4, ConcatNone, Zenon DEF Owned

(* The first thread that leaves is joined. *)
LEMMA JoinStep ==
    ASSUME PoolInv, Join \/ JoinDropped
    PROVE  PoolInv'
<1>1. leaving # << >> /\ leaving \in Seq(Thread) /\ detached \in Seq(Thread) /\ pc \in {"join", "drop", "drop_unwind"}
  BY DEF PoolInv, Join, JoinDropped, Owned
<1>2. UNCHANGED <<threads, next_id, panics>>
  BY DEF Join, JoinDropped
<1>3. PICK t \in Thread, y \in Seq(Thread) : /\ t = Head(leaving) /\ y = Tail(leaving) /\ leaving = <<t>> \o y
                                             /\ y = << >> <=> Len(leaving) = 1
  BY <1>1, HeadSplit, Zenon
<1>4. Owned(threads, leaving, detached, pools, next_id, panics) /\ next_id \in Nat /\ panics \in Nat
  BY Zenon DEF PoolInv
<1>5. Split(<<t>>, y, leaving)
  BY <1>3, Concat, ConcatOne, Zenon
<1>6. CASE t.pc = "panicked"
  <2>1. leaving' = << >> /\ pc' \notin {"join", "drop", "drop_unwind"} /\ pools' = pools
    BY <1>3, <1>6 DEF Join, JoinDropped
  <2>2. detached' = detached \o y \/ detached' = << >>
    BY <1>3, <1>6 DEF Join, JoinDropped
  <2>3. panics # 0
    BY <1>4, <1>5, <1>6, ConcatOne, Zenon DEF Owned, Split
  <2>4. /\ detached' \in Seq(Thread) /\ Apart(detached')
        /\ Held(detached') \in SUBSET (Held(leaving) \cup Held(detached))
    <3>1. CASE detached' = << >>
      BY <3>1, ConcatNone
    <3>2. CASE detached' = detached \o y
      <4>1. Split(detached, y, detached')
        BY <1>1, <1>3, <3>2, Concat, Zenon
      <4>2. /\ Apart(y) /\ Apart(detached) /\ Held(leaving) \cap Held(detached) = {}
            /\ Held(leaving) = Held(<<t>>) \cup Held(y)
        BY <1>4, <1>5, Zenon DEF Owned, Split
      <4>3. Held(detached) \cap Held(y) = {}
        BY <4>2
      <4>4. detached' \in Seq(Thread) /\ Apart(detached') /\ Held(detached') = Held(detached) \cup Held(y)
        BY <4>1, <4>2, <4>3, Zenon DEF Split
      <4> QED BY <4>2, <4>4
    <3> QED BY <2>2, <3>1, <3>2
  <2>5. Owned(threads, << >>, detached', pools, next_id, panics)
    BY <1>4, <2>3, <2>4, LoseKeeps, Zenon
  <2> QED BY <1>2, <1>4, <2>1, <2>5 DEF PoolInv
<1>7. CASE t.pc # "panicked"
  <2>1. leaving' = y /\ pools' = ReleaseOf(t) /\ detached' = detached
    BY <1>3, <1>7 DEF Join, JoinDropped
  <2>2. (leaving' # << >>) = (Len(leaving) # 1)
    BY <1>3, <2>1, Zenon
  <2>3. (pc' \in {"join", "drop", "drop_unwind"}) = (Len(leaving) # 1)
    BY <1>1, <1>3, <1>7 DEF Join, JoinDropped
  <2>4. pools' = [pools EXCEPT ![t.group] = Release(pools[t.group], t.oracle)]
    BY <2>1 DEF ReleaseOf
  <2>5. Owned(threads, y, detached, pools', next_id, panics)
    BY <1>3, <1>4, <2>4, ReleasedKeeps, Zenon
  <2> QED BY <1>2, <1>4, <2>1, <2>2, <2>3, <2>5 DEF PoolInv
<1> QED BY <1>6, <1>7

-----------------------------------------------------------------------------
(* A non-empty set of naturals has a least element. *)
LEMMA Smallest ==
    ASSUME NEW S \in SUBSET Nat, S # {}
    PROVE  \E n \in S : \A k \in S : n <= k
<1>1. PICK x \in S : \A y \in S : ~(<<y, x>> \in OpToRel(<, Nat))
  BY WFMin, NatLessThanWellFounded, Zenon
<1>2. \A y \in S : ~(y < x)
  BY Zenon, <1>1 DEF OpToRel
<1> QED BY <1>2

(* The next group exists. *)
LEMMA NextGroupExists ==
    ASSUME threads \in Seq(Thread)
    PROVE  NextGroup \in Group
<1>1. ASSUME NEW g \in Group PROVE ThreadsOf(g) \in Nat
  <2>1. IsFiniteSet(1 .. Len(threads))
    BY FS_Interval
  <2>2. {i \in DOMAIN threads : threads[i].group = g} \in SUBSET (1 .. Len(threads))
    OBVIOUS
  <2> QED BY <2>1, <2>2, FS_Subset, FS_CardinalityType DEF ThreadsOf
<1>2. Group \in SUBSET Nat /\ 0 \in Group
  BY PoolAssumption DEF Group
<1>3. PICK n \in {ThreadsOf(g) : g \in Group} : \A k \in {ThreadsOf(g) : g \in Group} : n <= k
  <2>1. {ThreadsOf(g) : g \in Group} \in SUBSET Nat /\ ThreadsOf(0) \in {ThreadsOf(g) : g \in Group}
    BY <1>1, <1>2, Zenon
  <2> QED BY <2>1, Smallest, Zenon
<1>4. n \in Nat /\ \A g \in Group : n <= ThreadsOf(g)
  BY <1>1, <1>3
<1>5. PICK g \in {h \in Group : ThreadsOf(h) = n} : \A k \in {h \in Group : ThreadsOf(h) = n} : g <= k
  <2>1. {h \in Group : ThreadsOf(h) = n} \in SUBSET Nat /\ {h \in Group : ThreadsOf(h) = n} # {}
    BY <1>2, <1>3
  <2> QED BY <2>1, Smallest, Zenon
<1>6. \A h \in Group : ThreadsOf(h) <= ThreadsOf(g) => ThreadsOf(h) = n
  BY <1>1, <1>4, <1>5
<1>7. (\A h \in Group : ThreadsOf(g) <= ThreadsOf(h)) /\ (\A h \in Group : ThreadsOf(h) <= ThreadsOf(g) => g <= h)
  BY <1>4, <1>5, <1>6, Zenon
<1> QED BY <1>5, <1>7, Zenon DEF NextGroup


(* What get takes, from a machine that runs or from a new one. *)
LEMMA GetKeeps ==
    ASSUME NEW ps, NEW n \in Nat, NEW H, Sound(H, ps, n),
           NEW g \in Group, NEW taken \in Get(ps[g], n), NEW qs, qs = [ps EXCEPT ![g] = taken.idle]
    PROVE  /\ Kept(H, ps, H \cup {<<taken.oracle, g>>}, qs, taken.next_id) /\ taken.next_id \in Nat
           /\ <<taken.oracle, g>> \notin H /\ taken.oracle \in Nat \X (1 .. NumOracles)
<1>1. CASE Choices(ps[g]) # {}
  <2>1. PICK key \in Choices(ps[g]) : taken = Pop(ps[g], key, n)
    BY <1>1, Zenon DEF Get
  <2>2. key \in DOMAIN ps[g] /\ Len(ps[g][key].oracles) > 0
    BY <2>1, Zenon DEF Choices
  <2>3. Popped(ps, g, key, n, qs, taken.oracle)
    BY <2>1, <2>2, Zenon DEF Popped
  <2>4. taken.next_id = n
    BY <2>1 DEF Pop
  <2> QED BY <2>3, <2>4, PopKeeps, Zenon
<1>2. CASE ~ (Choices(ps[g]) # {})
  <2>1. taken = Pop(WithMachine(ps[g], n), n, n + 1)
    BY <1>2, Zenon DEF Get
  <2>2. PICK ws : ws = [ps EXCEPT ![g] = WithMachine(ps[g], n)]
    BY Zenon
  <2>3. /\ Kept(H, ps, H, ws, n + 1)
        /\ n \in DOMAIN ws[g] /\ Len(ws[g][n].oracles) > 0
    BY <2>2, StartKeeps, Zenon
  <2>4. ws[g] = WithMachine(ps[g], n)
    BY <2>2 DEF Sound, PoolsOK
  <2>5. qs = [ws EXCEPT ![g] = Pop(ws[g], n, n + 1).idle]
    <3>1. PICK i : i = taken.idle
      BY Zenon
    <3>2. [ws EXCEPT ![g] = i] = [ps EXCEPT ![g] = i]
      BY <2>2 DEF Sound, PoolsOK
    <3> QED BY <2>1, <2>4, <3>1, <3>2, Zenon
  <2>6. Popped(ws, g, n, n + 1, qs, taken.oracle)
    BY <2>1, <2>3, <2>4, <2>5, Zenon DEF Popped
  <2>7. n + 1 \in Nat /\ taken.next_id = n + 1
    BY <2>1 DEF Pop
  <2>8. Sound(H, ws, n + 1)
    BY <2>3, Zenon DEF Kept
  <2>9. /\ Kept(H, ws, H \cup {<<taken.oracle, g>>}, qs, n + 1)
        /\ <<taken.oracle, g>> \notin H /\ taken.oracle \in Nat \X (1 .. NumOracles)
    BY <2>6, <2>7, <2>8, PopKeeps, Zenon
  <2> QED BY <2>3, <2>7, <2>9, Zenon DEF Kept
<1> QED BY <1>1, <1>2

(* A thread is spawned with the oracle that get takes. *)
LEMMA SpawnStep ==
    ASSUME PoolInv, Spawn
    PROVE  PoolInv'
<1>0. /\ Owned(threads, leaving, detached, pools, next_id, panics) /\ next_id \in Nat /\ panics \in Nat
      /\ threads \in Seq(Thread)
  BY Zenon DEF PoolInv, Owned
<1>1. PICK g \in Group : g = NextGroup
  BY <1>0, NextGroupExists, Zenon
<1>2. PICK taken \in Get(pools[g], next_id) :
         /\ pools' = [pools EXCEPT ![g] = taken.idle] /\ next_id' = taken.next_id
         /\ threads' = Append(threads, [group |-> g, active |-> TRUE, pc |-> "check", oracle |-> taken.oracle])
  BY <1>1, Zenon DEF Spawn
<1>3. UNCHANGED <<leaving, detached, panics>> /\ pc = "grow" /\ pc' \in {"idle", "grow"}
  BY DEF Spawn
<1>4. PICK t : t = [group |-> g, active |-> TRUE, pc |-> "check", oracle |-> taken.oracle]
  BY Zenon
<1>5. Pair(t) = <<taken.oracle, g>> /\ t.pc # "panicked"
  BY <1>4 DEF Pair
<1>6. PICK H : H = Held(threads) \cup Held(leaving) \cup Held(detached)
  BY Zenon
<1>7. /\ Kept(H, pools, H \cup {Pair(t)}, pools', next_id') /\ next_id' \in Nat
      /\ Pair(t) \notin H /\ taken.oracle \in Nat \X (1 .. NumOracles)
  <2>1. Sound(H, pools, next_id)
    BY <1>0, <1>6, Zenon DEF Owned
  <2>2. PICK qs : qs = pools'
    BY Zenon
  <2>3. /\ Kept(H, pools, H \cup {<<taken.oracle, g>>}, qs, taken.next_id) /\ taken.next_id \in Nat
        /\ <<taken.oracle, g>> \notin H /\ taken.oracle \in Nat \X (1 .. NumOracles)
    BY <1>0, <1>2, <2>1, <2>2, GetKeeps, Zenon
  <2> QED BY <1>2, <1>5, <2>2, <2>3, Zenon
<1>8. t \in Thread
  BY <1>1, <1>4, <1>7 DEF Thread
<1>9. Split(threads, <<t>>, threads') /\ Held(<<t>>) = {Pair(t)} /\ Apart(<<t>>) /\ Calm(<<t>>)
  <2>1. threads' = threads \o <<t>>
    BY <1>0, <1>2, <1>4, <1>8, AppendIsConcat
  <2> QED BY <1>0, <1>5, <1>8, <2>1, Concat, ConcatOne, Zenon
<1>10. /\ Held(threads) \cap {Pair(t)} = {} /\ Held(threads') = Held(threads) \cup {Pair(t)}
       /\ Held(threads') \cup Held(leaving) \cup Held(detached) = H \cup {Pair(t)}
  <2>1. Held(threads') = Held(threads) \cup {Pair(t)}
    BY <1>9, Zenon DEF Split
  <2> QED BY <1>6, <1>7, <2>1
<1>11. Held(threads') \cap Held(leaving) = {} /\ Held(threads') \cap Held(detached) = {}
  <2>1. Held(threads) \cap Held(leaving) = {} /\ Held(threads) \cap Held(detached) = {}
    BY <1>0, Zenon DEF Owned
  <2> QED BY <1>6, <1>7, <1>10, <2>1
<1>12. threads' \in Seq(Thread) /\ Apart(threads') /\ (panics = 0 => Calm(threads'))
  BY <1>0, <1>9, <1>10, Zenon DEF Owned, Split
<1>13. Owned(threads', leaving, detached, pools', next_id', panics)
  <2>1. Sound(H \cup {Pair(t)}, pools', next_id') /\ (panics = 0 => NoneLost(H \cup {Pair(t)}, pools'))
    BY <1>0, <1>6, <1>7, Zenon DEF Owned, Kept
  <2> QED BY <1>0, <1>10, <1>11, <1>12, <2>1, Zenon DEF Owned
<1> QED BY <1>0, <1>3, <1>7, <1>13 DEF PoolInv

(* The invariant of the oracle pools and their threads, for every number of *)
(* core groups, oracles, threads, resizes and panics.                      *)
THEOREM PoolInvariant == Spec => []PoolInv
<1>1. Init => PoolInv
  BY PoolInit
<1>2. PoolInv /\ [Next]_vars => PoolInv'
  <2> SUFFICES ASSUME PoolInv, [Next]_vars PROVE PoolInv'
    OBVIOUS
  <2>1. CASE UNCHANGED vars
    BY <2>1 DEF PoolInv, vars
  <2>2. CASE Next
    BY <2>2, ResizeStep, SpawnStep, JoinStep, DropStep, WorkersStep, Zenon DEF Next
  <2> QED BY <2>1, <2>2
<1> QED BY <1>1, <1>2, PTL DEF Spec

(* What the invariant says of all the threads. *)
LEMMA HoldersHold ==
    ASSUME PoolInv
    PROVE  /\ Apart(Holders) /\ Sound(Held(Holders), pools, next_id)
           /\ panics = 0 => NoneLost(Held(Holders), pools)
<1>1. PICK ab : ab = threads \o leaving
  BY Zenon
<1>2. Split(threads, leaving, ab)
  BY <1>1, Concat, Zenon DEF PoolInv, Owned
<1>3. ab \in Seq(Thread) /\ Apart(ab) /\ Held(ab) = Held(threads) \cup Held(leaving)
  BY <1>2, Zenon DEF PoolInv, Owned, Split
<1>4. Split(ab, detached, Holders)
  BY <1>1, <1>3, Concat, Zenon DEF PoolInv, Owned, Holders
<1>5. Held(ab) \cap Held(detached) = {}
  <2>1. Held(threads) \cap Held(detached) = {} /\ Held(leaving) \cap Held(detached) = {}
    BY Zenon DEF PoolInv, Owned
  <2> QED BY <1>3, <2>1
<1> QED BY <1>3, <1>4, <1>5, Zenon DEF PoolInv, Owned, Split

(* OraclePool::release finds the machine of every oracle it is given, and  *)
(* kills no machine that another thread still observes with.               *)
THEOREM ThreadsKeepTheirMachine == Spec => []MachineOutlivesThread
<1>1. PoolInv => MachineOutlivesThread
  <2> SUFFICES ASSUME PoolInv, NEW i \in DOMAIN Holders PROVE Belongs(pools[Holders[i].group], Holders[i].oracle)
    BY Zenon DEF MachineOutlivesThread
  <2>1. Pair(Holders[i]) \in Held(Holders)
    BY Zenon DEF Held
  <2>2. Pair(Holders[i])[1] = Holders[i].oracle /\ Pair(Holders[i])[2] = Holders[i].group
    BY DEF Pair
  <2> QED BY <2>1, <2>2, HoldersHold, Zenon DEF Sound, HeldOK, Belongs
<1> QED BY <1>1, PoolInvariant, PTL

(* get never hands out an oracle twice, and without a panic resize loses   *)
(* none of the oracles of a running machine.                               *)
THEOREM OraclesHaveOneOwner == Spec => []OneOwner
<1>1. PoolInv => OneOwner
  <2> SUFFICES ASSUME PoolInv PROVE OneOwner
    OBVIOUS
  <2>0. /\ PoolsOK(pools, next_id) /\ HeldOK(Held(Holders), pools) /\ Apart(Holders)
        /\ panics = 0 => NoneLost(Held(Holders), pools)
    BY HoldersHold, Zenon DEF Sound
  <2>1. ASSUME NEW i \in DOMAIN Holders
        PROVE  /\ Pair(Holders[i]) \in Held(Holders) /\ Holders[i].group \in Group
               /\ Holders[i].oracle[1] \in DOMAIN pools[Holders[i].group]
               /\ Holders[i].oracle \notin IdleOf(pools, Holders[i].group, Holders[i].oracle[1])
    <3>1. Pair(Holders[i]) \in Held(Holders)
      BY Zenon DEF Held
    <3>2. Pair(Holders[i])[1] = Holders[i].oracle /\ Pair(Holders[i])[2] = Holders[i].group
      BY DEF Pair
    <3>3. Pair(Holders[i])[2] \in Group
      BY <2>0, <3>1 DEF HeldOK, Hold
    <3> QED BY <2>0, <3>1, <3>2, <3>3, Zenon DEF HeldOK
  <2>2. ASSUME NEW i \in DOMAIN Holders, NEW j \in DOMAIN Holders, Holders[i].oracle = Holders[j].oracle PROVE i = j
    <3>1. Holders[i].group = Holders[j].group
      BY <2>0, <2>1, <2>2, Zenon DEF PoolsOK
    <3> QED BY <2>0, <2>2, <3>1, Zenon DEF Apart, Pair
  <2>3. ASSUME panics = 0, NEW g \in Group, NEW key \in DOMAIN pools[g], NEW k \in 1 .. NumOracles
        PROVE  Cardinality({j \in DOMAIN pools[g][key].oracles : pools[g][key].oracles[j] = <<key, k>>})
               + Cardinality({i \in DOMAIN Holders : Holders[i].oracle = <<key, k>>}) = 1
    <3> DEFINE idle == {j \in DOMAIN pools[g][key].oracles : pools[g][key].oracles[j] = <<key, k>>}
               held == {i \in DOMAIN Holders : Holders[i].oracle = <<key, k>>}
    <3>0. idle # {} <=> <<key, k>> \in IdleOf(pools, g, key)
      BY Zenon DEF IdleOf, Elements
    <3>1. idle # {} \/ held # {}
      <4>1. ASSUME <<<<key, k>>, g>> \in Held(Holders) PROVE held # {}
        <5>1. PICK i \in DOMAIN Holders : <<<<key, k>>, g>> = Pair(Holders[i])
          BY <4>1, Zenon DEF Held
        <5>2. Holders[i].oracle = <<key, k>>
          BY <5>1 DEF Pair
        <5> QED BY <5>2
      <4> QED BY <2>0, <2>3, <3>0, <4>1, Zenon DEF NoneLost
    <3>2. idle = {} \/ held = {}
      <4> SUFFICES ASSUME NEW i \in DOMAIN Holders, Holders[i].oracle = <<key, k>> PROVE idle = {}
        BY Zenon
      <4>1. Holders[i].oracle[1] = key
        OBVIOUS
      <4>2. Holders[i].group = g
        BY <2>0, <2>1, <2>3, <4>1, Zenon DEF PoolsOK
      <4> QED BY <2>1, <3>0, <4>1, <4>2, Zenon
    <3>3. \A a, b \in idle : a = b
      BY <2>0, <2>3, Zenon DEF PoolsOK, Distinct
    <3>4. \A a, b \in held : a = b
      BY <2>2, <2>3, Zenon
    <3> HIDE DEF idle, held
    <3>5. Cardinality({}) = 0
      BY FS_EmptySet
    <3>6. ASSUME NEW S, S # {}, \A a, b \in S : a = b PROVE Cardinality(S) = 1
      <4>1. PICK a : S = {a}
        BY <3>6
      <4> QED BY <4>1, FS_Singleton
    <3>7. Cardinality(idle) + Cardinality(held) = 1
      BY <3>1, <3>2, <3>3, <3>4, <3>5, <3>6
    <3> QED BY <3>7, Zenon DEF idle, held
  <2> QED BY <2>2, <2>3, Zenon DEF OneOwner
<1> QED BY <1>1, PoolInvariant, PTL
=============================================================================
