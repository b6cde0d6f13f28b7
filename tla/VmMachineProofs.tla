-------------------------- MODULE VmMachineProofs --------------------------
(***************************************************************************)
(* The layout of the shared memory is sound, the handshake of the start    *)
(* hands over initialised queues only, and an observed instruction sees    *)
(* the pages of its own command only: for every size of the memory, every  *)
(* usable number of queues and page tables of every size.                  *)
(***************************************************************************)
EXTENDS VmMachine, TLAPS

-----------------------------------------------------------------------------
(* The page tables of the client are a tree whose entries are all recorded *)
(* for clearing, and lead to the pages of the command only.                *)

Tables == [Table -> [Index -> Nat]]

(* The tables of level 2: those the level-3 table refers to. *)
Second(e) == {t \in Table \ {0} : \E i \in Index : e[0][i] = t}

(* The entries e, of which the first n tables of the pool are in use, form *)
(* a tree: no table is referred to twice or on two levels, and the tables  *)
(* that are not in use are empty.                                          *)
TreeShape(e, n) ==
    /\ \A i \in Index : e[0][i] \in 0 .. n
    /\ \A i, j \in Index : e[0][i] = e[0][j] /\ e[0][i] # 0 => i = j
    /\ \A t \in Second(e), i \in Index : e[t][i] \in 0 .. n /\ e[t][i] \notin Second(e)
    /\ \A t, u \in Second(e), i, j \in Index : e[t][i] = e[u][j] /\ e[t][i] # 0 => t = u /\ i = j
    /\ \A t \in 1 .. NumTables, i \in Index : t > n => e[t][i] = 0
    /\ \A t \in 1 .. NumTables, i \in Index : t \notin Second(e) => e[t][i] \in {0} \cup MappedFrame

(* Every entry that is set is among those to clear. *)
Recorded(e, c) == \A t \in Table, i \in Index : e[t][i] # 0 => \E k \in 1 .. Len(c) : c[k] = <<t, i>>

PageTree(e, n, c) ==
    /\ e \in Tables /\ n \in 0 .. NumTables /\ c \in Seq(Table \X Index)
    /\ TreeShape(e, n) /\ Recorded(e, c)

(* The tables lead from page to frame f. *)
Leads(e, page, f) == \E p2, p1 \in Table \ {0} : /\ e[0][page[1]] = p2
                                                 /\ e[p2][page[2]] = p1
                                                 /\ e[p1][page[3]] = f

(* Unless the mapper has panicked, the tables lead exactly to the frames   *)
(* of the command, and the translation buffer holds nothing else; it is    *)
(* empty between commands.                                                 *)
PagesInv ==
    /\ mapperPc \in {"map", "run", "panicked"}
    /\ mapperPc # "panicked" =>
          /\ PageTree(entries, next_unused, entries_to_clear)
          /\ wanted \subseteq Page \X MappedFrame
          /\ \A v, w \in wanted : v[1] = w[1] => v = w
          /\ \A page \in Page, f \in MappedFrame : Leads(entries, page, f) <=> <<page, f>> \in wanted
          /\ tlb \subseteq wanted
    /\ mapperPc = "map" => tlb = {}

MapperState == [entries : Tables, next : 0 .. NumTables, clear : Seq(Table \X Index), ok : BOOLEAN]
Tree(m) == m \in MapperState /\ PageTree(m.entries, m.next, m.clear)

(* Pages keep their frames. *)
SameLeads(e, d) == \A page \in Page, f \in MappedFrame : Leads(d, page, f) <=> Leads(e, page, f)

(* Only entry i of table t may differ. *)
OnlyAt(e, d, t, i) == \A u \in Table, j \in Index : u # t \/ j # i => d[u][j] = e[u][j]

(* What setting an entry changes. *)
EntrySet(m, r, t, i, v) ==
    /\ r \in MapperState /\ r.next = m.next /\ r.clear = Append(m.clear, <<t, i>>)
    /\ r.ok => m.ok
    /\ r.entries[t][i] = v
    /\ OnlyAt(m.entries, r.entries, t, i)

(* entry.set_frame and the push, for any entry. *)
LEMMA SetEntryIs ==
  ASSUME NEW m \in MapperState, NEW t \in Table, NEW i \in Index, NEW v \in Nat
  PROVE  EntrySet(m, SetEntry(m, t, i, v), t, i, v)
<1> DEFINE e == [m.entries EXCEPT ![t][i] = v]
<1>1. /\ e \in Tables /\ e[t][i] = v
      /\ \A u \in Table, j \in Index : u # t \/ j # i => e[u][j] = m.entries[u][j]
  BY DEF MapperState, Tables
<1>2. /\ Append(m.clear, <<t, i>>) \in Seq(Table \X Index)
      /\ (m.ok /\ Len(m.clear) < MaxEntries) \in BOOLEAN
  BY DEF MapperState
<1>3. SetEntry(m, t, i, v) = [entries |-> e, next |-> m.next, clear |-> Append(m.clear, <<t, i>>),
                              ok |-> m.ok /\ Len(m.clear) < MaxEntries]
  BY DEF SetEntry
<1> HIDE DEF e
<1>4. /\ SetEntry(m, t, i, v).entries = e /\ SetEntry(m, t, i, v).next = m.next
      /\ SetEntry(m, t, i, v).clear = Append(m.clear, <<t, i>>)
      /\ SetEntry(m, t, i, v).ok = (m.ok /\ Len(m.clear) < MaxEntries)
  BY <1>3 DEF MapperState
<1>5. SetEntry(m, t, i, v) \in MapperState
  BY <1>1, <1>2, <1>3 DEF MapperState
<1> QED BY <1>1, <1>4, <1>5, Zenon DEF EntrySet, OnlyAt

(* An entry that is set is recorded with the others. *)
LEMMA RecordedKept ==
  ASSUME NEW c \in Seq(Table \X Index), NEW t \in Table, NEW i \in Index, NEW e, NEW d, Recorded(e, c),
         OnlyAt(e, d, t, i)
  PROVE  Recorded(d, Append(c, <<t, i>>))
<1> DEFINE b == Append(c, <<t, i>>)
<1>1. /\ Len(c) \in Nat /\ Len(b) = Len(c) + 1 /\ b[Len(c) + 1] = <<t, i>>
      /\ \A k \in 1 .. Len(c) : b[k] = c[k]
  OBVIOUS
<1> HIDE DEF b
<1>2. ASSUME NEW u \in Table, NEW j \in Index, d[u][j] # 0
      PROVE  \E k \in 1 .. Len(b) : b[k] = <<u, j>>
  <2>1. CASE u = t /\ j = i
    BY <1>1, <2>1
  <2>2. CASE u # t \/ j # i
    <3>1. PICK k \in 1 .. Len(c) : c[k] = <<u, j>>
      BY <1>2, <2>2 DEF Recorded, OnlyAt
    <3> QED BY <1>1, <3>1
  <2> QED BY <2>1, <2>2
<1> QED BY <1>2 DEF Recorded, b

(* A table is there, or the next one of the pool is taken for it. *)
Grown(m, r, t, i) ==
    /\ m.entries[t][i] = 0 /\ m.next + 1 <= NumTables
    /\ r \in MapperState /\ r.next = m.next + 1 /\ r.clear = Append(m.clear, <<t, i>>)
    /\ r.entries[t][i] = m.next + 1
    /\ OnlyAt(m.entries, r.entries, t, i)

(* add_or_create_pt returns the table that is there or a new one. *)
LEMMA AddTableIs ==
  ASSUME NEW m \in MapperState, m.ok, NEW t \in Table, NEW i \in Index, AddOrCreateTable(m, t, i).ok
  PROVE  \/ m.entries[t][i] # 0 /\ AddOrCreateTable(m, t, i) = m
         \/ Grown(m, AddOrCreateTable(m, t, i), t, i)
<1>1. CASE m.entries[t][i] # 0
  BY <1>1 DEF AddOrCreateTable, Unused
<1>2. CASE m.entries[t][i] = 0
  <2>1. m.next < NumTables
    <3>1. SUFFICES ASSUME m.next >= NumTables PROVE FALSE
      BY MapperAssumption DEF MapperState
    <3>2. AddOrCreateTable(m, t, i) = [m EXCEPT !.ok = FALSE]
      BY <1>2, <3>1 DEF AddOrCreateTable, Unused
    <3> QED BY <3>2 DEF MapperState
  <2>2. AddOrCreateTable(m, t, i) = SetEntry([m EXCEPT !.next = m.next + 1], t, i, m.next + 1)
    BY <1>2, <2>1, MapperAssumption DEF AddOrCreateTable, Unused, MapperState
  <2> DEFINE g == [m EXCEPT !.next = m.next + 1]
  <2>3. m.next + 1 \in 0 .. NumTables
    BY <2>1, MapperAssumption DEF MapperState
  <2>4. g \in MapperState
    BY <2>3 DEF MapperState
  <2>5. g.entries = m.entries /\ g.clear = m.clear /\ g.next = m.next + 1
    BY <2>3 DEF MapperState
  <2> HIDE DEF g
  <2>6. /\ m.next + 1 \in Nat /\ m.next + 1 <= NumTables
        /\ AddOrCreateTable(m, t, i) = SetEntry(g, t, i, m.next + 1)
    BY <2>2, <2>3, MapperAssumption DEF g
  <2> DEFINE r == SetEntry(g, t, i, m.next + 1)
  <2>7. EntrySet(g, r, t, i, m.next + 1)
    BY <2>4, <2>6, SetEntryIs
  <2> HIDE DEF r
  <2>8. Grown(m, r, t, i)
    BY <1>2, <2>5, <2>6, <2>7 DEF Grown, EntrySet
  <2> QED BY <2>6, <2>8 DEF r
<1> QED BY <1>1, <1>2

(* A new table of level 2 is empty: the tables stay a tree, and no page    *)
(* gets or loses a frame.                                                  *)
LEMMA AddSecond ==
  ASSUME NEW m, Tree(m), m.ok, NEW i \in Index, AddOrCreateTable(m, 0, i).ok
  PROVE  LET r == AddOrCreateTable(m, 0, i)
         IN  Tree(r) /\ r.entries[0][i] \in Second(r.entries) /\ SameLeads(m.entries, r.entries)
<1>0. PICK r, e, d, n : r = AddOrCreateTable(m, 0, i) /\ e = m.entries /\ d = r.entries /\ n = m.next
  OBVIOUS
<1>1. /\ m \in MapperState /\ TreeShape(e, n) /\ 0 \in Table /\ n \in 0 .. NumTables /\ NumTables \in Nat
  BY <1>0, MapperAssumption DEF Tree, PageTree, Table
<1>2. CASE e[0][i] # 0 /\ r = m
  <2>1. e[0][i] \in Second(e)
    BY <1>1, <1>2 DEF TreeShape, Second, Table
  <2> QED BY <1>0, <1>2, <2>1 DEF SameLeads
<1>3. CASE Grown(m, r, 0, i)
  <2>1. /\ e[0][i] = 0 /\ n + 1 \in 1 .. NumTables /\ r \in MapperState /\ r.next = n + 1
        /\ r.clear = Append(m.clear, <<0, i>>) /\ d[0][i] = n + 1
        /\ \A j \in Index : j # i => d[0][j] = e[0][j]
        /\ \A u \in Table \ {0}, j \in Index : d[u][j] = e[u][j]
    BY <1>0, <1>1, <1>3 DEF Grown, OnlyAt
  <2>2. Recorded(d, r.clear)
    <3>1. Recorded(e, m.clear) /\ m.clear \in Seq(Table \X Index)
      BY <1>0 DEF Tree, PageTree
    <3>2. /\ OnlyAt(e, d, 0, i)
          /\ r.clear = Append(m.clear, <<0, i>>)
      BY <1>0, <1>3 DEF Grown
    <3>3. Recorded(d, Append(m.clear, <<0, i>>))
      BY <1>1, <3>1, <3>2, RecordedKept, Zenon
    <3> QED BY <3>2, <3>3
  <2>3. d \in Tables /\ r.clear \in Seq(Table \X Index) /\ n + 1 \in 0 .. NumTables
    BY <1>0, <1>1, <2>1 DEF MapperState
  <2>4. \A t : t \in Second(d) <=> t \in Second(e) \/ t = n + 1
    BY <1>1, <2>1 DEF Second, Table
  <2>5. n + 1 \notin Second(e) /\ \A j \in Index : d[n + 1][j] = 0
    BY <1>1, <2>1 DEF TreeShape, Second, Table
  <2>6. 0 \notin Second(d) /\ \A t \in Second(e) : t \in Table \ {0}
    BY DEF Second
  <2>7. TreeShape(d, n + 1)
    <3>1. \A j \in Index : d[0][j] \in 0 .. n + 1
      BY <1>1, <2>1 DEF TreeShape
    <3>2. \A j, k \in Index : d[0][j] = d[0][k] /\ d[0][j] # 0 => j = k
      BY <1>1, <2>1 DEF TreeShape
    <3>3. ASSUME NEW t \in Second(d), NEW j \in Index PROVE d[t][j] \in 0 .. n + 1 /\ d[t][j] \notin Second(d)
      <4>1. CASE t = n + 1
        BY <1>1, <2>5, <2>6, <4>1
      <4>2. CASE t \in Second(e)
        <5>1. d[t][j] = e[t][j] /\ e[t][j] \in 0 .. n /\ e[t][j] \notin Second(e)
          BY <1>1, <2>1, <2>6, <4>2 DEF TreeShape
        <5> QED BY <1>1, <2>4, <5>1
      <4> QED BY <2>4, <4>1, <4>2
    <3>4. \A t, u \in Second(d), j, k \in Index : d[t][j] = d[u][k] /\ d[t][j] # 0 => t = u /\ j = k
      BY <1>1, <2>1, <2>4, <2>5, <2>6 DEF TreeShape
    <3>5. \A t \in 1 .. NumTables, j \in Index : t > n + 1 => d[t][j] = 0
      BY <1>1, <2>1 DEF TreeShape, Table
    <3>6. \A t \in 1 .. NumTables, j \in Index : t \notin Second(d) => d[t][j] \in {0} \cup MappedFrame
      BY <1>1, <2>1, <2>4 DEF TreeShape, Table
    <3> QED BY <3>1, <3>2, <3>3, <3>4, <3>5, <3>6 DEF TreeShape
  <2>8. SameLeads(e, d)
    <3> SUFFICES ASSUME NEW page \in Page, NEW f \in MappedFrame PROVE Leads(d, page, f) <=> Leads(e, page, f)
      BY DEF SameLeads
    <3>1. page[1] \in Index /\ page[2] \in Index /\ page[3] \in Index
      BY DEF Page
    <3>2. CASE page[1] = i
      BY <1>1, <2>1, <2>5, <3>1, <3>2 DEF Leads
    <3>3. CASE page[1] # i
      BY <2>1, <3>1, <3>3 DEF Leads
    <3> QED BY <3>2, <3>3
  <2>9. Tree(r) /\ d[0][i] \in Second(d)
    BY <1>0, <2>1, <2>2, <2>3, <2>4, <2>7 DEF Tree, PageTree
  <2> QED BY <1>0, <2>8, <2>9
<1>4. \/ e[0][i] # 0 /\ r = m
      \/ Grown(m, r, 0, i)
  BY <1>0, <1>1, AddTableIs
<1> QED BY <1>2, <1>3, <1>4

(* So is a new table of level 1. *)
LEMMA AddFirst ==
  ASSUME NEW m, Tree(m), m.ok, NEW p \in Second(m.entries), NEW i \in Index, AddOrCreateTable(m, p, i).ok
  PROVE  LET r == AddOrCreateTable(m, p, i)
         IN  /\ Tree(r) /\ SameLeads(m.entries, r.entries)
             /\ \A j \in Index : r.entries[0][j] = m.entries[0][j]
             /\ p \in Second(r.entries) /\ r.entries[p][i] \in 1 .. r.next
<1>0. PICK r, e, d, n : r = AddOrCreateTable(m, p, i) /\ e = m.entries /\ d = r.entries /\ n = m.next
  OBVIOUS
<1>1. /\ m \in MapperState /\ TreeShape(e, n) /\ 0 \in Table /\ n \in 0 .. NumTables /\ NumTables \in Nat
      /\ p \in Table \ {0}
  BY <1>0, MapperAssumption DEF Tree, PageTree, Table, Second
<1>2. CASE e[p][i] # 0 /\ r = m
  <2>1. e[p][i] \in 1 .. n
    BY <1>0, <1>1, <1>2 DEF TreeShape
  <2> QED BY <1>0, <1>2, <2>1 DEF SameLeads
<1>3. CASE Grown(m, r, p, i)
  <2>1. /\ e[p][i] = 0 /\ n + 1 \in 1 .. NumTables /\ r \in MapperState /\ r.next = n + 1
        /\ d[p][i] = n + 1
        /\ \A j \in Index : d[0][j] = e[0][j]
        /\ \A u \in Table, j \in Index : u # p \/ j # i => d[u][j] = e[u][j]
    BY <1>0, <1>1, <1>3 DEF Grown, OnlyAt
  <2>2. Recorded(d, r.clear)
    <3>1. Recorded(e, m.clear) /\ m.clear \in Seq(Table \X Index)
      BY <1>0 DEF Tree, PageTree
    <3>2. OnlyAt(e, d, p, i) /\ r.clear = Append(m.clear, <<p, i>>)
      BY <1>0, <1>3 DEF Grown
    <3>3. Recorded(d, Append(m.clear, <<p, i>>))
      BY <1>1, <3>1, <3>2, RecordedKept, Zenon
    <3> QED BY <3>2, <3>3
  <2>3. d \in Tables /\ r.clear \in Seq(Table \X Index) /\ n + 1 \in 0 .. NumTables
    BY <1>0, <1>1, <2>1 DEF MapperState
  <2>4. p \in Second(e)
    BY <1>0
  <2>5. \A t : t \in Second(d) <=> t \in Second(e)
    BY <2>1 DEF Second
  <2>6. /\ n + 1 \notin Second(e) /\ n + 1 # p /\ \A j \in Index : e[n + 1][j] = 0
        /\ \A t \in Second(e) : t \in Table \ {0}
    BY <1>1, <2>1, <2>4 DEF TreeShape, Second, Table
  <2>7. n + 1 \in Table \ {0} /\ \A j \in Index : d[n + 1][j] = 0
    BY <1>1, <2>1, <2>6 DEF Table
  <2>8. TreeShape(d, n + 1)
    <3>1. \A j \in Index : d[0][j] \in 0 .. n + 1
      BY <1>1, <2>1 DEF TreeShape
    <3>2. \A j, k \in Index : d[0][j] = d[0][k] /\ d[0][j] # 0 => j = k
      BY <1>1, <2>1 DEF TreeShape
    <3>3. ASSUME NEW t \in Second(d), NEW j \in Index PROVE d[t][j] \in 0 .. n + 1 /\ d[t][j] \notin Second(d)
      <4>1. CASE t = p /\ j = i
        BY <1>1, <2>1, <2>5, <2>6, <4>1
      <4>2. CASE t # p \/ j # i
        <5>1. d[t][j] = e[t][j] /\ e[t][j] \in 0 .. n /\ e[t][j] \notin Second(e)
          BY <1>1, <2>1, <2>5, <2>6, <4>2 DEF TreeShape
        <5> QED BY <1>1, <2>5, <5>1
      <4> QED BY <4>1, <4>2
    <3>4. ASSUME NEW t \in Second(d), NEW u \in Second(d), NEW j \in Index, NEW k \in Index,
                 d[t][j] = d[u][k], d[t][j] # 0
          PROVE  t = u /\ j = k
      <4>1. \A v \in Second(e), l \in Index : e[v][l] \in 0 .. n /\ (v # p \/ l # i => d[v][l] = e[v][l])
        BY <1>1, <2>1, <2>6 DEF TreeShape
      <4>2. t \in Second(e) /\ u \in Second(e)
        BY <2>5
      <4>3. CASE t = p /\ j = i
        BY <1>1, <2>1, <3>4, <4>1, <4>2, <4>3
      <4>4. CASE u = p /\ k = i
        BY <1>1, <2>1, <3>4, <4>1, <4>2, <4>4
      <4>5. CASE ~(t = p /\ j = i) /\ ~(u = p /\ k = i)
        BY <1>1, <3>4, <4>1, <4>2, <4>5 DEF TreeShape
      <4> QED BY <4>3, <4>4, <4>5
    <3>5. \A t \in 1 .. NumTables, j \in Index : t > n + 1 => d[t][j] = 0
      <4>1. p <= n /\ p \in Nat /\ n \in Nat /\ NumTables \in Nat
        BY <1>1, <2>4 DEF TreeShape, Second
      <4>2. \A t \in 1 .. NumTables, j \in Index : t > n => e[t][j] = 0
        BY <1>1 DEF TreeShape
      <4>3. ASSUME NEW t \in 1 .. NumTables, NEW j \in Index, t > n + 1 PROVE d[t][j] = 0
        <5>1. t > n /\ t # p /\ t \in Table
          BY <4>1, <4>3 DEF Table
        <5> QED BY <2>1, <4>2, <5>1
      <4> QED BY <4>3
    <3>6. \A t \in 1 .. NumTables, j \in Index : t \notin Second(d) => d[t][j] \in {0} \cup MappedFrame
      BY <1>1, <2>1, <2>4, <2>5 DEF TreeShape, Table
    <3> QED BY <3>1, <3>2, <3>3, <3>4, <3>5, <3>6 DEF TreeShape
  <2>9. SameLeads(e, d)
    <3> SUFFICES ASSUME NEW page \in Page, NEW f \in MappedFrame PROVE Leads(d, page, f) <=> Leads(e, page, f)
      BY DEF SameLeads
    <3>1. page[1] \in Index /\ page[2] \in Index /\ page[3] \in Index /\ f # 0
      BY <1>1, MapperAssumption DEF Page, MappedFrame
    <3>2. CASE e[0][page[1]] = p /\ page[2] = i
      <4>1. ~Leads(e, page, f)
        BY <2>1, <3>2 DEF Leads
      <4>2. d[0][page[1]] = p /\ d[p][page[2]] = n + 1 /\ d[n + 1][page[3]] = 0
        BY <2>1, <2>7, <3>1, <3>2
      <4>3. ~Leads(d, page, f)
        BY <3>1, <4>2 DEF Leads
      <4> QED BY <4>1, <4>3
    <3>3. CASE ~(e[0][page[1]] = p /\ page[2] = i)
      <4>1. ASSUME NEW p2 \in Table \ {0}, NEW p1 \in Table \ {0}, e[0][page[1]] = p2
            PROVE  /\ d[p2][page[2]] = e[p2][page[2]]
                   /\ e[p2][page[2]] = p1 => d[p1][page[3]] = e[p1][page[3]]
        <5>1. p2 \in Second(e)
          BY <3>1, <4>1 DEF Second
        <5>2. d[p2][page[2]] = e[p2][page[2]]
          BY <2>1, <3>1, <3>3, <4>1
        <5>3. \A t \in Second(e), j \in Index : e[t][j] \notin Second(e)
          BY <1>1 DEF TreeShape
        <5>4. e[p2][page[2]] = p1 => p1 # p
          BY <2>4, <3>1, <5>1, <5>3
        <5>5. p1 # p => d[p1][page[3]] = e[p1][page[3]]
          BY <2>1, <3>1, <4>1
        <5> QED BY <5>2, <5>4, <5>5
      <4>2. d[0][page[1]] = e[0][page[1]]
        BY <2>1, <3>1
      <4> QED BY <4>1, <4>2 DEF Leads
    <3> QED BY <3>2, <3>3
  <2>10. Tree(r)
    BY <1>0, <2>1, <2>2, <2>3, <2>8 DEF Tree, PageTree
  <2>11. p \in Second(d) /\ d[p][i] \in 1 .. r.next
    BY <1>1, <2>1, <2>4, <2>5
  <2> QED BY <1>0, <2>1, <2>9, <2>10, <2>11
<1>4. \/ e[p][i] # 0 /\ r = m
      \/ Grown(m, r, p, i)
  BY <1>0, <1>1, AddTableIs
<1> QED BY <1>2, <1>3, <1>4

(* map_user_direct, when it does not panic: the page leads to its frame,   *)
(* and all other pages where they led before.                              *)
Remaps(e, d, page, frame) ==
    \A q \in Page, f \in MappedFrame :
       Leads(d, q, f) <=> IF q = page THEN f = frame ELSE Leads(e, q, f)

(* Setting the entry of a page in its table of level 1 gives it its frame, *)
(* and no other page another one: no other page leads through that entry.  *)
LEMMA SetFrame ==
  ASSUME NEW m, Tree(m), NEW page \in Page, NEW frame \in MappedFrame,
         NEW p2 \in Second(m.entries), m.entries[0][page[1]] = p2,
         NEW p1 \in 1 .. m.next, m.entries[p2][page[2]] = p1
  PROVE  LET r == SetEntry(m, p1, page[3], frame)
         IN  /\ Tree(r)
             /\ Remaps(m.entries, r.entries, page, frame)
<1>0. PICK r, e, d, n : r = SetEntry(m, p1, page[3], frame) /\ e = m.entries /\ d = r.entries /\ n = m.next
  OBVIOUS
<1>1. /\ m \in MapperState /\ TreeShape(e, n) /\ 0 \in Table /\ n \in 0 .. NumTables /\ NumTables \in Nat
      /\ p2 \in Table \ {0} /\ p1 \in Table \ {0} /\ p1 \notin Second(e)
      /\ e[0][page[1]] = p2 /\ e[p2][page[2]] = p1 /\ p1 \in 1 .. n /\ p2 \in Second(e)
  <2>1. page[1] \in Index /\ page[2] \in Index
    BY DEF Page
  <2>2. m \in MapperState /\ TreeShape(e, n) /\ 0 \in Table /\ n \in 0 .. NumTables /\ NumTables \in Nat
    BY <1>0, MapperAssumption DEF Tree, PageTree, Table
  <2>3. p2 \in Table \ {0} /\ p1 \in Table \ {0}
    BY <1>0, <2>2 DEF Table, Second
  <2>4. \A t \in Second(e), i \in Index : e[t][i] \notin Second(e)
    BY <2>2 DEF TreeShape
  <2> QED BY <1>0, <2>1, <2>2, <2>3, <2>4
<1>2. page[1] \in Index /\ page[2] \in Index /\ page[3] \in Index /\ frame \in Nat
  BY MapperAssumption DEF Page, MappedFrame
<1>3. EntrySet(m, r, p1, page[3], frame)
  BY <1>0, <1>1, <1>2, SetEntryIs
<1>4. /\ r \in MapperState /\ r.next = n /\ d[p1][page[3]] = frame
      /\ \A u \in Table, j \in Index : u # p1 \/ j # page[3] => d[u][j] = e[u][j]
  BY <1>0, <1>3 DEF EntrySet, OnlyAt
<1>5. Recorded(d, r.clear)
  <2>1. Recorded(e, m.clear) /\ m.clear \in Seq(Table \X Index)
    BY <1>0 DEF Tree, PageTree
  <2>2. OnlyAt(e, d, p1, page[3]) /\ r.clear = Append(m.clear, <<p1, page[3]>>)
    BY <1>0, <1>3 DEF EntrySet
  <2>3. Recorded(d, Append(m.clear, <<p1, page[3]>>))
    BY <1>1, <1>2, <2>1, <2>2, RecordedKept, Zenon
  <2> QED BY <2>2, <2>3
<1>6. d \in Tables /\ r.clear \in Seq(Table \X Index)
  BY <1>0, <1>4 DEF MapperState
<1>7. /\ \A j \in Index : d[0][j] = e[0][j]
      /\ \A t \in Second(e), j \in Index : d[t][j] = e[t][j]
      /\ \A t \in Second(e) : t \in Table \ {0}
  BY <1>1, <1>4 DEF Second
<1>8. \A t : t \in Second(d) <=> t \in Second(e)
  BY <1>7 DEF Second
<1>9. /\ \A j \in Index : e[0][j] \in 0 .. n
      /\ \A j, k \in Index : e[0][j] = e[0][k] /\ e[0][j] # 0 => j = k
  BY <1>1 DEF TreeShape
<1>10. \A t \in Second(e), j \in Index : e[t][j] \in 0 .. n /\ e[t][j] \notin Second(e)
  BY <1>1 DEF TreeShape
<1>11. \A t, u \in Second(e), j, k \in Index : e[t][j] = e[u][k] /\ e[t][j] # 0 => t = u /\ j = k
  BY <1>1 DEF TreeShape
<1>12. TreeShape(d, n)
  <2>1. /\ \A j \in Index : d[0][j] \in 0 .. n
        /\ \A j, k \in Index : d[0][j] = d[0][k] /\ d[0][j] # 0 => j = k
    BY <1>7, <1>9
  <2>2. \A t \in Second(d), j \in Index : d[t][j] \in 0 .. n /\ d[t][j] \notin Second(d)
    BY <1>7, <1>8, <1>10
  <2>3. \A t, u \in Second(d), j, k \in Index : d[t][j] = d[u][k] /\ d[t][j] # 0 => t = u /\ j = k
    BY <1>7, <1>8, <1>11
  <2>4. \A t \in 1 .. NumTables : t \in Table
    BY DEF Table
  <2>5. \A t \in 1 .. NumTables, j \in Index : t > n => d[t][j] = 0
    <3>1. \A t \in 1 .. NumTables, j \in Index : t > n => e[t][j] = 0
      BY <1>1 DEF TreeShape
    <3>2. p1 <= n /\ p1 \in Nat /\ n \in Nat /\ NumTables \in Nat
      BY <1>1
    <3>3. ASSUME NEW t \in 1 .. NumTables, NEW j \in Index, t > n PROVE d[t][j] = 0
      <4>1. t # p1
        BY <3>2, <3>3
      <4> QED BY <1>4, <2>4, <3>1, <3>3, <4>1
    <3> QED BY <3>3
  <2>6. \A t \in 1 .. NumTables, j \in Index : t \notin Second(d) => d[t][j] \in {0} \cup MappedFrame
    <3>1. \A t \in 1 .. NumTables, j \in Index : t \notin Second(e) => e[t][j] \in {0} \cup MappedFrame
      BY <1>1 DEF TreeShape
    <3> QED BY <1>4, <1>8, <2>4, <3>1
  <2> QED BY <2>1, <2>2, <2>3, <2>5, <2>6 DEF TreeShape
<1>13. p2 \in Table \ {0} /\ p1 \in Table \ {0} /\ e[0][page[1]] = p2 /\ e[p2][page[2]] = p1 /\ p2 \in Second(e)
  BY <1>1
<1>14. ASSUME NEW q \in Page, NEW f \in MappedFrame
       PROVE  Leads(d, q, f) <=> IF q = page THEN f = frame ELSE Leads(e, q, f)
  <2>1. q[1] \in Index /\ q[2] \in Index /\ q[3] \in Index /\ (q[1] = page[1] /\ q[2] = page[2] /\ q[3] = page[3] => q = page)
    BY DEF Page
  <2>2. CASE q = page
    <3>1. d[0][q[1]] = p2 /\ d[p2][q[2]] = p1 /\ d[p1][q[3]] = frame
      BY <1>2, <1>4, <1>7, <1>13, <2>2
    <3> QED BY <1>13, <2>2, <3>1 DEF Leads
  <2>3. CASE q # page
    <3>1. ASSUME NEW a \in Table \ {0}, NEW b \in Table \ {0}, e[0][q[1]] = a, e[a][q[2]] = b
          PROVE  d[b][q[3]] = e[b][q[3]]
      <4>1. a \in Second(e)
        BY <2>1, <3>1 DEF Second
      <4>2. p1 # 0 /\ p2 # 0
        BY <1>13
      <4>3. b = p1 => a = p2 /\ q[2] = page[2]
        BY <1>2, <1>11, <1>13, <2>1, <3>1, <4>1, <4>2
      <4>4. b = p1 => q[1] = page[1]
        BY <1>2, <1>9, <1>13, <2>1, <3>1, <4>2, <4>3
      <4> QED BY <1>4, <2>1, <2>3, <3>1, <4>3, <4>4
    <3>2. \A a \in Table \ {0} : e[0][q[1]] = a => d[a][q[2]] = e[a][q[2]]
      BY <1>7, <2>1 DEF Second
    <3>3. d[0][q[1]] = e[0][q[1]]
      BY <1>7, <2>1
    <3>4. Leads(d, q, f) <=> Leads(e, q, f)
      BY <3>1, <3>2, <3>3 DEF Leads
    <3> QED BY <2>3, <3>4
  <2> QED BY <2>2, <2>3
<1>15. Tree(r)
  BY <1>0, <1>1, <1>4, <1>5, <1>6, <1>12 DEF Tree, PageTree
<1> QED BY <1>0, <1>14, <1>15 DEF Remaps

(* Tables without an entry are a tree, and lead nowhere. *)
LEMMA EmptyTree ==
  ASSUME NEW e \in Tables, NEW c \in Seq(Table \X Index), \A t \in Table, i \in Index : e[t][i] = 0
  PROVE  PageTree(e, 0, c) /\ \A page \in Page, f \in MappedFrame : ~Leads(e, page, f)
<1>1. 0 \in Table /\ NumTables \in Nat /\ \A t \in 1 .. NumTables : t \in Table
  BY MapperAssumption DEF Table
<1>2. Second(e) = {}
  BY <1>1 DEF Second
<1>3. TreeShape(e, 0)
  BY <1>1, <1>2 DEF TreeShape
<1>4. Recorded(e, c)
  BY DEF Recorded
<1>5. ASSUME NEW page \in Page, NEW f \in MappedFrame PROVE ~Leads(e, page, f)
  <2>1. page[1] \in Index
    BY DEF Page
  <2> QED BY <1>1, <2>1 DEF Leads
<1> QED BY <1>1, <1>3, <1>4, <1>5 DEF PageTree

(* All three levels are in place before the entry is set. *)
LEMMA MapUserIs ==
  ASSUME NEW m, Tree(m), m.ok, NEW page \in Page, NEW frame \in MappedFrame, MapUser(m, page, frame).ok
  PROVE  /\ Tree(MapUser(m, page, frame))
         /\ Remaps(m.entries, MapUser(m, page, frame).entries, page, frame)
<1>1. page[1] \in Index /\ page[2] \in Index /\ page[3] \in Index
  BY DEF Page
<1>2. PICK m2, p2 : m2 = AddOrCreateTable(m, 0, page[1]) /\ p2 = m2.entries[0][page[1]]
  OBVIOUS
<1>3. PICK m1, p1 : m1 = AddOrCreateTable(m2, p2, page[2]) /\ p1 = m1.entries[p2][page[2]]
  OBVIOUS
<1>4. MapUser(m, page, frame) = IF m2.ok THEN IF m1.ok THEN SetEntry(m1, p1, page[3], frame) ELSE m1 ELSE m2
  BY <1>2, <1>3, Zenon DEF MapUser
<1>5. m2.ok /\ m1.ok /\ MapUser(m, page, frame) = SetEntry(m1, p1, page[3], frame)
  BY <1>4
<1>6. Tree(m2) /\ p2 \in Second(m2.entries) /\ SameLeads(m.entries, m2.entries)
  BY <1>1, <1>2, <1>5, AddSecond
<1>7. /\ Tree(m1) /\ SameLeads(m2.entries, m1.entries)
      /\ \A j \in Index : m1.entries[0][j] = m2.entries[0][j]
      /\ p2 \in Second(m1.entries) /\ m1.entries[p2][page[2]] \in 1 .. m1.next
  BY <1>1, <1>3, <1>5, <1>6, AddFirst, Zenon
<1>8. m1.entries[0][page[1]] = p2 /\ p1 \in 1 .. m1.next /\ m1.entries[p2][page[2]] = p1
  BY <1>1, <1>2, <1>3, <1>7, Zenon
<1>9. /\ Tree(SetEntry(m1, p1, page[3], frame))
      /\ Remaps(m1.entries, SetEntry(m1, p1, page[3], frame).entries, page, frame)
  BY <1>7, <1>8, SetFrame
<1> QED BY <1>5, <1>6, <1>7, <1>9 DEF SameLeads, Remaps

-----------------------------------------------------------------------------
(* The pages of a command.                                                 *)

(* At the start all tables are empty. *)
LEMMA InitPages == PagesInit => PagesInv
<1> SUFFICES ASSUME PagesInit PROVE PagesInv
  OBVIOUS
<1>1. \A t \in Table, i \in Index : entries[t][i] = 0
  BY DEF PagesInit, Unused
<1>2. entries \in Tables /\ next_unused \in 0 .. NumTables /\ entries_to_clear \in Seq(Table \X Index)
  BY MapperAssumption DEF PagesInit, Unused, Tables
<1>3. 0 \in Table /\ next_unused = 0 /\ NumTables \in Nat
  BY MapperAssumption DEF Table, PagesInit
<1>4. PageTree(entries, next_unused, entries_to_clear)
  BY <1>1, <1>2, <1>3, EmptyTree
<1>5. \A page \in Page, f \in MappedFrame : ~Leads(entries, page, f)
  BY <1>1, <1>2, EmptyTree
<1> QED BY <1>4, <1>5 DEF PagesInv, PagesInit

(* Another page of the command is mapped, once or twice. *)
LEMMA MapPages ==
  ASSUME PagesInv, NEW page \in Page, NEW frame \in MappedFrame, NEW x \in BOOLEAN, Map(page, frame, x)
  PROVE  PagesInv'
<1>0. PICK once, m : /\ once = MapUser(Mapper, page, frame)
                     /\ m = IF x /\ once.ok THEN MapUser(once, page, frame) ELSE once
  OBVIOUS
<1>1. /\ mapperPc = "map" /\ page \notin {w[1] : w \in wanted}
      /\ entries' = m.entries /\ next_unused' = m.next /\ entries_to_clear' = m.clear
      /\ tlb' = {e \in tlb : e[1] # page} /\ wanted' = wanted \cup {<<page, frame>>}
      /\ mapperPc' = IF m.ok THEN "map" ELSE "panicked"
  BY <1>0 DEF Map, Flush
<1>2. /\ PageTree(entries, next_unused, entries_to_clear) /\ wanted \subseteq Page \X MappedFrame
      /\ \A v, w \in wanted : v[1] = w[1] => v = w
      /\ \A q \in Page, f \in MappedFrame : Leads(entries, q, f) <=> <<q, f>> \in wanted
      /\ tlb = {}
  BY <1>1 DEF PagesInv
<1>3. CASE ~m.ok
  BY <1>1, <1>3 DEF PagesInv
<1>4. CASE m.ok
  <2>1. Tree(Mapper) /\ Mapper.ok /\ Mapper.entries = entries
    BY <1>2 DEF Tree, Mapper, MapperState, PageTree
  <2>2. once.ok
    BY <1>0, <1>4
  <2>3. Tree(once) /\ Remaps(entries, once.entries, page, frame)
    BY <1>0, <2>1, <2>2, MapUserIs
  <2>4. Tree(m) /\ Remaps(entries, m.entries, page, frame)
    <3>1. CASE x /\ once.ok
      <4>1. m = MapUser(once, page, frame)
        BY <1>0, <3>1
      <4>2. Tree(m) /\ Remaps(once.entries, m.entries, page, frame)
        BY <1>4, <2>2, <2>3, <4>1, MapUserIs
      <4> QED BY <2>3, <4>2 DEF Remaps
    <3>2. CASE ~(x /\ once.ok)
      BY <1>0, <2>3, <3>2
    <3> QED BY <3>1, <3>2
  <2>5. PageTree(entries', next_unused', entries_to_clear') /\ mapperPc' = "map" /\ tlb' = {}
    BY <1>1, <1>2, <1>4, <2>4 DEF Tree
  <2>6. wanted' \subseteq Page \X MappedFrame
    BY <1>1, <1>2
  <2>7. \A v \in wanted : v[1] # page
    BY <1>1
  <2>8. \A v, w \in wanted' : v[1] = w[1] => v = w
    BY <1>1, <1>2, <2>7
  <2>9. ASSUME NEW q \in Page, NEW f \in MappedFrame PROVE Leads(entries', q, f) <=> <<q, f>> \in wanted'
    <3>1. Leads(entries', q, f) <=> IF q = page THEN f = frame ELSE <<q, f>> \in wanted
      BY <1>1, <1>2, <2>4 DEF Remaps
    <3>2. <<page, f>> \notin wanted
      BY <2>7
    <3> QED BY <1>1, <3>1, <3>2
  <2> QED BY <2>5, <2>6, <2>8, <2>9 DEF PagesInv, Leads
<1> QED BY <1>3, <1>4

(* A walk over the tables finds the frame of the command. *)
LEMMA WalkIs ==
  ASSUME PagesInv, mapperPc = "run", NEW page \in Page
  PROVE  Walk(page) = {f \in MappedFrame : <<page, f>> \in wanted}
<1>1. \A f \in MappedFrame : Leads(entries, page, f) <=> <<page, f>> \in wanted
  BY DEF PagesInv
<1>2. Walk(page) = {f \in MappedFrame : Leads(entries, page, f)}
  BY DEF Walk, Leads, Unused
<1> QED BY <1>1, <1>2

(* The translation buffer takes in what a walk finds. *)
LEMMA AccessPages == ASSUME PagesInv, NEW page \in Page, Access(page) PROVE PagesInv'
<1>1. /\ mapperPc = "run" /\ tlb' = tlb \cup {<<page, f>> : f \in Walk(page)}
      /\ UNCHANGED <<entries, next_unused, entries_to_clear, wanted, mapperPc>>
  BY DEF Access
<1>2. tlb' \subseteq wanted
  BY <1>1, WalkIs DEF PagesInv
<1> QED BY <1>1, <1>2 DEF PagesInv

(* The switch to user mode changes no mapping. *)
LEMMA RunPages == PagesInv /\ Run => PagesInv'
  BY DEF PagesInv, Run

(* All that was set is cleared and all that was translated is flushed. *)
LEMMA ResetPages == PagesInv /\ Reset => PagesInv'
<1> SUFFICES ASSUME PagesInv, Reset PROVE PagesInv'
  OBVIOUS
<1>1. /\ mapperPc = "run" /\ mapperPc' = "map" /\ wanted' = {} /\ next_unused' = 0 /\ entries_to_clear' = << >>
      /\ tlb' = {e \in tlb : e[1] \notin {w[1] : w \in wanted}}
      /\ entries' = [t \in Table |-> [i \in Index |->
                        IF <<t, i>> \in Range(entries_to_clear) THEN 0 ELSE entries[t][i]]]
  BY DEF Reset, Unused
<1>2. /\ entries \in Tables /\ entries_to_clear \in Seq(Table \X Index) /\ Recorded(entries, entries_to_clear)
      /\ tlb \subseteq wanted
  BY <1>1 DEF PagesInv, PageTree
<1>3. ASSUME NEW t \in Table, NEW i \in Index PROVE entries'[t][i] = 0
  <2>1. entries[t][i] # 0 => <<t, i>> \in Range(entries_to_clear)
    BY <1>2 DEF Recorded, Range
  <2> QED BY <1>1, <2>1
<1>4. entries' \in Tables
  BY <1>1, <1>2 DEF Tables
<1>5. << >> \in Seq(Table \X Index)
  OBVIOUS
<1>6. PageTree(entries', 0, << >>) /\ \A page \in Page, f \in MappedFrame : ~Leads(entries', page, f)
  BY <1>3, <1>4, <1>5, EmptyTree, Zenon
<1>7. tlb' = {}
  BY <1>1, <1>2
<1> QED BY <1>1, <1>6, <1>7, Zenon DEF PagesInv, Leads

(* Every step of the mapper keeps the invariant. *)
LEMMA PagesStep == PagesInv /\ PagesNext => PagesInv'
  BY MapPages, RunPages, ResetPages, AccessPages DEF PagesNext

(* Steps of others leave the mapper alone. *)
LEMMA StutterPages == PagesInv /\ UNCHANGED pageVars => PagesInv'
  BY DEF PagesInv, pageVars

(* The instruction sees the pages of its command, each backed by its own   *)
(* frame, whether the TLB or the page tables translate.                    *)
LEMMA InvOwnPages == PagesInv => SeesOwnPages
<1> SUFFICES ASSUME PagesInv, mapperPc = "run", NEW page \in Page
             PROVE  Translation(page) = {w[2] : w \in {v \in wanted : v[1] = page}}
  BY DEF SeesOwnPages
<1>1. tlb \subseteq wanted /\ wanted \subseteq Page \X MappedFrame /\ \A v, w \in wanted : v[1] = w[1] => v = w
  BY DEF PagesInv
<1>2. CASE \E e \in tlb : e[1] = page
  <2>1. {v \in tlb : v[1] = page} = {v \in wanted : v[1] = page}
    BY <1>1, <1>2
  <2> QED BY <1>2, <2>1 DEF Translation
<1>3. CASE ~\E e \in tlb : e[1] = page
  <2>1. Translation(page) = {f \in MappedFrame : <<page, f>> \in wanted}
    BY <1>3, WalkIs DEF Translation
  <2>2. \A f : f \in {w[2] : w \in {v \in wanted : v[1] = page}} <=> f \in MappedFrame /\ <<page, f>> \in wanted
    BY <1>1
  <2> QED BY <2>1, <2>2
<1> QED BY <1>2, <1>3

-----------------------------------------------------------------------------
(* The layout of the shared memory.                                        *)

(* Integer division: the quotient, multiplied back, does not exceed the    *)
(* dividend.                                                               *)
LEMMA DivTimes ==
  ASSUME NEW a \in Nat, NEW b \in Nat, b > 0
  PROVE  a \div b \in Nat /\ b * (a \div b) <= a
  OBVIOUS

(* Multiplication by a natural number is monotone. *)
LEMMA TimesMono ==
  ASSUME NEW a \in Nat, NEW b \in Nat, NEW c \in Nat, a <= b
  PROVE  c * a <= c * b
  OBVIOUS

(* Position i * s + k with k < s lies in block i of size s; blocks do not  *)
(* overlap and the first n of them end before n * s.                       *)
LEMMA Blocks ==
  ASSUME NEW n \in Nat, NEW s \in Nat, NEW i \in 0 .. n - 1, NEW j \in 0 .. n - 1,
         NEW k \in 0 .. s - 1, NEW l \in 0 .. s - 1
  PROVE  /\ i * s + k < n * s
         /\ i * s + k = j * s + l => i = j
<1>1. i + 1 <= n /\ i \in Nat /\ j \in Nat /\ k \in Nat /\ l \in Nat /\ k < s /\ l < s
  OBVIOUS
<1>2. s * (i + 1) <= s * n
  BY <1>1, TimesMono
<1>3. s * (i + 1) = i * s + s /\ s * n = n * s
  BY <1>1
<1>4. i < j => s * (i + 1) <= s * j
  <2>1. SUFFICES ASSUME i < j PROVE s * (i + 1) <= s * j
    OBVIOUS
  <2>2. i + 1 <= j /\ i + 1 \in Nat
    BY <1>1, <2>1
  <2> QED BY <1>1, <2>2, TimesMono
<1>5. j < i => s * (j + 1) <= s * i
  <2>1. SUFFICES ASSUME j < i PROVE s * (j + 1) <= s * i
    OBVIOUS
  <2>2. j + 1 <= i /\ j + 1 \in Nat
    BY <1>1, <2>1
  <2> QED BY <1>1, <2>2, TimesMono
<1>6. s * (j + 1) = j * s + s /\ s * j = j * s /\ s * i = i * s
  BY <1>1
<1> QED BY <1>1, <1>2, <1>3, <1>4, <1>5, <1>6

(* The numbers of the layout are natural numbers, and the queues and pages *)
(* together take no more frames than the shared memory has.                *)
LEMMA LayoutFits ==
  ASSUME NEW n, Usable(n)
  PROVE  /\ n \in Nat /\ n > 0
         /\ QueueSize(n) \in Nat /\ PageFramesPerQueue(n) \in Nat
         /\ PageBase(n) = n * QueueSize(n)
         /\ PageBase(n) + n * PageFramesPerQueue(n) <= ShmemFrames
<1> DEFINE T == TotalFramesPerQueue(n)
           C == CommandFramesPerQueue(n)
<1>1. n \in Nat /\ n > 0 /\ n <= ShmemFrames
  BY DEF Usable
<1>2. FramesAvailable(n) \in Nat
  BY <1>1, ShmemAssumption DEF FramesAvailable
<1>3. T \in Nat /\ n * T <= ShmemFrames - n
  BY <1>1, <1>2, DivTimes DEF TotalFramesPerQueue, FramesAvailable
<1>4. C \in Nat /\ C <= T
  <2>1. C \in Nat /\ 4 * C <= T
    BY <1>3, DivTimes DEF CommandFramesPerQueue
  <2> QED BY <2>1, <1>3
<1>5. QueueSize(n) = 1 + C /\ PageFramesPerQueue(n) = T - C /\ PageBase(n) = (1 + C) * n
  BY DEF QueueSize, PageFramesPerQueue, PageBase
<1> HIDE DEF T, C
<1>6. (1 + C) * n + n * (T - C) = n + n * T
  BY <1>1, <1>3, <1>4
<1> QED BY <1>1, <1>3, <1>4, <1>5, <1>6, ShmemAssumption

(* No frame of the shared memory belongs to two queues, to the pages of    *)
(* two observers or to a queue and a page, and all of them are inside the  *)
(* memory: the observers of one virtual machine cannot touch each other's  *)
(* commands or pages, whatever their number and the size of the memory.    *)
THEOREM LayoutSound ==
  ASSUME NEW n, Usable(n), NEW i \in 0 .. n - 1, NEW j \in 0 .. n - 1
  PROVE  /\ QueueFrames(n, i) \cup PageFrames(n, i) \subseteq 0 .. ShmemFrames - 1
         /\ i # j => QueueFrames(n, i) \cap QueueFrames(n, j) = {}
         /\ i # j => PageFrames(n, i) \cap PageFrames(n, j) = {}
         /\ QueueFrames(n, i) \cap PageFrames(n, j) = {}
<1> DEFINE s == QueueSize(n)
           p == PageFramesPerQueue(n)
           b == PageBase(n)
<1>1. /\ n \in Nat /\ n > 0 /\ s \in Nat /\ p \in Nat /\ ShmemFrames \in Nat
      /\ b = n * s /\ b + n * p <= ShmemFrames /\ b \in Nat
  BY LayoutFits, ShmemAssumption
<1>2. \A q \in 0 .. n - 1 : /\ QueueFrames(n, q) = {q * s + k : k \in 0 .. s - 1}
                            /\ PageFrames(n, q) = {b + (p * q + k) : k \in 0 .. p - 1}
  BY DEF QueueFrames, QueueStart, PageFrames, PageAt, MinIndex
<1> HIDE DEF s, p, b
<1>3. \A q \in 0 .. n - 1 : p * q = q * p
  BY <1>1
<1>4. \A x \in QueueFrames(n, i) : x \in Nat /\ x < b
  <2> TAKE x \in QueueFrames(n, i)
  <2>1. PICK k \in 0 .. s - 1 : x = i * s + k
    BY <1>2
  <2>2. i * s + k < n * s
    BY <1>1, <2>1, Blocks
  <2>3. i * s \in Nat
    BY <1>1
  <2> QED BY <1>1, <2>1, <2>2, <2>3
<1>5. \A q \in 0 .. n - 1 : \A x \in PageFrames(n, q) : x \in Nat /\ x >= b /\ x < ShmemFrames
  <2> TAKE q \in 0 .. n - 1
  <2> TAKE x \in PageFrames(n, q)
  <2>1. PICK k \in 0 .. p - 1 : x = b + (p * q + k)
    BY <1>2
  <2>2. q * p + k < n * p
    BY <1>1, <2>1, Blocks
  <2>3. q * p \in Nat /\ p * q = q * p
    BY <1>1
  <2> HIDE DEF s
  <2> QED BY <1>1, <2>1, <2>2, <2>3
<1>6. i # j => QueueFrames(n, i) \cap QueueFrames(n, j) = {}
  <2>1. SUFFICES ASSUME i # j, NEW x \in QueueFrames(n, i), x \in QueueFrames(n, j) PROVE FALSE
    OBVIOUS
  <2>2. PICK k \in 0 .. s - 1 : x = i * s + k
    BY <1>2
  <2>3. PICK l \in 0 .. s - 1 : x = j * s + l
    BY <1>2, <2>1
  <2>4. i * s + k = j * s + l => i = j
    BY <1>1, Blocks
  <2> QED BY <2>1, <2>2, <2>3, <2>4
<1>7. i # j => PageFrames(n, i) \cap PageFrames(n, j) = {}
  <2>1. SUFFICES ASSUME i # j, NEW x \in PageFrames(n, i), x \in PageFrames(n, j) PROVE FALSE
    OBVIOUS
  <2>2. PICK k \in 0 .. p - 1 : x = b + (p * i + k)
    BY <1>2
  <2>3. PICK l \in 0 .. p - 1 : x = b + (p * j + l)
    BY <1>2, <2>1
  <2>4. i * p + k = j * p + l => i = j
    BY <1>1, Blocks
  <2>5. i * p \in Nat /\ j * p \in Nat
    BY <1>1
  <2> QED BY <1>1, <1>3, <2>1, <2>2, <2>3, <2>4, <2>5
<1>8. QueueFrames(n, i) \subseteq 0 .. ShmemFrames - 1
  <2>1. n * p \in Nat
    BY <1>1
  <2> QED BY <1>1, <1>4, <2>1
<1>9. QueueFrames(n, i) \cap PageFrames(n, j) = {}
  BY <1>1, <1>4, <1>5
<1>10. PageFrames(n, i) \subseteq 0 .. ShmemFrames - 1
  BY <1>1, <1>5
<1> QED BY <1>6, <1>7, <1>8, <1>9, <1>10

(* The same as a statement about the memory of a machine. *)
THEOREM UsableIsDisjoint == Usable(num) => RegionsDisjoint
<1>1. SUFFICES ASSUME Usable(num) PROVE RegionsDisjoint
  OBVIOUS
<1>2. \A i \in 0 .. num - 1 : QueueFrames(num, i) \cup PageFrames(num, i) \subseteq 0 .. ShmemFrames - 1
  BY <1>1, LayoutSound
<1>3. \A i, j \in 0 .. num - 1 :
          /\ i # j => QueueFrames(num, i) \cap QueueFrames(num, j) = {}
          /\ i # j => PageFrames(num, i) \cap PageFrames(num, j) = {}
          /\ QueueFrames(num, i) \cap PageFrames(num, j) = {}
  BY <1>1, LayoutSound
<1> QED BY <1>2, <1>3 DEF RegionsDisjoint, Frame

-----------------------------------------------------------------------------
(* The handshake.                                                          *)

ControlFrame == [current : {"zero", "max"}, num_command_frames : Nat,
                 next_control_frame : Nat, info : BOOLEAN]

(* The control frame of queue i. *)
Control(i) == mem[QueueStart(num, i)]

(* The host: control frames that have been set up are linked, and nothing  *)
(* runs in the machine before all of them are.                             *)
HostInv ==
    /\ mem \in [Frame -> ControlFrame]
    /\ hostPc = "idle" => num = 0
    /\ hostPc # "idle" => num \in Nums
    /\ hostPc \in {"idle", "setup", "spawn"} => clientPc = "off" /\ clientAddr = 0 /\ controlFrames = << >>
    /\ hostPc = "setup" => hostIdx \in 0 .. num - 1
    /\ \A i \in 0 .. num - 1 : (hostPc = "setup" => i < hostIdx) =>
           /\ Control(i).next_control_frame = NextControlFrame(num, i)
           /\ clientPc = "off" => Control(i).current = "max"
    /\ hostPc \in {"ready", "running"} => clientPc \in {"incoming", "serve", "benchmark"}

(* The client: it has filled in the control frames it has walked over, and *)
(* the first one is released last.                                         *)
WalkInv ==
    /\ clientPc \in {"off", "boot", "release", "incoming", "serve", "benchmark"}
    /\ controlFrames \in Seq([addr : Frame, size : Nat])
    /\ \A k \in 1 .. Len(controlFrames) : /\ k <= num
                                          /\ controlFrames[k].addr = QueueStart(num, k - 1)
                                          /\ Control(k - 1).info
    /\ clientPc = "boot" => /\ Len(controlFrames) < num
                            /\ clientAddr = QueueStart(num, Len(controlFrames))
                            /\ \A i \in 0 .. num - 1 : Control(i).current = "max"
    /\ clientPc \in {"release", "incoming", "serve", "benchmark"} => Len(controlFrames) = num
    /\ clientPc = "release" => /\ toRelease \in 1 .. num
                               /\ \A i \in 0 .. num - 1 :
                                      Control(i).current = IF i < toRelease THEN "max" ELSE "zero"
    /\ clientPc \in {"incoming", "serve", "benchmark"} => \A i \in 0 .. num - 1 : Control(i).current = "zero"

StartupInv == HostInv /\ WalkInv

(* Every control frame has its own place in the memory, the first one at   *)
(* its beginning, and refers to the next.                                  *)
Chained(n) ==
    /\ n \in Nat /\ n > 0 /\ CommandFramesPerQueue(n) \in Nat
    /\ \A i \in 0 .. n - 1 : /\ QueueStart(n, i) \in Frame /\ NextControlFrame(n, i) \in Nat
                             /\ i # n - 1 => NextControlFrame(n, i) = QueueStart(n, i + 1)
                             /\ NextControlFrame(n, i) = 0 <=> i = n - 1
    /\ \A i, j \in 0 .. n - 1 : QueueStart(n, i) = QueueStart(n, j) => i = j
    /\ QueueStart(n, 0) = 0

(* The layout links every usable number of control frames. *)
LEMMA QueueFacts == ASSUME NEW n, Usable(n) PROVE Chained(n)
<1>1. /\ n \in Nat /\ n > 0 /\ QueueSize(n) \in Nat /\ PageFramesPerQueue(n) \in Nat /\ ShmemFrames \in Nat
      /\ PageBase(n) = n * QueueSize(n) /\ PageBase(n) + n * PageFramesPerQueue(n) <= ShmemFrames
  BY LayoutFits, ShmemAssumption
<1>2. CommandFramesPerQueue(n) \in Nat /\ QueueSize(n) > 0
  <2>1. TotalFramesPerQueue(n) \in Nat
    BY <1>1, DivTimes DEF Usable, TotalFramesPerQueue, FramesAvailable
  <2>2. CommandFramesPerQueue(n) \in Nat
    BY <2>1, DivTimes DEF CommandFramesPerQueue
  <2> QED BY <2>2 DEF QueueSize
<1>3. n * QueueSize(n) <= ShmemFrames
  <2>1. n * PageFramesPerQueue(n) \in Nat /\ n * QueueSize(n) \in Nat
    BY <1>1
  <2> QED BY <1>1, <2>1
<1>4. \A i \in 0 .. n - 1 : QueueStart(n, i) \in Frame
  <2> TAKE i \in 0 .. n - 1
  <2>1. i * QueueSize(n) + 0 < n * QueueSize(n) /\ i * QueueSize(n) \in Nat
    BY <1>1, <1>2, Blocks
  <2> QED BY <1>1, <1>3, <2>1 DEF QueueStart, Frame
<1>5. \A i, j \in 0 .. n - 1 : QueueStart(n, i) = QueueStart(n, j) => i = j
  <2> TAKE i, j \in 0 .. n - 1
  <2>1. i * QueueSize(n) + 0 = j * QueueSize(n) + 0 => i = j
    BY <1>1, <1>2, Blocks
  <2>2. i * QueueSize(n) \in Nat /\ j * QueueSize(n) \in Nat
    BY <1>1
  <2> QED BY <2>1, <2>2 DEF QueueStart
<1>6. QueueStart(n, 0) = 0
  BY <1>1 DEF QueueStart
<1>7. ASSUME NEW i \in 0 .. n - 1, i # n - 1
      PROVE  NextControlFrame(n, i) = QueueStart(n, i + 1) /\ NextControlFrame(n, i) # 0
  <2>1. NextControlFrame(n, i) = QueueStart(n, i + 1)
    BY <1>7 DEF NextControlFrame, QueueStart
  <2>2. 0 \in 0 .. n - 1 /\ i + 1 \in 0 .. n - 1 /\ i + 1 # 0
    BY <1>1, <1>7
  <2> QED BY <1>5, <1>6, <2>1, <2>2
<1>8. NextControlFrame(n, n - 1) = 0
  BY DEF NextControlFrame
<1>9. \A i \in 0 .. n - 1 : NextControlFrame(n, i) \in Nat
  BY <1>1 DEF NextControlFrame
<1> QED BY <1>1, <1>2, <1>4, <1>5, <1>6, <1>7, <1>8, <1>9 DEF Chained

(* Every number of queues a machine is started with is usable. *)
LEMMA NumsChained == ASSUME NEW n \in Nums PROVE Chained(n)
  BY NumsAssumption, QueueFacts

(* Nothing is set up before the start. *)
LEMMA InitStartup == Init => StartupInv
<1> SUFFICES ASSUME Init PROVE StartupInv
  OBVIOUS
<1>1. HostInv
  BY DEF Init, HostInv, Zeroed, ControlFrame
<1>2. WalkInv
  BY DEF Init, WalkInv
<1> QED BY <1>1, <1>2 DEF StartupInv

(* Steps that leave the memory and the client alone. *)
LEMMA StutterStartup == StartupInv /\ UNCHANGED vars => StartupInv'
  BY DEF StartupInv, HostInv, WalkInv, Control, vars, hostVars, clientVars

(* The memory is zeroed; no control frame is set up yet. *)
LEMMA StartStartup == ASSUME StartupInv, NEW n \in Nums, Start(n) PROVE StartupInv'
<1> USE DEF StartupInv, Start, clientVars
<1>1. n \in Nat /\ n > 0
  BY NumsChained DEF Chained
<1>2. HostInv'
  BY <1>1 DEF HostInv, Zeroed, ControlFrame
<1>3. WalkInv'
  BY DEF HostInv, WalkInv
<1> QED BY <1>2, <1>3

(* Setting up a control frame leaves the others as they are. *)
LEMMA SetupStartup == StartupInv /\ SetupControlFrame => StartupInv'
<1> SUFFICES ASSUME StartupInv, SetupControlFrame PROVE StartupInv'
  OBVIOUS
<1> DEFINE q == QueueStart(num, hostIdx)
<1>1. /\ hostPc = "setup" /\ num \in Nums /\ hostIdx \in 0 .. num - 1 /\ clientPc = "off" /\ clientAddr = 0
      /\ controlFrames = << >> /\ mem \in [Frame -> ControlFrame]
      /\ UNCHANGED <<num, clientPc, clientAddr, controlFrames, toRelease>>
      /\ hostIdx' = hostIdx + 1 /\ hostPc' = IF hostIdx + 1 = num THEN "spawn" ELSE "setup"
      /\ mem' = [mem EXCEPT ![q] = [current |-> "max", num_command_frames |-> CommandFramesPerQueue(num),
                                    next_control_frame |-> NextControlFrame(num, hostIdx), info |-> mem[q].info]]
  BY DEF StartupInv, HostInv, SetupControlFrame, clientVars
<1>2. num \in Nat /\ CommandFramesPerQueue(num) \in Nat /\ NextControlFrame(num, hostIdx) \in Nat /\ q \in Frame
  BY <1>1, NumsChained DEF Chained
<1>3. \A i \in 0 .. num - 1 : i # hostIdx => QueueStart(num, i) # q
  BY <1>1, NumsChained DEF Chained
<1>4. mem' \in [Frame -> ControlFrame]
  BY <1>1, <1>2 DEF ControlFrame
<1>5. /\ mem'[q].current = "max" /\ mem'[q].next_control_frame = NextControlFrame(num, hostIdx)
      /\ \A f \in Frame : f # q => mem'[f] = mem[f]
  BY <1>1, <1>2
<1>6. \A i \in 0 .. num - 1 : QueueStart(num, i) \in Frame
  BY <1>1, NumsChained DEF Chained
<1> HIDE DEF q
<1>7. ASSUME NEW i \in 0 .. num - 1, i < hostIdx + 1
      PROVE  /\ mem'[QueueStart(num, i)].next_control_frame = NextControlFrame(num, i)
             /\ mem'[QueueStart(num, i)].current = "max"
  <2>1. CASE i = hostIdx
    BY <1>5, <2>1 DEF q
  <2>2. CASE i # hostIdx
    <3>1. mem'[QueueStart(num, i)] = Control(i) /\ i < hostIdx
      BY <1>1, <1>2, <1>3, <1>5, <1>6, <1>7, <2>2 DEF Control
    <3> QED BY <1>1, <3>1 DEF StartupInv, HostInv
  <2> QED BY <2>1, <2>2
<1>8. HostInv'
  BY <1>1, <1>2, <1>4, <1>7 DEF HostInv, Control
<1>9. WalkInv'
  BY <1>1 DEF WalkInv
<1> QED BY <1>8, <1>9 DEF StartupInv

(* The client starts at the first control frame, with all of them held. *)
LEMMA SpawnStartup == StartupInv /\ Spawn => StartupInv'
<1> SUFFICES ASSUME StartupInv, Spawn PROVE StartupInv'
  OBVIOUS
<1>1. /\ hostPc = "spawn" /\ num \in Nums /\ clientPc = "off" /\ clientAddr = 0 /\ controlFrames = << >>
      /\ UNCHANGED <<num, mem, hostIdx, clientAddr, controlFrames, toRelease>>
      /\ hostPc' \in {"poll", "failed"} /\ clientPc' \in {"off", "boot"}
  BY DEF StartupInv, HostInv, Spawn
<1>2. num \in Nat /\ num > 0 /\ QueueStart(num, 0) = 0
  BY <1>1, NumsChained DEF Chained
<1>3. HostInv'
  BY <1>1 DEF StartupInv, HostInv, Control
<1>4. WalkInv'
  BY <1>1, <1>2 DEF StartupInv, HostInv, WalkInv, Control
<1> QED BY <1>3, <1>4 DEF StartupInv

(* The host finds the first control frame released only after all others. *)
LEMMA PollStartup == StartupInv /\ PollCurrent => StartupInv'
<1> SUFFICES ASSUME StartupInv, PollCurrent PROVE StartupInv'
  OBVIOUS
<1>1. /\ hostPc = "poll" /\ num \in Nums /\ hostPc' = IF mem[0].current = "max" THEN "wait" ELSE "ready"
      /\ UNCHANGED <<num, mem, hostIdx, clientPc, clientAddr, controlFrames, toRelease>>
  BY DEF StartupInv, HostInv, PollCurrent, clientVars
<1>2. num \in Nat /\ num > 0 /\ Control(0) = mem[0]
  BY <1>1, NumsChained DEF Chained, Control
<1>3. mem[0].current # "max" => clientPc \in {"incoming", "serve", "benchmark"}
  BY <1>1, <1>2 DEF StartupInv, HostInv, WalkInv
<1>4. HostInv'
  BY <1>1, <1>3 DEF StartupInv, HostInv, Control
<1>5. WalkInv'
  BY <1>1 DEF StartupInv, WalkInv, Control
<1> QED BY <1>4, <1>5 DEF StartupInv

(* The other steps of the host, and the end of the process. *)
LEMMA HostStartup ==
  ASSUME StartupInv, PollProcess \/ Observers \/ ProcessDies \/ \E i \in live : DropOracle(i)
  PROVE  StartupInv'
<1>1. /\ UNCHANGED <<num, mem, clientPc, clientAddr, controlFrames, toRelease>>
      /\ \/ UNCHANGED <<hostPc, hostIdx>>
         \/ hostPc = "wait" /\ hostPc' \in {"poll", "failed", "panicked"}
         \/ hostPc = "ready" /\ hostPc' = "running"
         \/ hostPc = "running" /\ hostPc' = "gone"
  BY DEF PollProcess, Observers, ProcessDies, DropOracle, clientVars, hostVars
<1>2. HostInv'
  BY <1>1 DEF StartupInv, HostInv, Control
<1>3. WalkInv'
  BY <1>1 DEF StartupInv, WalkInv, Control
<1> QED BY <1>2, <1>3 DEF StartupInv

(* The walk goes from one control frame to the next, until the last one.   *)
LEMMA WalkStartup == StartupInv /\ InitControlFrame => StartupInv'
<1> SUFFICES ASSUME StartupInv, InitControlFrame PROVE StartupInv'
  OBVIOUS
<1> DEFINE k == Len(controlFrames)
           c == [addr |-> clientAddr, size |-> mem[clientAddr].num_command_frames + 1]
<1>1. /\ clientPc = "boot" /\ mem' = [mem EXCEPT ![clientAddr].info = TRUE]
      /\ controlFrames' = Append(controlFrames, c)
      /\ UNCHANGED <<num, hostPc, hostIdx>>
      /\ IF mem[clientAddr].next_control_frame = 0
         THEN clientPc' = "release" /\ toRelease' = k + 1 /\ UNCHANGED clientAddr
         ELSE clientAddr' = mem[clientAddr].next_control_frame /\ UNCHANGED <<clientPc, toRelease>>
  BY DEF InitControlFrame, hostVars
<1>2. /\ hostPc \notin {"idle", "setup", "spawn", "ready", "running"} /\ num \in Nums /\ mem \in [Frame -> ControlFrame]
      /\ controlFrames \in Seq([addr : Frame, size : Nat]) /\ k < num /\ clientAddr = QueueStart(num, k)
  BY <1>1 DEF StartupInv, HostInv, WalkInv
<1>3. /\ num \in Nat /\ k \in 0 .. num - 1 /\ clientAddr \in Frame
      /\ \A i \in 0 .. num - 1 : /\ QueueStart(num, i) \in Frame
                                 /\ i # k => QueueStart(num, i) # clientAddr
      /\ k # num - 1 => NextControlFrame(num, k) = QueueStart(num, k + 1)
      /\ NextControlFrame(num, k) = 0 <=> k = num - 1
  <2>1. Chained(num)
    BY <1>2, NumsChained
  <2>2. num \in Nat /\ k \in 0 .. num - 1
    BY <1>2, <2>1 DEF Chained
  <2> QED BY <1>2, <2>1, <2>2, Zenon DEF Chained
<1>4. mem[clientAddr].next_control_frame = NextControlFrame(num, k)
  BY <1>1, <1>2, <1>3 DEF StartupInv, HostInv, Control
<1>5. /\ mem' \in [Frame -> ControlFrame] /\ mem'[clientAddr].info
      /\ \A f \in Frame : /\ mem'[f].current = mem[f].current
                          /\ mem'[f].next_control_frame = mem[f].next_control_frame
                          /\ mem[f].info => mem'[f].info
  BY <1>1, <1>2, <1>3, Zenon DEF ControlFrame
<1>6. \A i \in 0 .. num - 1 : /\ mem'[QueueStart(num, i)].current = Control(i).current
                              /\ mem'[QueueStart(num, i)].next_control_frame = Control(i).next_control_frame
                              /\ Control(i).info => mem'[QueueStart(num, i)].info
  BY <1>1, <1>3, <1>5 DEF Control
<1>7. c \in [addr : Frame, size : Nat]
  BY <1>2, <1>3 DEF ControlFrame
<1>8. /\ controlFrames' \in Seq([addr : Frame, size : Nat]) /\ Len(controlFrames') = k + 1
      /\ \A j \in 1 .. k : controlFrames'[j] = controlFrames[j]
      /\ controlFrames'[k + 1].addr = clientAddr
  BY <1>1, <1>2, <1>7
<1>9. HostInv'
  BY <1>1, <1>2, <1>5, <1>6 DEF StartupInv, HostInv, Control
<1>10. \A j \in 1 .. k + 1 : j <= num /\ controlFrames'[j].addr = QueueStart(num, j - 1) /\ mem'[QueueStart(num, j - 1)].info
  <2> TAKE j \in 1 .. k + 1
  <2>1. CASE j = k + 1
    BY <1>1, <1>2, <1>3, <1>5, <1>8, <2>1 DEF Control
  <2>2. CASE j # k + 1
    <3>1. j \in 1 .. k /\ j - 1 \in 0 .. num - 1
      BY <1>3, <2>2
    <3> QED BY <1>3, <1>6, <1>8, <3>1, Zenon DEF StartupInv, WalkInv, Control
  <2> QED BY <2>1, <2>2
<1>11. \A i \in 0 .. num - 1 : mem'[QueueStart(num, i)].current = "max"
  BY <1>1, <1>6 DEF StartupInv, WalkInv, Control
<1> HIDE DEF k, c
<1>12. WalkInv'
  <2>1. CASE k = num - 1
    <3>1. clientPc' = "release" /\ toRelease' = num
      BY <1>1, <1>3, <1>4, <2>1
    <3> QED BY <1>1, <1>3, <1>8, <1>10, <1>11, <2>1, <3>1 DEF WalkInv, Control
  <2>2. CASE k # num - 1
    <3>1. clientPc' = "boot" /\ clientAddr' = QueueStart(num, k + 1)
      BY <1>1, <1>3, <1>4, <2>2
    <3> QED BY <1>1, <1>3, <1>8, <1>10, <1>11, <2>2, <3>1 DEF WalkInv, Control
  <2> QED BY <2>1, <2>2
<1> QED BY <1>9, <1>12 DEF StartupInv

(* Releasing goes from the last control frame to the first. *)
LEMMA ReleaseStartup == StartupInv /\ Release => StartupInv'
<1> SUFFICES ASSUME StartupInv, Release PROVE StartupInv'
  OBVIOUS
<1> DEFINE a == controlFrames[toRelease].addr
<1>1. /\ clientPc = "release" /\ mem' = [mem EXCEPT ![a].current = "zero"] /\ toRelease' = toRelease - 1
      /\ clientPc' = IF toRelease = 1 THEN "incoming" ELSE "release"
      /\ UNCHANGED <<num, hostPc, hostIdx, clientAddr, controlFrames>>
  BY DEF Release, hostVars
<1>2. /\ hostPc \notin {"idle", "setup", "spawn", "ready", "running"} /\ num \in Nums /\ mem \in [Frame -> ControlFrame]
      /\ toRelease \in 1 .. num /\ Len(controlFrames) = num
  BY <1>1 DEF StartupInv, HostInv, WalkInv
<1>3. num \in Nat /\ a = QueueStart(num, toRelease - 1) /\ a \in Frame
      /\ \A i \in 0 .. num - 1 : /\ QueueStart(num, i) \in Frame
                                 /\ i # toRelease - 1 => QueueStart(num, i) # a
  <2>1. Chained(num)
    BY <1>2, NumsChained
  <2>2. num \in Nat /\ toRelease - 1 \in 0 .. num - 1
    BY <1>2, <2>1 DEF Chained
  <2>3. a = QueueStart(num, toRelease - 1)
    BY <1>2, <2>2 DEF StartupInv, WalkInv
  <2> QED BY <2>1, <2>2, <2>3 DEF Chained
<1> HIDE DEF a
<1>4. /\ mem' \in [Frame -> ControlFrame] /\ mem'[a].current = "zero"
      /\ \A f \in Frame : /\ mem'[f].info = mem[f].info
                          /\ mem'[f].next_control_frame = mem[f].next_control_frame
                          /\ f # a => mem'[f].current = mem[f].current
  <2> DEFINE c == [mem[a] EXCEPT !.current = "zero"]
  <2>1. mem' = [mem EXCEPT ![a] = c]
    BY <1>1
  <2>2. mem \in [Frame -> ControlFrame] /\ a \in Frame
    BY <1>2, <1>3
  <2>3. /\ c \in ControlFrame /\ c.current = "zero" /\ c.info = mem[a].info
        /\ c.next_control_frame = mem[a].next_control_frame
    BY <2>2 DEF ControlFrame
  <2> HIDE DEF c
  <2>4. mem' \in [Frame -> ControlFrame] /\ mem'[a] = c /\ \A f \in Frame : f # a => mem'[f] = mem[f]
    BY <2>1, <2>2, <2>3
  <2> QED BY <2>3, <2>4
<1>5. \A i \in 0 .. num - 1 :
          /\ mem'[QueueStart(num, i)].info = Control(i).info
          /\ mem'[QueueStart(num, i)].next_control_frame = Control(i).next_control_frame
          /\ mem'[QueueStart(num, i)].current = IF i = toRelease - 1 THEN "zero" ELSE Control(i).current
  BY <1>1, <1>3, <1>4 DEF Control
<1>6. HostInv'
  BY <1>1, <1>2, <1>4, <1>5 DEF StartupInv, HostInv, Control
<1>7. \A i \in 0 .. num - 1 : mem'[QueueStart(num, i)].current = IF i < toRelease - 1 THEN "max" ELSE "zero"
  <2>1. \A i \in 0 .. num - 1 : Control(i).current = IF i < toRelease THEN "max" ELSE "zero"
    BY <1>1 DEF StartupInv, WalkInv
  <2>2. num \in Nat /\ toRelease \in 1 .. num
    BY <1>2, <1>3
  <2> QED BY <1>5, <2>1, <2>2
<1>8. \A j \in 1 .. Len(controlFrames) : mem'[QueueStart(num, j - 1)].info
  <2>1. \A j \in 1 .. Len(controlFrames) : j - 1 \in 0 .. num - 1 /\ Control(j - 1).info
    BY <1>1, <1>2, <1>3 DEF StartupInv, WalkInv
  <2> QED BY <1>5, <2>1
<1>9. WalkInv'
  <2>1. CASE toRelease = 1
    BY <1>1, <1>2, <1>3, <1>7, <1>8, <2>1 DEF StartupInv, WalkInv, Control
  <2>2. CASE toRelease # 1
    BY <1>1, <1>2, <1>3, <1>7, <1>8, <2>2 DEF StartupInv, WalkInv, Control
  <2> QED BY <2>1, <2>2
<1> QED BY <1>6, <1>9 DEF StartupInv

(* Taking over the queues touches no control frame. *)
LEMMA IncomingStartup == StartupInv /\ NewIncoming => StartupInv'
<1> SUFFICES ASSUME StartupInv, NewIncoming PROVE StartupInv'
  OBVIOUS
<1>1. /\ clientPc = "incoming" /\ clientPc' \in {"serve", "benchmark"}
      /\ UNCHANGED <<num, mem, hostPc, hostIdx, clientAddr, controlFrames, toRelease>>
  BY Zenon DEF NewIncoming, hostVars
<1>2. HostInv'
  BY <1>1 DEF StartupInv, HostInv, Control
<1>3. WalkInv'
  BY <1>1 DEF StartupInv, WalkInv, Control
<1> QED BY <1>2, <1>3 DEF StartupInv


-----------------------------------------------------------------------------
(* The machine.                                                            *)

MachineInv == StartupInv /\ PagesInv

(* The strengthened invariant holds in every reachable state. *)
THEOREM MachineInvariance == MachineSpec => []MachineInv
<1>1. MachineInit => MachineInv
  BY InitStartup, InitPages DEF MachineInit, MachineInv
<1>2. StartupInv /\ Next => StartupInv'
  BY StartStartup, SetupStartup, SpawnStartup, PollStartup, HostStartup, WalkStartup, ReleaseStartup,
     IncomingStartup DEF Next, HostStep, ClientStep
<1>3. MachineInv /\ [MachineNext]_machineVars => MachineInv'
  <2> SUFFICES ASSUME MachineInv, [MachineNext]_machineVars PROVE MachineInv'
    OBVIOUS
  <2>1. CASE Next /\ UNCHANGED pageVars
    BY <1>2, <2>1, StutterPages DEF MachineInv
  <2>2. CASE Serve
    BY <2>2, PagesStep, StutterStartup DEF MachineInv, Serve
  <2>3. CASE UNCHANGED machineVars
    BY <2>3, StutterPages, StutterStartup DEF MachineInv, machineVars
  <2> QED BY <2>1, <2>2, <2>3 DEF MachineNext
<1> QED BY <1>1, <1>3, PTL DEF MachineSpec

(* Once VmOptions::start has returned, the client has filled in and        *)
(* released every control frame, for every number of queues: it releases   *)
(* the first one, which the host polls, last.                              *)
THEOREM StartHandsOver == MachineSpec => []ReadyMeansInitialised
<1>1. MachineInv => ReadyMeansInitialised
  <2> SUFFICES ASSUME MachineInv, hostPc \in {"ready", "running"}, NEW i \in 0 .. num - 1
               PROVE  mem[QueueStart(num, i)].info /\ mem[QueueStart(num, i)].current = "zero"
    BY DEF ReadyMeansInitialised
  <2>1. clientPc \in {"incoming", "serve", "benchmark"} /\ num \in Nums
    BY DEF MachineInv, StartupInv, HostInv
  <2>2. num \in Nat /\ Len(controlFrames) = num
    BY <2>1, NumsChained DEF MachineInv, StartupInv, WalkInv, Chained
  <2>3. i + 1 \in 1 .. Len(controlFrames) /\ (i + 1) - 1 = i
    BY <2>2
  <2>4. Control((i + 1) - 1).info
    BY <2>3 DEF MachineInv, StartupInv, WalkInv
  <2>5. Control(i).current = "zero"
    BY <2>1 DEF MachineInv, StartupInv, WalkInv
  <2> QED BY <2>3, <2>4, <2>5 DEF Control
<1> QED BY <1>1, MachineInvariance, PTL

(* In every state of a machine the frames of its observers are disjoint    *)
(* and inside the shared memory.                                           *)
THEOREM FramesDisjoint == MachineSpec => []RegionsDisjoint
<1>1. MachineInv => RegionsDisjoint
  <2>1. CASE num \in Nums
    BY <2>1, NumsAssumption, UsableIsDisjoint
  <2>2. CASE num = 0
    BY <2>2 DEF RegionsDisjoint
  <2> QED BY <2>1, <2>2 DEF MachineInv, StartupInv, HostInv
<1> QED BY <1>1, MachineInvariance, PTL

(* An observed instruction sees the pages of its command, backed by the    *)
(* frames the command names, and no page of an earlier command, whatever   *)
(* the size of the tables and of their pool.                               *)
THEOREM OwnPages == MachineSpec => []SeesOwnPages
<1>1. MachineInv => SeesOwnPages
  BY InvOwnPages DEF MachineInv
<1> QED BY <1>1, MachineInvariance, PTL
=============================================================================
