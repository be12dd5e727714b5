------------------------- MODULE StateUpdatesProofs -------------------------
(***************************************************************************)
(* Proofs about StateUpdates, for any number of states, members, updates,  *)
(* registrations and connections: as long as callbacks leave the state     *)
(* they are called for alone, no callback and no broker misses what is     *)
(* newest; and in any case no callback is called for nothing.              *)
(***************************************************************************)
EXTENDS StateUpdates, SequenceTheorems, TLAPS

-----------------------------------------------------------------------------
(* Configs and chains. *)

\* A node stands for at least one member.
LEMMA SomeMember ==
    ASSUME NEW node \in Nodes
    PROVE  Under(node) \subseteq Nodes /\ Under(node) \ {Root} # {}
BY StateUpdatesAssumption DEF Nodes, Under

\* What a callback gets is a content, and so not the mark of one that was not called.
LEMMA ContentType ==
    ASSUME StateTypeOK, NEW s \in States, NEW node \in Nodes
    PROVE  /\ Content(s, node) \in [Under(node) \ {Root} -> 0 .. MaxUpdates]
           /\ Content(s, node) \in Seen /\ Content(s, node) # NotCalled
           /\ FirstCall(s, node) \in Seen
<1> USE StateUpdatesAssumption
<1>1. Content(s, node) \in [Under(node) \ {Root} -> 0 .. MaxUpdates]
  BY SomeMember DEF Content, StateTypeOK, Nodes
<1>2. Content(s, node) \in Seen
  BY <1>1 DEF Seen
<1>3. Content(s, node) # NotCalled
  <2>1. DOMAIN Content(s, node) # {}
    BY SomeMember DEF Content
  <2>2. DOMAIN NotCalled = {}
    BY DEF NotCalled
  <2> QED
    BY <2>1, <2>2
<1> QED
  BY <1>1, <1>2, <1>3 DEF FirstCall, Seen

\* Removing an element moves those behind it forward.
LEMMA RemoveAtEffect ==
    ASSUME NEW T, NEW q \in Seq(T), NEW i \in 1 .. Len(q)
    PROVE  /\ RemoveAt(q, i) \in Seq(T) /\ Len(RemoveAt(q, i)) = Len(q) - 1
           /\ \A j \in 1 .. Len(q) - 1 :
                 RemoveAt(q, i)[j] = IF j < i THEN q[j] ELSE q[j + 1]
<1> DEFINE a == SubSeq(q, 1, i - 1)
           b == SubSeq(q, i + 1, Len(q))
<1>1. a \in Seq(T) /\ Len(a) = i - 1 /\ \A j \in 1 .. i - 1 : a[j] = q[j]
  OBVIOUS
<1>2. b \in Seq(T) /\ Len(b) = Len(q) - i /\ \A j \in 1 .. Len(q) - i : b[j] = q[i + j]
  OBVIOUS
<1>3. RemoveAt(q, i) = a \o b
  BY DEF RemoveAt
<1> HIDE DEF a, b
<1>4. a \o b \in Seq(T) /\ Len(a \o b) = Len(q) - 1
  <2>1. a \o b \in Seq(T) /\ Len(a \o b) = Len(a) + Len(b)
    BY <1>1, <1>2, ConcatProperties
  <2>2. Len(q) \in Nat /\ i \in Nat
    OBVIOUS
  <2> QED
    BY <1>1, <1>2, <2>1, <2>2
<1>5. ASSUME NEW j \in 1 .. Len(q) - 1
      PROVE  (a \o b)[j] = IF j < i THEN q[j] ELSE q[j + 1]
  <2>1. CASE j < i
    BY <1>1, <1>2, <2>1
  <2>2. CASE ~(j < i)
    <3>1. (a \o b)[j] = b[j - Len(a)]
      BY <1>1, <1>2, <2>2
    <3>2. j - Len(a) \in 1 .. Len(q) - i /\ i + (j - Len(a)) = j + 1
      BY <1>1, <2>2
    <3> QED
      BY <1>2, <2>2, <3>1, <3>2
  <2> QED
    BY <2>1, <2>2
<1> QED
  BY <1>3, <1>4, <1>5

\* The chains of registrations.
Chains(c) == c \in [States -> Seq(Registration)]

\* A callback that is called has seen the content of its node.
LEMMA CalledEffect ==
    ASSUME StateTypeOK, Chains(chain), NEW s \in States, NEW i \in 1 .. Len(chain[s])
    PROVE  /\ Chains(Called(s, i))
           /\ \A d \in States \ {s} : Called(s, i)[d] = chain[d]
           /\ Len(Called(s, i)[s]) = Len(chain[s])
           /\ \A j \in 1 .. Len(chain[s]) : j # i => Called(s, i)[s][j] = chain[s][j]
           /\ Called(s, i)[s][i].id = chain[s][i].id /\ Called(s, i)[s][i].node = chain[s][i].node
           /\ Called(s, i)[s][i].seen = Content(s, chain[s][i].node)
<1>1. chain[s] \in Seq(Registration) /\ chain[s][i] \in Registration
  BY DEF Chains
<1>2. Content(s, chain[s][i].node) \in Seen
  BY <1>1, ContentType DEF Registration
<1> DEFINE reg == [chain[s][i] EXCEPT !.seen = Content(s, chain[s][i].node)]
           q == [chain[s] EXCEPT ![i] = reg]
<1>3. /\ reg \in Registration /\ reg.id = chain[s][i].id /\ reg.node = chain[s][i].node
      /\ reg.seen = Content(s, chain[s][i].node)
  BY <1>1, <1>2 DEF Registration
<1>4. Called(s, i) = [chain EXCEPT ![s] = q]
  BY DEF Called
<1> HIDE DEF reg
<1>5. q \in Seq(Registration) /\ Len(q) = Len(chain[s]) /\ q[i] = reg
      /\ \A j \in 1 .. Len(chain[s]) : j # i => q[j] = chain[s][j]
  BY <1>1, <1>3
<1> HIDE DEF q
<1> QED
  BY <1>3, <1>4, <1>5 DEF Chains

\* A new registration is the last one in its chain.
LEMMA RegisteredEffect ==
    ASSUME StateTypeOK, registrations \in Nat, NEW c, Chains(c), NEW u \in States, NEW node \in Nodes
    PROVE  /\ Chains(Registered(c, u, node))
           /\ \A d \in States \ {u} : Registered(c, u, node)[d] = c[d]
           /\ Len(Registered(c, u, node)[u]) = Len(c[u]) + 1
           /\ \A j \in 1 .. Len(c[u]) : Registered(c, u, node)[u][j] = c[u][j]
           /\ Registered(c, u, node)[u][Len(c[u]) + 1]
                = [id |-> registrations, node |-> node, seen |-> FirstCall(u, node)]
<1> DEFINE reg == [id |-> registrations, node |-> node, seen |-> FirstCall(u, node)]
<1>1. reg \in Registration
  BY ContentType DEF Registration
<1>2. c[u] \in Seq(Registration) /\ Registered(c, u, node) = [c EXCEPT ![u] = Append(c[u], reg)]
  BY DEF Chains, Registered
<1> HIDE DEF reg
<1>3. /\ Append(c[u], reg) \in Seq(Registration) /\ Len(Append(c[u], reg)) = Len(c[u]) + 1
      /\ \A j \in 1 .. Len(c[u]) : Append(c[u], reg)[j] = c[u][j]
      /\ Append(c[u], reg)[Len(c[u]) + 1] = reg
  BY <1>1, <1>2, AppendProperties
<1> QED
  BY <1>2, <1>3 DEF Chains, reg

\* A registration that is unlinked is gone, the others keep their order.
LEMMA UnlinkedEffect ==
    ASSUME NEW c, Chains(c), NEW s \in States, NEW i \in 1 .. Len(c[s])
    PROVE  /\ Chains(Unlinked(c, s, i))
           /\ \A d \in States \ {s} : Unlinked(c, s, i)[d] = c[d]
           /\ Len(Unlinked(c, s, i)[s]) = Len(c[s]) - 1
           /\ \A j \in 1 .. Len(c[s]) - 1 :
                 Unlinked(c, s, i)[s][j] = IF j < i THEN c[s][j] ELSE c[s][j + 1]
<1>1. c[s] \in Seq(Registration)
  BY DEF Chains
<1>2. Unlinked(c, s, i) = [c EXCEPT ![s] = RemoveAt(c[s], i)]
  BY DEF Unlinked
<1> QED
  BY <1>1, <1>2, RemoveAtEffect DEF Chains

\* Registrations one by one: no two share an id, and the next id is new.
UniqueIds ==
    \A d, e \in States : \A j \in 1 .. Len(chain[d]), k \in 1 .. Len(chain[e]) :
        chain[d][j].id = chain[e][k].id => d = e /\ j = k

LowIds == \A d \in States : \A j \in 1 .. Len(chain[d]) : chain[d][j].id < registrations

LEMMA ChainForm == ChainTypeOK => Chains(chain) /\ UniqueIds /\ LowIds
<1> SUFFICES ASSUME ChainTypeOK
             PROVE  Chains(chain) /\ UniqueIds /\ LowIds
  OBVIOUS
<1>1. Chains(chain)
  BY DEF ChainTypeOK, Chains
<1>2. ASSUME NEW d \in States, NEW j \in 1 .. Len(chain[d])
      PROVE  <<d, j>> \in Regs /\ Reg(<<d, j>>) = chain[d][j]
  BY <1>1 DEF Chains, Regs, Reg
<1>3. UniqueIds
  <2> SUFFICES ASSUME NEW d \in States, NEW e \in States, NEW j \in 1 .. Len(chain[d]),
                      NEW k \in 1 .. Len(chain[e]), chain[d][j].id = chain[e][k].id
               PROVE  d = e /\ j = k
    BY DEF UniqueIds
  <2>1. <<d, j>> = <<e, k>>
    <3>1. <<d, j>> \in Regs /\ <<e, k>> \in Regs
      BY <1>2
    <3>2. Reg(<<d, j>>) = chain[d][j] /\ Reg(<<e, k>>) = chain[e][k]
      BY <1>2
    <3> QED
      BY <3>1, <3>2 DEF ChainTypeOK
  <2> QED
    BY <2>1
<1>4. LowIds
  <2> SUFFICES ASSUME NEW d \in States, NEW j \in 1 .. Len(chain[d])
               PROVE  chain[d][j].id < registrations
    BY DEF LowIds
  <2>1. <<d, j>> \in Regs /\ Reg(<<d, j>>) = chain[d][j]
    BY <1>2
  <2>2. Reg(<<d, j>>).id < registrations
    BY <2>1 DEF ChainTypeOK
  <2> QED
    BY <2>1, <2>2
<1> QED
  BY <1>1, <1>3, <1>4

\* And the other way round, behind a step.
LEMMA ChainFormNext ==
    ASSUME Chains(chain'), UniqueIds', LowIds', (registrations \in 0 .. MaxRegistrations)'
    PROVE  ChainTypeOK'
<1>1. ASSUME NEW r \in Regs'
      PROVE  /\ r[1] \in States /\ r[2] \in 1 .. Len(chain'[r[1]]) /\ r = <<r[1], r[2]>>
             /\ Reg(r)' = chain'[r[1]][r[2]]
  <2>1. PICK d \in States : \E j \in DOMAIN chain'[d] : r = <<d, j>>
    BY DEF Regs
  <2>2. PICK j \in DOMAIN chain'[d] : r = <<d, j>>
    BY <2>1
  <2> QED
    BY <2>1, <2>2 DEF Chains, Reg
<1>2. ASSUME NEW r \in Regs', NEW q \in Regs', Reg(r)'.id = Reg(q)'.id
      PROVE  r = q
  <2>1. r[1] = q[1] /\ r[2] = q[2]
    BY <1>1, <1>2 DEF UniqueIds
  <2> QED
    BY <1>1, <2>1
<1>3. ASSUME NEW r \in Regs'
      PROVE  Reg(r)'.id < registrations'
  BY <1>1 DEF LowIds
<1> QED
  BY <1>2, <1>3 DEF ChainTypeOK, Chains

\* Where a registration was before the push gave up the one it had called.
Place(keep, d, j) == IF ~keep /\ d = push.at /\ j > push.reg THEN j + 1 ELSE j

\* What registration j of state d may be behind a callback: one of the others, the
\* one that was called, or one that the callback registered for u.
AfterCallback(keep, u, d, j) ==
    \/ /\ Place(keep, d, j) \in 1 .. Len(chain[d])
       /\ ~(d = push.at /\ Place(keep, d, j) = push.reg + 1)
       /\ chain'[d][j] = chain[d][Place(keep, d, j)]
    \/ /\ keep /\ d = push.at /\ j = push.reg + 1
       /\ chain'[d][j].id = chain[d][j].id /\ chain'[d][j].node = chain[d][j].node
       /\ chain'[d][j].seen = Content(d, chain[d][j].node)
    \/ /\ d = u /\ j = Len(chain'[u]) /\ registrations' = registrations + 1
       /\ registrations < MaxRegistrations /\ UNCHANGED <<value, updated, updates>>
       /\ chain'[d][j].id = registrations /\ chain'[d][j].node \in Nodes
       /\ chain'[d][j].seen = FirstCall(d, chain'[d][j].node)
       /\ (d = push.at => j > push'.reg)

\* What a callback leaves behind: its own registration or none, perhaps a new one,
\* and all others.
LEMMA PushEventEffect ==
    ASSUME TypeOK, NEW keep \in BOOLEAN, PushEvent(keep)
    PROVE  /\ push.at \in States /\ push.reg \in Nat /\ push.reg + 1 \in 1 .. Len(chain[push.at])
           /\ push.todo = {"event"}
           /\ push' = [push EXCEPT !.reg = IF keep THEN push.reg + 1 ELSE push.reg]
           /\ Chains(chain') /\ push'.reg <= Len(chain'[push.at])
           /\ \E u \in States : \A d \in States : \A j \in 1 .. Len(chain'[d]) :
                 AfterCallback(keep, u, d, j)
<1> DEFINE s == push.at
           i == push.reg + 1
<1>1. StateTypeOK /\ Chains(chain) /\ PushTypeOK /\ registrations \in 0 .. MaxRegistrations
  BY ChainForm DEF TypeOK, ChainTypeOK
<1>2. push.todo = {"event"} /\ push.at # 0 /\ s \in States /\ push.reg \in Nat
  <2>1. push.todo = {"event"}
    BY <1>1 DEF PushEvent, Is, PushTypeOK, Backends
  <2>2. push.at # 0
    BY <1>1, <2>1 DEF PushTypeOK, Idle
  <2> QED
    BY <1>1, <2>1, <2>2, StateUpdatesAssumption DEF PushTypeOK, States
<1>3. i \in 1 .. Len(chain[s]) /\ Len(chain[s]) \in Nat
  <2>1. Len(chain[s]) \in Nat /\ i <= Len(chain[s])
    BY <1>1, <1>2 DEF Chains, PushEvent
  <2> QED
    BY <1>2, <2>1
<1>4. push' = [push EXCEPT !.reg = IF keep THEN push.reg + 1 ELSE push.reg]
  BY <1>1, <1>2 DEF PushEvent, NextReg, PushTypeOK
<1>5. PICK u \in States : \E c :
         /\ chain' = IF keep THEN c ELSE Unlinked(c, s, i)
         /\ \/ c = Called(s, i)
            \/ \E node \in Nodes : /\ c = Registered(Called(s, i), u, node)
                                   /\ registrations' = registrations + 1
                                   /\ registrations < MaxRegistrations
                                   /\ UNCHANGED <<value, updated, updates>>
  <2>1. CASE chain' = IF keep THEN Called(s, i) ELSE Unlinked(Called(s, i), s, i)
    BY <1>2, <2>1
  <2>2. CASE /\ registrations < MaxRegistrations /\ registrations' = registrations + 1
             /\ UNCHANGED <<value, updated, updates>>
             /\ \E u \in States, node \in Nodes :
                   chain' = IF keep THEN Registered(Called(s, i), u, node)
                            ELSE Unlinked(Registered(Called(s, i), u, node), s, i)
    <3>1. PICK u \in States, node \in Nodes :
             chain' = IF keep THEN Registered(Called(s, i), u, node)
                      ELSE Unlinked(Registered(Called(s, i), u, node), s, i)
      BY <2>2
    <3>2. PICK c : c = Registered(Called(s, i), u, node)
      OBVIOUS
    <3> QED
      BY <2>2, <3>1, <3>2
  <2> QED
    BY <2>1, <2>2 DEF PushEvent
<1>p. PICK c :
         /\ chain' = IF keep THEN c ELSE Unlinked(c, s, i)
         /\ \/ c = Called(s, i)
            \/ \E node \in Nodes : /\ c = Registered(Called(s, i), u, node)
                                   /\ registrations' = registrations + 1
                                   /\ registrations < MaxRegistrations
                                   /\ UNCHANGED <<value, updated, updates>>
  BY <1>5
<1>c. /\ Chains(Called(s, i))
      /\ \A d \in States \ {s} : Called(s, i)[d] = chain[d]
      /\ Len(Called(s, i)[s]) = Len(chain[s])
      /\ \A j \in 1 .. Len(chain[s]) : j # i => Called(s, i)[s][j] = chain[s][j]
      /\ Called(s, i)[s][i].id = chain[s][i].id /\ Called(s, i)[s][i].node = chain[s][i].node
      /\ Called(s, i)[s][i].seen = Content(s, chain[s][i].node)
  BY <1>1, <1>2, <1>3, CalledEffect
<1>l. \A d \in States : Len(chain[d]) \in Nat /\ Len(Called(s, i)[d]) = Len(chain[d])
  <2> SUFFICES ASSUME NEW d \in States
               PROVE  Len(chain[d]) \in Nat /\ Len(Called(s, i)[d]) = Len(chain[d])
    OBVIOUS
  <2>1. CASE d = s
    BY <1>c, <1>3, <2>1
  <2>2. CASE d # s
    <3>1. chain[d] \in Seq(Registration) /\ Called(s, i)[d] = chain[d]
      BY <1>1, <1>c, <2>2 DEF Chains
    <3> QED
      BY <3>1
  <2> QED
    BY <2>1, <2>2
<1> DEFINE Old(d, j) == j \in 1 .. Len(chain[d]) /\ ~(d = s /\ j = i) /\ c[d][j] = chain[d][j]
           This(d, j) == /\ d = s /\ j = i
                         /\ c[d][j].id = chain[d][j].id /\ c[d][j].node = chain[d][j].node
                         /\ c[d][j].seen = Content(d, chain[d][j].node)
           New(d, j) == /\ d = u /\ j = Len(chain[d]) + 1 /\ j = Len(c[d])
                        /\ registrations' = registrations + 1
                        /\ registrations < MaxRegistrations /\ UNCHANGED <<value, updated, updates>>
                        /\ c[d][j].id = registrations /\ c[d][j].node \in Nodes
                        /\ c[d][j].seen = FirstCall(d, c[d][j].node)
<1>6. /\ Chains(c) /\ Len(c[s]) >= Len(chain[s])
      /\ \A d \in States : \A j \in 1 .. Len(c[d]) : Old(d, j) \/ This(d, j) \/ New(d, j)
  <2>1. CASE c = Called(s, i)
    <3>1. ASSUME NEW d \in States, NEW j \in 1 .. Len(c[d])
          PROVE  Old(d, j) \/ This(d, j)
      <4>1. j \in 1 .. Len(chain[d])
        BY <2>1, <1>l
      <4>2. CASE d # s
        BY <2>1, <4>1, <4>2, <1>c
      <4>3. CASE d = s
        BY <2>1, <4>1, <4>3, <1>c
      <4> QED
        BY <4>2, <4>3
    <3>2. Chains(c) /\ Len(c[s]) >= Len(chain[s])
      BY <1>2, <1>3, <2>1, <1>c
    <3> QED
      BY <3>1, <3>2
  <2>2. CASE ~(c = Called(s, i))
    <3>1. PICK node \in Nodes : /\ c = Registered(Called(s, i), u, node)
                                /\ registrations' = registrations + 1
                                /\ registrations < MaxRegistrations
                                /\ UNCHANGED <<value, updated, updates>>
      BY <1>p, <2>2
    <3>2. /\ Chains(c) /\ \A d \in States \ {u} : c[d] = Called(s, i)[d]
          /\ Len(c[u]) = Len(chain[u]) + 1
          /\ \A j \in 1 .. Len(chain[u]) : c[u][j] = Called(s, i)[u][j]
          /\ c[u][Len(chain[u]) + 1]
                = [id |-> registrations, node |-> node, seen |-> FirstCall(u, node)]
      <4>1. registrations \in Nat /\ Len(Called(s, i)[u]) = Len(chain[u])
        BY <1>1, <1>l, StateUpdatesAssumption
      <4>2. PICK e : e = Called(s, i)
        OBVIOUS
      <4>3. Chains(e) /\ c = Registered(e, u, node)
        BY <3>1, <1>c, <4>2
      <4>4. /\ Chains(c) /\ \A d \in States \ {u} : c[d] = e[d]
            /\ Len(c[u]) = Len(e[u]) + 1
            /\ \A j \in 1 .. Len(e[u]) : c[u][j] = e[u][j]
            /\ c[u][Len(e[u]) + 1]
                  = [id |-> registrations, node |-> node, seen |-> FirstCall(u, node)]
        BY <1>1, <4>1, <4>3, RegisteredEffect
      <4>5. Len(e[u]) = Len(chain[u])
        BY <4>1, <4>2
      <4>6. /\ Chains(c) /\ \A d \in States \ {u} : c[d] = e[d]
            /\ Len(c[u]) = Len(chain[u]) + 1
            /\ \A j \in 1 .. Len(chain[u]) : c[u][j] = e[u][j]
            /\ c[u][Len(chain[u]) + 1]
                  = [id |-> registrations, node |-> node, seen |-> FirstCall(u, node)]
        BY <4>4, <4>5, Zenon
      <4> QED
        BY <4>2, <4>6, Zenon
    <3>3. ASSUME NEW d \in States, NEW j \in 1 .. Len(c[d])
          PROVE  Old(d, j) \/ This(d, j) \/ New(d, j)
      <4>1. CASE j \in 1 .. Len(chain[d])
        <5>1. c[d][j] = Called(s, i)[d][j]
          BY <3>2, <4>1
        <5>2. CASE d # s
          BY <4>1, <5>1, <5>2, <1>c
        <5>3. CASE d = s
          BY <4>1, <5>1, <5>3, <1>c
        <5> QED
          BY <5>2, <5>3
      <4>2. CASE ~(j \in 1 .. Len(chain[d]))
        <5>1. d = u /\ j = Len(chain[d]) + 1 /\ j = Len(c[d])
          BY <3>2, <4>2, <1>l
        <5> QED
          BY <3>1, <3>2, <5>1
      <4> QED
        BY <4>1, <4>2
    <3>4. Len(c[s]) >= Len(chain[s])
      BY <1>2, <3>2, <1>l
    <3> QED
      BY <3>2, <3>3, <3>4
  <2> QED
    BY <2>1, <2>2
<1>n. \A d \in States : Len(c[d]) \in Nat
  BY <1>6 DEF Chains
<1> HIDE DEF s, i
<1>7. CASE keep
  <2>1. chain' = c
    BY <1>p, <1>7
  <2>2. push'.reg <= Len(chain'[push.at])
    BY <1>1, <1>2, <1>3, <1>4, <1>6, <1>7, <1>n, <2>1 DEF s, i, PushTypeOK
  <2>3. ASSUME NEW d \in States, NEW j \in 1 .. Len(chain'[d])
        PROVE  /\ Place(keep, d, j) = j
               /\ Old(d, j) \/ This(d, j) \/ New(d, j)
               /\ New(d, j) /\ d = s => j > push'.reg
    <3>1. Place(keep, d, j) = j
      BY <1>7 DEF Place
    <3>2. Old(d, j) \/ This(d, j) \/ New(d, j)
      BY <1>6, <2>1
    <3>3. push'.reg = i
      BY <1>1, <1>4, <1>7 DEF i, PushTypeOK
    <3>4. New(d, j) /\ d = s => j > push'.reg
      BY <1>2, <1>3, <3>3 DEF i
    <3> QED
      BY <3>1, <3>2, <3>4
  <2>4. ASSUME NEW d \in States, NEW j \in 1 .. Len(chain'[d])
        PROVE  AfterCallback(keep, u, d, j)
    <3>1. CASE Old(d, j)
      BY <2>1, <2>3, <3>1 DEF AfterCallback, s, i
    <3>2. CASE This(d, j)
      BY <1>7, <2>1, <2>3, <3>2 DEF AfterCallback, s, i
    <3>3. CASE New(d, j)
      BY <2>1, <2>3, <3>3 DEF AfterCallback, s, i
    <3> QED
      BY <2>3, <3>1, <3>2, <3>3
  <2> QED
    BY <1>2, <1>3, <1>4, <1>6, <2>1, <2>2, <2>4 DEF s, i
<1>8. CASE ~keep
  <2>1. chain' = Unlinked(c, s, i)
    BY <1>p, <1>8
  <2>2. i \in 1 .. Len(c[s])
    BY <1>2, <1>3, <1>6, <1>n
  <2>3. /\ Chains(chain') /\ \A d \in States \ {s} : chain'[d] = c[d]
        /\ Len(chain'[s]) = Len(c[s]) - 1
        /\ \A j \in 1 .. Len(c[s]) - 1 : chain'[s][j] = IF j < i THEN c[s][j] ELSE c[s][j + 1]
    <3>1. Chains(c) /\ s \in States
      BY <1>2, <1>6
    <3>2. /\ Chains(Unlinked(c, s, i))
          /\ \A d \in States \ {s} : Unlinked(c, s, i)[d] = c[d]
          /\ Len(Unlinked(c, s, i)[s]) = Len(c[s]) - 1
          /\ \A j \in 1 .. Len(c[s]) - 1 :
                Unlinked(c, s, i)[s][j] = IF j < i THEN c[s][j] ELSE c[s][j + 1]
      BY <2>2, <3>1, UnlinkedEffect
    <3> QED
      BY <2>1, <3>2
  <2>4. push'.reg <= Len(chain'[push.at]) /\ push'.reg = push.reg
    BY <1>1, <1>2, <1>4, <1>8, <1>n, <2>2, <2>3 DEF s, i, PushTypeOK
  <2>5. ASSUME NEW d \in States, NEW j \in 1 .. Len(chain'[d])
        PROVE  /\ Place(keep, d, j) \in 1 .. Len(c[d])
               /\ ~(d = s /\ Place(keep, d, j) = i)
               /\ chain'[d][j] = c[d][Place(keep, d, j)]
               /\ New(d, Place(keep, d, j)) => j = Len(chain'[d])
               /\ New(d, Place(keep, d, j)) /\ d = s => j > push'.reg
    <3>1. CASE d # s
      BY <1>8, <2>3, <3>1 DEF Place, s
    <3>2. CASE d = s
      <4>1. j \in 1 .. Len(c[s]) - 1 /\ Len(c[s]) \in Nat /\ i \in Nat
        BY <1>2, <1>n, <2>2, <2>3, <3>2
      <4>2. Place(keep, d, j) = IF j < i THEN j ELSE j + 1
        BY <1>2, <1>8, <3>2, <4>1 DEF Place, s, i
      <4>3. New(d, Place(keep, d, j)) => j = Len(chain'[d]) /\ j > push'.reg
        <5>1. SUFFICES ASSUME Place(keep, d, j) = Len(chain[s]) + 1, Place(keep, d, j) = Len(c[s])
                       PROVE  j = Len(chain'[d]) /\ j > push'.reg
          BY <3>2
        <5>2. ~(j < i)
          BY <1>3, <1>l, <1>2, <4>1, <4>2, <5>1
        <5> QED
          BY <1>2, <2>3, <2>4, <3>2, <4>1, <4>2, <5>1, <5>2 DEF i
      <4> QED
        BY <2>3, <3>2, <4>1, <4>2, <4>3
    <3> QED
      BY <3>1, <3>2
  <2>6. ASSUME NEW d \in States, NEW j \in 1 .. Len(chain'[d])
        PROVE  Old(d, Place(keep, d, j)) \/ New(d, Place(keep, d, j))
    BY <1>6, <2>5
  <2>7. ASSUME NEW d \in States, NEW j \in 1 .. Len(chain'[d])
        PROVE  AfterCallback(keep, u, d, j)
    <3>1. CASE Old(d, Place(keep, d, j))
      BY <2>5, <3>1 DEF AfterCallback, s, i
    <3>2. CASE New(d, Place(keep, d, j))
      BY <2>5, <3>2 DEF AfterCallback, s, i
    <3> QED
      BY <2>6, <3>1, <3>2
  <2> QED
    BY <1>2, <1>3, <1>4, <2>3, <2>4, <2>7 DEF s, i
<1> QED
  BY <1>7, <1>8

-----------------------------------------------------------------------------
(* What the steps do to the bits. *)

\* An update raises one value and sets the bits of its member, and does nothing else.
LEMMA UpdateEffect ==
    ASSUME StateTypeOK, NEW s \in States, NEW m \in Members, Update(s, m)
    PROVE  /\ StateTypeOK'
           /\ value'[s][m] = value[s][m] + 1
           /\ \A d \in States, n \in Members : (d = s /\ n = m) \/ value'[d][n] = value[d][n]
           /\ \A d \in States \ {s} : value'[d] = value[d] /\ updated'[d] = updated[d]
           /\ \A b \in Backends : updated'[s][b] = updated[s][b] \cup {m}
<1> USE StateUpdatesAssumption
<1>1. updates' \in 0 .. MaxUpdates /\ updates' = updates + 1 /\ updates \in Nat
  BY DEF StateTypeOK, Update
<1>2. value[s][m] \in 0 .. updates /\ value[s] \in [Members -> 0 .. updates]
  BY DEF StateTypeOK
<1>3. /\ value' = [value EXCEPT ![s] = [value[s] EXCEPT ![m] = value[s][m] + 1]]
      /\ value[s][m] + 1 \in 0 .. updates'
  BY <1>1, <1>2 DEF Update, StateTypeOK
<1>4. value' \in [States -> [Members -> 0 .. updates']]
  <2>1. 0 .. updates \subseteq 0 .. updates'
    BY <1>1
  <2>2. [value[s] EXCEPT ![m] = value[s][m] + 1] \in [Members -> 0 .. updates']
    BY <1>2, <1>3, <2>1
  <2>3. value \in [States -> [Members -> 0 .. updates']]
    BY <2>1 DEF StateTypeOK
  <2> QED
    BY <1>3, <2>2, <2>3
<1>5. /\ value'[s] = [value[s] EXCEPT ![m] = value[s][m] + 1]
      /\ \A d \in States \ {s} : value'[d] = value[d]
  BY <1>3 DEF StateTypeOK
<1>6. /\ updated'[s] = [b \in Backends |-> updated[s][b] \cup {m}]
      /\ \A d \in States \ {s} : updated'[d] = updated[d]
      /\ updated' \in [States -> [Backends -> SUBSET Nodes]]
  <2>1. updated' = [updated EXCEPT ![s] = [b \in Backends |-> updated[s][b] \cup {m}]]
    BY DEF Update
  <2>2. [b \in Backends |-> updated[s][b] \cup {m}] \in [Backends -> SUBSET Nodes]
    BY DEF StateTypeOK, Nodes
  <2> QED
    BY <2>1, <2>2 DEF StateTypeOK
<1>7. value'[s][m] = value[s][m] + 1
  BY <1>2, <1>5
<1>8. ASSUME NEW d \in States, NEW n \in Members
      PROVE  (d = s /\ n = m) \/ value'[d][n] = value[d][n]
  BY <1>2, <1>5
<1> QED
  BY <1>1, <1>4, <1>5, <1>6, <1>7, <1>8 DEF StateTypeOK

\* Behind a state is the next one, or the push is over.
LEMMA BehindType ==
    ASSUME PushTypeOK, push.at # 0
    PROVE  /\ Behind(push.at) \in [at : 0 .. N, skip : BOOLEAN, todo : SUBSET Backends,
                                   sent : SUBSET {"mqtt"}, reg : Nat]
           /\ Behind(push.at).at = 0 => Behind(push.at) = Idle
           /\ Behind(push.at).todo = {} /\ Behind(push.at).sent = {} /\ Behind(push.at).reg = 0
           /\ Behind(push.at).at # push.at
<1>1. push.at \in 0 .. N /\ push.skip \in BOOLEAN /\ N \in Nat
  BY StateUpdatesAssumption DEF PushTypeOK
<1>2. CASE push.at = N
  BY <1>1, <1>2 DEF Behind, Idle
<1>3. CASE push.at # N
  <2>1. /\ Behind(push.at) = [at |-> push.at + 1, skip |-> push.skip, todo |-> {}, sent |-> {},
                              reg |-> 0]
        /\ push.at + 1 \in 0 .. N
    <3>1. Behind(push.at) = [Idle EXCEPT !.at = push.at + 1, !.skip = push.skip]
      BY <1>3 DEF Behind
    <3>2. push.at + 1 \in 0 .. N
      BY <1>1, <1>3
    <3> QED
      BY <3>1, <3>2 DEF Idle
  <2> QED
    BY <1>1, <2>1
<1> QED
  BY <1>2, <1>3

\* When Mqtt is done with a state, its bit is cleared if the state was sent and no
\* other backend wants it.
LEMMA MqttHandled ==
    ASSUME StateTypeOK, PushTypeOK, NEW sent \in BOOLEAN, Is("mqtt"), Handled("mqtt", sent)
    PROVE  /\ push.at \in States /\ push.sent = {} /\ push.reg = 0
           /\ updated' \in [States -> [Backends -> SUBSET Nodes]]
           /\ \A d \in States : updated'[d]["event"] = updated[d]["event"]
           /\ \A d \in States \ {push.at} : updated'[d]["mqtt"] = updated[d]["mqtt"]
           /\ \/ /\ push' = [push EXCEPT !.todo = {"event"}, !.sent = IF sent THEN {"mqtt"} ELSE {}]
                 /\ UNCHANGED updated
              \/ /\ push' = Behind(push.at)
                 /\ updated'[push.at]["mqtt"] = IF sent THEN {} ELSE updated[push.at]["mqtt"]
<1>1. "mqtt" \in push.todo /\ push.sent = {} /\ push.reg = 0
  BY DEF Is, PushTypeOK
<1>2. push.at \in States
  <2>1. push.at # 0
    BY <1>1 DEF PushTypeOK, Idle
  <2> QED
    BY <2>1, StateUpdatesAssumption DEF PushTypeOK, States
<1> DEFINE all == IF sent THEN {"mqtt"} ELSE {}
<1>3. CASE push.todo # {"mqtt"}
  <2>1. push.todo \ {"mqtt"} = {"event"}
    BY <1>1, <1>3 DEF PushTypeOK, Backends
  <2>2. push' = [push EXCEPT !.todo = {"event"}, !.sent = all] /\ UNCHANGED updated
    BY <1>1, <1>3, <2>1 DEF Handled
  <2> QED
    BY <1>1, <1>2, <2>2 DEF StateTypeOK
<1>4. CASE push.todo = {"mqtt"}
  <2>1. push' = Behind(push.at) /\ updated' = ClearUpdated(push.at, all)
    BY <1>1, <1>4 DEF Handled
  <2>2. ClearUpdated(push.at, all)
          = [updated EXCEPT ![push.at] =
                [b \in Backends |-> IF b \in all THEN {} ELSE updated[push.at][b]]]
    BY DEF ClearUpdated
  <2>3. [b \in Backends |-> IF b \in all THEN {} ELSE updated[push.at][b]]
          \in [Backends -> SUBSET Nodes]
    BY <1>2 DEF StateTypeOK
  <2>4. "event" \in Backends /\ "mqtt" \in Backends /\ "event" \notin all
    BY DEF Backends
  <2>5. updated' \in [States -> [Backends -> SUBSET Nodes]]
    BY <2>1, <2>2, <2>3 DEF StateTypeOK
  <2>6. /\ \A d \in States \ {push.at} : updated'[d] = updated[d]
        /\ updated'[push.at] = [b \in Backends |-> IF b \in all THEN {} ELSE updated[push.at][b]]
    BY <1>2, <2>1, <2>2 DEF StateTypeOK
  <2> HIDE DEF all
  <2>7. /\ updated'[push.at]["event"] = updated[push.at]["event"]
        /\ updated'[push.at]["mqtt"] = IF "mqtt" \in all THEN {} ELSE updated[push.at]["mqtt"]
    BY <2>4, <2>6
  <2>8. ASSUME NEW d \in States
        PROVE  updated'[d]["event"] = updated[d]["event"]
    BY <2>6, <2>7
  <2>9. updated'[push.at]["mqtt"] = IF sent THEN {} ELSE updated[push.at]["mqtt"]
    BY <2>7 DEF all
  <2> QED
    BY <1>1, <1>2, <2>1, <2>5, <2>6, <2>8, <2>9
<1> QED
  BY <1>3, <1>4

\* The events are the last: their bits are cleared, and those of Mqtt if it has sent
\* the state.
LEMMA EventHandled ==
    ASSUME StateTypeOK, PushTypeOK, Is("event"), Handled("event", TRUE)
    PROVE  /\ push.at \in States /\ push' = Behind(push.at)
           /\ updated' \in [States -> [Backends -> SUBSET Nodes]]
           /\ \A d \in States \ {push.at} : updated'[d] = updated[d]
           /\ updated'[push.at]["event"] = {}
           /\ updated'[push.at]["mqtt"]
                = IF "mqtt" \in push.sent THEN {} ELSE updated[push.at]["mqtt"]
<1>1. push.todo = {"event"}
  BY DEF Is, PushTypeOK, Backends
<1>2. push.at \in States
  <2>1. push.at # 0
    BY <1>1 DEF PushTypeOK, Idle
  <2> QED
    BY <2>1, StateUpdatesAssumption DEF PushTypeOK, States
<1> DEFINE all == push.sent \cup {"event"}
<1>3. push' = Behind(push.at) /\ updated' = ClearUpdated(push.at, all)
  BY <1>1 DEF Handled
<1>4. ClearUpdated(push.at, all)
        = [updated EXCEPT ![push.at] =
              [b \in Backends |-> IF b \in all THEN {} ELSE updated[push.at][b]]]
  BY DEF ClearUpdated
<1>5. [b \in Backends |-> IF b \in all THEN {} ELSE updated[push.at][b]]
        \in [Backends -> SUBSET Nodes]
  BY <1>2 DEF StateTypeOK
<1>6. /\ \A d \in States \ {push.at} : updated'[d] = updated[d]
      /\ updated'[push.at] = [b \in Backends |-> IF b \in all THEN {} ELSE updated[push.at][b]]
      /\ updated' \in [States -> [Backends -> SUBSET Nodes]]
  BY <1>2, <1>3, <1>4, <1>5 DEF StateTypeOK
<1>7. /\ "event" \in Backends /\ "mqtt" \in Backends /\ "event" \in all
      /\ "mqtt" \in all <=> "mqtt" \in push.sent
  BY DEF Backends
<1> HIDE DEF all
<1> QED
  BY <1>2, <1>3, <1>6, <1>7

\* An established connection sets the bits of Mqtt only.
LEMMA LinkEventEffect ==
    ASSUME StateTypeOK, HandleLinkEvent
    PROVE  /\ updated' \in [States -> [Backends -> SUBSET Nodes]]
           /\ \A d \in States : updated'[d]["event"] = updated[d]["event"]
           /\ \A d \in States : updated[d]["mqtt"] \subseteq updated'[d]["mqtt"]
           /\ Head(events) => \A d \in States : Root \in updated'[d]["mqtt"]
           /\ connected' = Head(events) \/ (connected' \in BOOLEAN /\ connected' <=> Head(events))
<1>1. CASE Head(events)
  <2>1. updated' = [d \in States |-> [updated[d] EXCEPT !["mqtt"] = updated[d]["mqtt"] \cup {Root}]]
    BY <1>1 DEF HandleLinkEvent, OnMqttConnect
  <2>2. ASSUME NEW d \in States
        PROVE  /\ [updated[d] EXCEPT !["mqtt"] = updated[d]["mqtt"] \cup {Root}]
                     \in [Backends -> SUBSET Nodes]
               /\ updated'[d]["event"] = updated[d]["event"]
               /\ updated'[d]["mqtt"] = updated[d]["mqtt"] \cup {Root}
    BY <2>1 DEF StateTypeOK, Backends, Nodes
  <2>3. updated' \in [States -> [Backends -> SUBSET Nodes]]
    BY <2>1, <2>2
  <2>4. connected' = TRUE
    BY <1>1 DEF HandleLinkEvent, OnMqttConnect
  <2> QED
    BY <1>1, <2>2, <2>3, <2>4
<1>2. CASE ~Head(events)
  BY <1>2 DEF HandleLinkEvent, OnMqttDisconnect, StateTypeOK
<1> QED
  BY <1>1, <1>2

-----------------------------------------------------------------------------
(* The types. *)

\* The values and their bits keep their types.
LEMMA StateTypeStep == TypeOK /\ [Next]_vars => StateTypeOK'
<1> SUFFICES ASSUME TypeOK, [Next]_vars
             PROVE  StateTypeOK'
  OBVIOUS
<1> USE StateUpdatesAssumption DEF TypeOK, StateTypeOK
<1>1. ASSUME Register
      PROVE  StateTypeOK'
  BY <1>1 DEF Register, RegisterEvent, mqtt
<1>2. ASSUME DeregisterEvent
      PROVE  StateTypeOK'
  BY <1>2 DEF DeregisterEvent, mqtt, bounds
<1>3. ASSUME UpdateState
      PROVE  StateTypeOK'
  <2>1. PICK s \in States, m \in Members : Update(s, m)
    BY <1>3 DEF UpdateState
  <2> QED
    BY <2>1, UpdateEffect
<1>4. ASSUME PushStart
      PROVE  StateTypeOK'
  BY <1>4 DEF PushStart, mqtt, bounds
<1>5. ASSUME PushState
      PROVE  StateTypeOK'
  BY <1>5 DEF PushState, mqtt, bounds
<1>6. ASSUME PushMqtt
      PROVE  StateTypeOK'
  <2>1. UNCHANGED <<value, updates>> /\ \E sent \in BOOLEAN : Is("mqtt") /\ Handled("mqtt", sent)
    BY <1>6 DEF PushMqtt, bounds
  <2>2. updated' \in [States -> [Backends -> SUBSET Nodes]]
    BY <2>1, MqttHandled
  <2> QED
    BY <2>1, <2>2
<1>7. ASSUME PushEventDone
      PROVE  StateTypeOK'
  <2>1. UNCHANGED <<value, updates>> /\ Is("event") /\ Handled("event", TRUE)
    BY <1>7 DEF PushEventDone, bounds
  <2>2. updated' \in [States -> [Backends -> SUBSET Nodes]]
    BY <2>1, EventHandled
  <2> QED
    BY <2>1, <2>2
<1>8. ASSUME PushEventSkip
      PROVE  StateTypeOK'
  BY <1>8 DEF PushEventSkip, mqtt, bounds
<1>9. ASSUME NEW keep \in BOOLEAN, PushEvent(keep)
      PROVE  StateTypeOK'
  <2>1. CASE UNCHANGED <<value, updated, updates>>
    BY <2>1
  <2>2. CASE \E u \in States, m \in Members : Update(u, m)
    BY <2>2, UpdateEffect
  <2> QED
    BY <1>9, <2>1, <2>2 DEF PushEvent
<1>10. ASSUME LinkChanges
      PROVE  StateTypeOK'
  BY <1>10 DEF LinkChanges
<1>11. ASSUME HandleLinkEvent
      PROVE  StateTypeOK'
  <2>1. updated' \in [States -> [Backends -> SUBSET Nodes]]
    BY <1>11, LinkEventEffect
  <2> QED
    BY <1>11, <2>1 DEF HandleLinkEvent, bounds
<1>12. ASSUME NEW s \in States, IntervalElapses(s)
      PROVE  StateTypeOK'
  BY <1>12 DEF IntervalElapses, bounds
<1>13. CASE UNCHANGED vars
  BY <1>13 DEF vars, mqtt, bounds
<1>14. QED
  BY <1>1, <1>2, <1>3, <1>4, <1>5, <1>6, <1>7, <1>8, <1>9, <1>10, <1>11, <1>12, <1>13 DEF
      Next, Push

LEMMA UnchangedChain ==
    ASSUME ChainTypeOK, UNCHANGED chain, registrations' \in {registrations, registrations + 1},
           (registrations \in 0 .. MaxRegistrations)'
    PROVE  ChainTypeOK'
<1>1. Chains(chain) /\ UniqueIds /\ LowIds /\ registrations \in 0 .. MaxRegistrations
  BY ChainForm DEF ChainTypeOK
<1>2. UniqueIds'
  <2> SUFFICES ASSUME NEW d \in States, NEW e \in States, NEW j \in 1 .. Len(chain[d]),
                      NEW k \in 1 .. Len(chain[e]), chain[d][j].id = chain[e][k].id
               PROVE  d = e /\ j = k
    BY DEF UniqueIds
  <2> QED
    BY <1>1 DEF UniqueIds
<1>3. LowIds'
  <2> SUFFICES ASSUME NEW d \in States, NEW j \in 1 .. Len(chain[d])
               PROVE  chain[d][j].id < registrations'
    BY DEF LowIds
  <2>1. chain[d] \in Seq(Registration) /\ chain[d][j] \in Registration
    BY <1>1 DEF Chains
  <2>2. chain[d][j].id \in Nat /\ chain[d][j].id < registrations
    BY <1>1, <2>1 DEF LowIds, Registration
  <2> QED
    BY <1>1, <2>2
<1>4. Chains(chain')
  BY <1>1
<1> QED
  BY <1>2, <1>3, <1>4, ChainFormNext

\* A registration at the end of a chain has an id of its own.
LEMMA RegisterTypes ==
    ASSUME TypeOK, NEW u \in States, NEW node \in Nodes, RegisterEvent(u, node)
    PROVE  ChainTypeOK'
<1>1. /\ StateTypeOK /\ Chains(chain) /\ UniqueIds /\ LowIds /\ registrations \in Nat
      /\ registrations' \in 0 .. MaxRegistrations /\ registrations' = registrations + 1
  BY ChainForm, StateUpdatesAssumption DEF TypeOK, ChainTypeOK, RegisterEvent
<1>2. CASE chain' = chain
  <2>1. ChainTypeOK /\ registrations' \in {registrations, registrations + 1}
    BY <1>1 DEF TypeOK
  <2> QED
    BY <1>1, <1>2, <2>1, UnchangedChain
<1>3. CASE chain' = Registered(chain, u, node)
  <2>1. /\ Chains(chain') /\ \A d \in States \ {u} : chain'[d] = chain[d]
        /\ Len(chain'[u]) = Len(chain[u]) + 1
        /\ \A j \in 1 .. Len(chain[u]) : chain'[u][j] = chain[u][j]
        /\ chain'[u][Len(chain[u]) + 1]
             = [id |-> registrations, node |-> node, seen |-> FirstCall(u, node)]
    BY <1>1, <1>3, RegisteredEffect
  <2>2. Len(chain[u]) \in Nat
    BY <1>1 DEF Chains
  <2>3. ASSUME NEW d \in States, NEW j \in 1 .. Len(chain'[d])
        PROVE  \/ j \in 1 .. Len(chain[d]) /\ chain'[d][j] = chain[d][j]
               \/ d = u /\ j = Len(chain[u]) + 1 /\ chain'[d][j].id = registrations
    BY <2>1, <2>2
  <2>4. ASSUME NEW d \in States, NEW j \in 1 .. Len(chain[d])
        PROVE  chain[d][j].id \in Nat /\ chain[d][j].id < registrations
    <3>1. chain[d][j] \in Registration
      BY <1>1 DEF Chains
    <3> QED
      BY <1>1, <3>1 DEF LowIds, Registration
  <2>5. LowIds'
    <3> SUFFICES ASSUME NEW d \in States, NEW j \in 1 .. Len(chain'[d])
                 PROVE  chain'[d][j].id < registrations'
      BY DEF LowIds
    <3>1. CASE j \in 1 .. Len(chain[d]) /\ chain'[d][j] = chain[d][j]
      BY <1>1, <2>4, <3>1
    <3>2. CASE chain'[d][j].id = registrations
      BY <1>1, <3>2
    <3> QED
      BY <2>3, <3>1, <3>2
  <2>6. UniqueIds'
    <3> SUFFICES ASSUME NEW d \in States, NEW e \in States, NEW j \in 1 .. Len(chain'[d]),
                        NEW k \in 1 .. Len(chain'[e]), chain'[d][j].id = chain'[e][k].id
                 PROVE  d = e /\ j = k
      BY DEF UniqueIds
    <3>1. \/ j \in 1 .. Len(chain[d]) /\ chain'[d][j] = chain[d][j]
          \/ d = u /\ j = Len(chain[u]) + 1 /\ chain'[d][j].id = registrations
      BY <2>3
    <3>2. \/ k \in 1 .. Len(chain[e]) /\ chain'[e][k] = chain[e][k]
          \/ e = u /\ k = Len(chain[u]) + 1 /\ chain'[e][k].id = registrations
      BY <2>3
    <3>3. CASE /\ j \in 1 .. Len(chain[d]) /\ chain'[d][j] = chain[d][j]
               /\ k \in 1 .. Len(chain[e]) /\ chain'[e][k] = chain[e][k]
      BY <1>1, <3>3 DEF UniqueIds
    <3>4. j \in 1 .. Len(chain[d]) => chain[d][j].id # registrations
      BY <1>1, <2>4
    <3>5. k \in 1 .. Len(chain[e]) => chain[e][k].id # registrations
      BY <1>1, <2>4
    <3> QED
      BY <3>1, <3>2, <3>3, <3>4, <3>5
  <2> QED
    BY <1>1, <2>1, <2>5, <2>6, ChainFormNext
<1> QED
  BY <1>2, <1>3 DEF RegisterEvent

\* The others keep their ids when one is unlinked.
LEMMA DeregisterTypes ==
    ASSUME TypeOK, NEW u \in States, NEW i \in 1 .. Len(chain[u]), chain' = Unlinked(chain, u, i),
           UNCHANGED registrations
    PROVE  ChainTypeOK'
<1>1. Chains(chain) /\ UniqueIds /\ LowIds /\ registrations \in 0 .. MaxRegistrations
  BY ChainForm DEF TypeOK, ChainTypeOK
<1>2. /\ Chains(chain') /\ \A d \in States \ {u} : chain'[d] = chain[d]
      /\ Len(chain'[u]) = Len(chain[u]) - 1
      /\ \A j \in 1 .. Len(chain[u]) - 1 : chain'[u][j] = IF j < i THEN chain[u][j] ELSE chain[u][j + 1]
  BY SMTT(20), <1>1, UnlinkedEffect
<1>3. Len(chain[u]) \in Nat /\ i \in Nat
  BY <1>1 DEF Chains
<1> DEFINE Was(d, j) == IF d = u /\ ~(j < i) THEN j + 1 ELSE j
<1>4. ASSUME NEW d \in States, NEW j \in 1 .. Len(chain'[d])
      PROVE  Was(d, j) \in 1 .. Len(chain[d]) /\ chain'[d][j] = chain[d][Was(d, j)]
  <2>1. CASE d = u
    BY <1>2, <1>3, <2>1
  <2>2. CASE d # u
    BY <1>2, <2>2
  <2> QED
    BY <2>1, <2>2
<1>5. LowIds'
  BY <1>1, <1>4 DEF LowIds
<1>6. UniqueIds'
  <2> SUFFICES ASSUME NEW d \in States, NEW e \in States, NEW j \in 1 .. Len(chain'[d]),
                      NEW k \in 1 .. Len(chain'[e]), chain'[d][j].id = chain'[e][k].id
               PROVE  d = e /\ j = k
    BY DEF UniqueIds
  <2>1. d = e /\ Was(d, j) = Was(e, k)
    <3>1. /\ Was(d, j) \in 1 .. Len(chain[d]) /\ chain'[d][j] = chain[d][Was(d, j)]
          /\ Was(e, k) \in 1 .. Len(chain[e]) /\ chain'[e][k] = chain[e][Was(e, k)]
      BY <1>4
    <3>2. chain[d][Was(d, j)].id = chain[e][Was(e, k)].id
      BY <3>1
    <3> HIDE DEF Was
    <3> QED
      BY SMTT(20), <1>1, <3>1, <3>2 DEF UniqueIds
  <2>2. j \in Int /\ k \in Int
    OBVIOUS
  <2> QED
    BY <1>3, <2>1, <2>2
<1> QED
  BY <1>1, <1>2, <1>5, <1>6, ChainFormNext

\* Neither does a callback disturb them.
LEMMA CallbackTypes ==
    ASSUME TypeOK, NEW keep \in BOOLEAN, PushEvent(keep)
    PROVE  ChainTypeOK'
<1>1. /\ Chains(chain) /\ UniqueIds /\ LowIds /\ registrations \in Nat /\ MaxRegistrations \in Nat
      /\ registrations \in 0 .. MaxRegistrations
  BY ChainForm, StateUpdatesAssumption DEF TypeOK, ChainTypeOK
<1>2. push.at \in States /\ push.reg \in Nat /\ push.reg + 1 \in 1 .. Len(chain[push.at])
      /\ Chains(chain')
  BY PushEventEffect
<1>3. PICK u \in States : \A d \in States : \A j \in 1 .. Len(chain'[d]) : AfterCallback(keep, u, d, j)
  BY PushEventEffect
<1>4. registrations' \in 0 .. MaxRegistrations /\ registrations <= registrations'
  <2>1. registrations' = registrations \/ (registrations' = registrations + 1 /\ registrations < MaxRegistrations)
    BY DEF PushEvent
  <2> QED
    BY <1>1, <2>1
<1> DEFINE Old(d, j) == /\ Place(keep, d, j) \in 1 .. Len(chain[d])
                        /\ chain'[d][j].id = chain[d][Place(keep, d, j)].id
           New(d, j) == /\ d = u /\ j = Len(chain'[u]) /\ registrations' = registrations + 1
                        /\ chain'[d][j].id = registrations
<1>5. ASSUME NEW d \in States, NEW j \in 1 .. Len(chain'[d])
      PROVE  Old(d, j) \/ New(d, j)
  <2>1. AfterCallback(keep, u, d, j)
    BY <1>3
  <2> QED
    BY <1>2, <2>1 DEF AfterCallback, Place
<1>6. ASSUME NEW d \in States, NEW j \in 1 .. Len(chain[d])
      PROVE  chain[d][j].id \in Nat /\ chain[d][j].id < registrations
  <2>1. chain[d][j] \in Registration
    BY <1>1 DEF Chains
  <2> QED
    BY <1>1, <2>1 DEF LowIds, Registration
<1>7. LowIds'
  <2> SUFFICES ASSUME NEW d \in States, NEW j \in 1 .. Len(chain'[d])
               PROVE  chain'[d][j].id < registrations'
    BY DEF LowIds
  <2>1. CASE Old(d, j)
    BY <1>1, <1>4, <1>6, <2>1
  <2>2. CASE New(d, j)
    BY <1>1, <2>2
  <2> QED
    BY <1>5, <2>1, <2>2
<1>8. UniqueIds'
  <2> SUFFICES ASSUME NEW d \in States, NEW e \in States, NEW j \in 1 .. Len(chain'[d]),
                      NEW k \in 1 .. Len(chain'[e]), chain'[d][j].id = chain'[e][k].id
               PROVE  d = e /\ j = k
    BY DEF UniqueIds
  <2>1. CASE Old(d, j) /\ Old(e, k)
    <3>1. d = e /\ Place(keep, d, j) = Place(keep, e, k)
      <4>1. Place(keep, d, j) \in 1 .. Len(chain[d]) /\ Place(keep, e, k) \in 1 .. Len(chain[e])
        BY <2>1
      <4>2. chain[d][Place(keep, d, j)].id = chain[e][Place(keep, e, k)].id
        BY <2>1
      <4> QED
        BY <1>1, <4>1, <4>2 DEF UniqueIds
    <3> QED
      BY <1>2, <3>1 DEF Place
  <2>2. Old(d, j) => chain'[d][j].id # registrations
    BY <1>1, <1>6
  <2>3. Old(e, k) => chain'[e][k].id # registrations
    BY <1>1, <1>6
  <2>4. CASE New(d, j) /\ New(e, k)
    BY <2>4
  <2>5. Old(d, j) \/ New(d, j)
    BY <1>5
  <2>6. Old(e, k) \/ New(e, k)
    BY <1>5
  <2> QED
    BY <2>1, <2>2, <2>3, <2>4, <2>5, <2>6
<1> QED
  BY <1>2, <1>4, <1>7, <1>8, ChainFormNext

\* The chains keep their types, and their ids.
LEMMA ChainTypeStep == TypeOK /\ [Next]_vars => ChainTypeOK'
<1> SUFFICES ASSUME TypeOK, [Next]_vars
             PROVE  ChainTypeOK'
  OBVIOUS
<1> USE TypeOK 
<1>1. ASSUME Register
      PROVE  ChainTypeOK'
  BY <1>1, RegisterTypes DEF Register
<1>2. ASSUME DeregisterEvent
      PROVE  ChainTypeOK'
  <2>1. PICK s \in States : \E i \in DOMAIN chain[s] : chain' = Unlinked(chain, s, i)
    BY <1>2 DEF DeregisterEvent
  <2>2. PICK i \in DOMAIN chain[s] : chain' = Unlinked(chain, s, i)
    BY <2>1
  <2>3. DOMAIN chain[s] = 1 .. Len(chain[s])
    BY DEF TypeOK, ChainTypeOK
  <2>4. UNCHANGED registrations
    BY <1>2 DEF DeregisterEvent, bounds
  <2> QED
    BY <2>2, <2>3, <2>4, DeregisterTypes
<1>3. ASSUME UpdateState
      PROVE  ChainTypeOK'
  <2>1. UNCHANGED <<chain, registrations>>
    BY <1>3 DEF UpdateState, mqtt
  <2> QED
    BY <2>1, UnchangedChain DEF TypeOK, ChainTypeOK
<1>4. ASSUME PushStart
      PROVE  ChainTypeOK'
  <2>1. UNCHANGED <<chain, registrations>>
    BY <1>4 DEF PushStart, mqtt, bounds
  <2> QED
    BY <2>1, UnchangedChain DEF TypeOK, ChainTypeOK
<1>5. ASSUME PushState
      PROVE  ChainTypeOK'
  <2>1. UNCHANGED <<chain, registrations>>
    BY <1>5 DEF PushState, mqtt, bounds
  <2> QED
    BY <2>1, UnchangedChain DEF TypeOK, ChainTypeOK
<1>6. ASSUME PushMqtt
      PROVE  ChainTypeOK'
  <2>1. UNCHANGED <<chain, registrations>>
    BY <1>6 DEF PushMqtt, bounds
  <2> QED
    BY <2>1, UnchangedChain DEF TypeOK, ChainTypeOK
<1>7. ASSUME PushEventDone
      PROVE  ChainTypeOK'
  <2>1. UNCHANGED <<chain, registrations>>
    BY <1>7 DEF PushEventDone, mqtt, bounds
  <2> QED
    BY <2>1, UnchangedChain DEF TypeOK, ChainTypeOK
<1>8. ASSUME PushEventSkip
      PROVE  ChainTypeOK'
  <2>1. UNCHANGED <<chain, registrations>>
    BY <1>8 DEF PushEventSkip, mqtt, bounds
  <2> QED
    BY <2>1, UnchangedChain DEF TypeOK, ChainTypeOK
<1>9. ASSUME NEW keep \in BOOLEAN, PushEvent(keep)
      PROVE  ChainTypeOK'
  BY <1>9, CallbackTypes
<1>10. ASSUME LinkChanges
      PROVE  ChainTypeOK'
  <2>1. UNCHANGED <<chain, registrations>>
    BY <1>10 DEF LinkChanges
  <2> QED
    BY <2>1, UnchangedChain DEF TypeOK, ChainTypeOK
<1>11. ASSUME HandleLinkEvent
      PROVE  ChainTypeOK'
  <2>1. UNCHANGED <<chain, registrations>>
    BY <1>11 DEF HandleLinkEvent, bounds
  <2> QED
    BY <2>1, UnchangedChain DEF TypeOK, ChainTypeOK
<1>12. ASSUME NEW s \in States, IntervalElapses(s)
      PROVE  ChainTypeOK'
  <2>1. UNCHANGED <<chain, registrations>>
    BY <1>12 DEF IntervalElapses, bounds
  <2> QED
    BY <2>1, UnchangedChain DEF TypeOK, ChainTypeOK
<1>13. CASE UNCHANGED vars
  BY <1>13, UnchangedChain DEF vars, mqtt, bounds, TypeOK, ChainTypeOK
<1>14. QED
  BY <1>1, <1>2, <1>3, <1>4, <1>5, <1>6, <1>7, <1>8, <1>9, <1>10, <1>11, <1>12, <1>13 DEF
      Next, Push

\* The place of a push that has nothing to do yet.
PushForm == [at : 0 .. N, skip : BOOLEAN, todo : SUBSET Backends, sent : SUBSET {"mqtt"}, reg : Nat]

LEMMA BehindIsFine ==
    ASSUME TypeOK, push.at # 0, push' = Behind(push.at), UNCHANGED chain
    PROVE  PushTypeOK'
<1>1. /\ push' \in PushForm /\ (push'.at = 0 => push' = Idle)
      /\ push'.todo = {} /\ push'.sent = {} /\ push'.reg = 0
  BY BehindType DEF TypeOK, PushForm
<1>2. push'.at > 0 => push'.reg <= Len(chain'[push'.at])
  <2> SUFFICES ASSUME push'.at > 0
               PROVE  0 <= Len(chain[push'.at])
    BY <1>1
  <2>1. push'.at \in States
    <3>1. push'.at \in 0 .. N
      BY <1>1 DEF PushForm
    <3> QED
      BY <3>1, StateUpdatesAssumption DEF States
  <2>2. chain[push'.at] \in Seq(Registration)
    BY <2>1 DEF TypeOK, ChainTypeOK
  <2> QED
    BY <2>2
<1> QED
  BY <1>1, <1>2 DEF PushTypeOK, PushForm

\* So does the place of the push.
LEMMA PushTypeStep == TypeOK /\ [Next]_vars => PushTypeOK'
<1> SUFFICES ASSUME TypeOK, [Next]_vars
             PROVE  PushTypeOK'
  OBVIOUS
<1> USE StateUpdatesAssumption DEF TypeOK
<1>1. ASSUME Register
      PROVE  PushTypeOK'
  <2>1. push = Idle /\ push' = push
    BY <1>1 DEF Register
  <2> QED
    BY <2>1 DEF PushTypeOK, Idle
<1>2. ASSUME DeregisterEvent
      PROVE  PushTypeOK'
  <2>1. push = Idle /\ push' = push
    BY <1>2 DEF DeregisterEvent
  <2> QED
    BY <2>1 DEF PushTypeOK, Idle
<1>3. ASSUME UpdateState
      PROVE  PushTypeOK'
  <2>1. push = Idle /\ push' = push
    BY <1>3 DEF UpdateState
  <2> QED
    BY <2>1 DEF PushTypeOK, Idle
<1>4. ASSUME PushStart
      PROVE  PushTypeOK'
  <2>1. push' = [at |-> 1, skip |-> counter # 0, todo |-> {}, sent |-> {}, reg |-> 0]
    BY <1>4 DEF PushStart, Idle
  <2>2. UNCHANGED chain /\ 1 \in States
    BY <1>4 DEF PushStart, States
  <2>3. chain[1] \in Seq(Registration)
    BY <2>2 DEF ChainTypeOK
  <2>4. 0 <= Len(chain[1])
    BY <2>3
  <2> QED
    BY <2>1, <2>2, <2>4, StateUpdatesAssumption DEF PushTypeOK, States
<1>5. ASSUME PushState
      PROVE  PushTypeOK'
  <2>1. CASE push' = Behind(push.at)
    BY <1>5, <2>1, BehindIsFine DEF PushState
  <2>2. CASE \E to_send \in SUBSET Backends : push' = [push EXCEPT !.todo = to_send] /\ to_send # {}
    <3>1. PICK to_send \in SUBSET Backends : push' = [push EXCEPT !.todo = to_send] /\ to_send # {}
      BY <2>2
    <3>2. push.at > 0 /\ push.sent = {} /\ push.reg = 0 /\ UNCHANGED chain
      BY <1>5 DEF PushState, PushTypeOK, Backends
    <3> QED
      BY <3>1, <3>2 DEF PushTypeOK
  <2> QED
    BY <1>5, <2>1, <2>2 DEF PushState
<1>6. ASSUME PushMqtt
      PROVE  PushTypeOK'
  <2>1. PICK sent \in BOOLEAN : UNCHANGED chain /\ Is("mqtt") /\ Handled("mqtt", sent)
    BY <1>6 DEF PushMqtt
  <2>2. push.at \in States /\ push.sent = {} /\ push.reg = 0
    BY <2>1, MqttHandled
  <2>n. push.at # 0
    BY <2>2 DEF States
  <2>3. \/ push' = [push EXCEPT !.todo = {"event"}, !.sent = IF sent THEN {"mqtt"} ELSE {}]
        \/ push' = Behind(push.at)
    BY <2>1, MqttHandled
  <2>4. CASE push' = [push EXCEPT !.todo = {"event"}, !.sent = IF sent THEN {"mqtt"} ELSE {}]
    <3>1. PICK all \in SUBSET {"mqtt"} : push' = [push EXCEPT !.todo = {"event"}, !.sent = all]
      BY <2>4
    <3>2. "event" \notin all /\ {"event"} \in SUBSET Backends /\ {"event"} # {}
      BY DEF Backends
    <3>3. /\ push' \in PushForm /\ push'.at = push.at /\ push'.reg = 0
          /\ push'.todo = {"event"} /\ push'.sent = all
      BY <2>2, <3>1, <3>2 DEF PushTypeOK, PushForm
    <3>4. 0 <= Len(chain[push.at])
      BY <2>2 DEF PushTypeOK
    <3> QED
      BY <2>1, <2>n, <3>2, <3>3, <3>4 DEF PushTypeOK, PushForm
  <2>5. CASE push' = Behind(push.at)
    BY <2>1, <2>n, <2>5, BehindIsFine
  <2> QED
    BY <2>3, <2>4, <2>5
<1>7. ASSUME PushEventDone
      PROVE  PushTypeOK'
  <2>1. UNCHANGED chain /\ Is("event") /\ Handled("event", TRUE)
    BY <1>7 DEF PushEventDone
  <2>2. push.at \in States /\ push.at # 0 /\ push' = Behind(push.at)
    BY <2>1, EventHandled DEF States
  <2> QED
    BY <2>1, <2>2, BehindIsFine
<1>8. ASSUME PushEventSkip
      PROVE  PushTypeOK'
  <2>1. UNCHANGED chain /\ Is("event") /\ push.reg < Len(chain[push.at]) /\ push' = [push EXCEPT !.reg = @ + 1]
    BY <1>8 DEF PushEventSkip
  <2>2. push.todo = {"event"} /\ push.at # 0
    BY <2>1 DEF PushTypeOK, Is, Backends, Idle
  <2>3. push.at \in States /\ push.reg \in Nat
    BY <2>2 DEF PushTypeOK, States
  <2>4. chain[push.at] \in Seq(Registration)
    BY <2>3 DEF ChainTypeOK
  <2>5. push.reg + 1 <= Len(chain[push.at]) /\ push.reg + 1 \in Nat
    BY <2>1, <2>3, <2>4
  <2> QED
    BY <2>1, <2>2, <2>5 DEF PushTypeOK
<1>9. ASSUME NEW keep \in BOOLEAN, PushEvent(keep)
      PROVE  PushTypeOK'
  <2>1. /\ push.at \in States /\ push.reg \in Nat /\ push.todo = {"event"}
        /\ push'.reg <= Len(chain'[push.at])
        /\ push' = [push EXCEPT !.reg = IF keep THEN push.reg + 1 ELSE push.reg]
    BY <1>9, PushEventEffect
  <2>2. push.at # 0 /\ (IF keep THEN push.reg + 1 ELSE push.reg) \in Nat
    BY <2>1 DEF States
  <2> QED
    BY <2>1, <2>2 DEF PushTypeOK
<1>10. ASSUME LinkChanges
      PROVE  PushTypeOK'
  <2>1. UNCHANGED <<push, chain>>
    BY <1>10 DEF LinkChanges
  <2> QED
    BY <2>1 DEF PushTypeOK
<1>11. ASSUME HandleLinkEvent
      PROVE  PushTypeOK'
  <2>1. push = Idle /\ push' = push
    BY <1>11 DEF HandleLinkEvent
  <2> QED
    BY <2>1 DEF PushTypeOK, Idle
<1>12. ASSUME NEW s \in States, IntervalElapses(s)
      PROVE  PushTypeOK'
  <2>1. UNCHANGED <<push, chain>>
    BY <1>12 DEF IntervalElapses
  <2> QED
    BY <2>1 DEF PushTypeOK
<1>13. CASE UNCHANGED vars
  BY <1>13 DEF vars, mqtt, bounds, PushTypeOK
<1>14. QED
  BY <1>1, <1>2, <1>3, <1>4, <1>5, <1>6, <1>7, <1>8, <1>9, <1>10, <1>11, <1>12, <1>13 DEF
      Next, Push

\* And what the main thread knows of the connection.
LEMMA MqttTypeStep == TypeOK /\ [Next]_vars => MqttTypeOK'
<1> SUFFICES ASSUME TypeOK, [Next]_vars
             PROVE  MqttTypeOK'
  OBVIOUS
<1> USE StateUpdatesAssumption DEF TypeOK, MqttTypeOK
<1>1. ASSUME Register
      PROVE  MqttTypeOK'
  BY <1>1 DEF Register, RegisterEvent, mqtt
<1>2. ASSUME DeregisterEvent
      PROVE  MqttTypeOK'
  BY <1>2 DEF DeregisterEvent, mqtt, bounds
<1>3. ASSUME UpdateState
      PROVE  MqttTypeOK'
  BY <1>3 DEF UpdateState, mqtt
<1>4. ASSUME PushStart
      PROVE  MqttTypeOK'
  BY <1>4 DEF PushStart, mqtt, bounds
<1>5. ASSUME PushState
      PROVE  MqttTypeOK'
  BY <1>5 DEF PushState, mqtt, bounds
<1>6. ASSUME PushMqtt
      PROVE  MqttTypeOK'
  <2>1. due' \subseteq States /\ UNCHANGED <<counter, connected, link, events>>
    BY <1>6 DEF PushMqtt
  <2>2. value \in [States -> [Members -> 0 .. MaxUpdates]]
    <3>1. 0 .. updates \subseteq 0 .. MaxUpdates
      BY DEF StateTypeOK
    <3> QED
      BY <3>1 DEF StateTypeOK
  <2>3. push.at \in States
    BY <1>6 DEF PushMqtt, Is, PushTypeOK, Idle, States
  <2>4. published' \in {published, [published EXCEPT ![push.at] = value[push.at]]}
    BY <1>6 DEF PushMqtt
  <2>5. published' \in [States -> {NotCalled} \cup [Members -> 0 .. MaxUpdates]]
    BY <2>2, <2>3, <2>4
  <2> QED
    BY <2>1, <2>5
<1>7. ASSUME PushEventDone
      PROVE  MqttTypeOK'
  BY <1>7 DEF PushEventDone, mqtt, bounds
<1>8. ASSUME PushEventSkip
      PROVE  MqttTypeOK'
  BY <1>8 DEF PushEventSkip, mqtt, bounds
<1>9. ASSUME NEW keep \in BOOLEAN, PushEvent(keep)
      PROVE  MqttTypeOK'
  BY <1>9 DEF PushEvent, mqtt
<1>10. ASSUME LinkChanges
      PROVE  MqttTypeOK'
  <2>1. (~link) \in BOOLEAN /\ events \in Seq(BOOLEAN)
    OBVIOUS
  <2>2. link' = ~link /\ events' = Append(events, link') /\ UNCHANGED <<counter, connected, due, published>>
    BY <1>10 DEF LinkChanges
  <2> QED
    BY <2>1, <2>2
<1>11. ASSUME HandleLinkEvent
      PROVE  MqttTypeOK'
  <2>1. events' = Tail(events) /\ events # << >> /\ UNCHANGED <<counter, due, link, published>>
    BY <1>11 DEF HandleLinkEvent
  <2>2. connected' \in BOOLEAN
    BY <1>11 DEF HandleLinkEvent, OnMqttConnect, OnMqttDisconnect
  <2>3. events' \in Seq(BOOLEAN)
    BY <2>1
  <2> QED
    BY <2>1, <2>2, <2>3
<1>12. ASSUME NEW s \in States, IntervalElapses(s)
      PROVE  MqttTypeOK'
  BY <1>12 DEF IntervalElapses, bounds
<1>13. CASE UNCHANGED vars
  BY <1>13 DEF vars, mqtt, bounds
<1>14. QED
  BY <1>1, <1>2, <1>3, <1>4, <1>5, <1>6, <1>7, <1>8, <1>9, <1>10, <1>11, <1>12, <1>13 DEF
      Next, Push

LEMMA InitTypes == Init => TypeOK
<1> SUFFICES ASSUME Init
             PROVE  TypeOK
  OBVIOUS
<1> USE StateUpdatesAssumption DEF Init
<1>1. StateTypeOK
  BY DEF StateTypeOK
<1>2. Regs = {}
  BY DEF Regs
<1>3. ChainTypeOK
  BY <1>2 DEF ChainTypeOK
<1>4. PushTypeOK
  BY DEF PushTypeOK, Idle
<1>5. MqttTypeOK
  <2>1. 0 \in 0 .. Period - 1 /\ << >> \in Seq(BOOLEAN) /\ FALSE \in BOOLEAN
    OBVIOUS
  <2>2. events = << >> /\ counter = 0 /\ ~connected /\ ~link /\ due = States
    OBVIOUS
  <2>3. connected = FALSE /\ link = FALSE
    OBVIOUS
  <2>4. published \in [States -> {NotCalled} \cup [Members -> 0 .. MaxUpdates]]
    OBVIOUS
  <2> QED
    BY <2>1, <2>2, <2>3, <2>4 DEF MqttTypeOK
<1> QED
  BY <1>1, <1>3, <1>4, <1>5 DEF TypeOK

\* However callbacks update states, register events and give up their registrations,
\* the loop over a chain stays within the chain and no two registrations share an id.
THEOREM UpdateTypesCorrect == Spec => []TypeOK
<1>1. TypeOK /\ [Next]_vars => TypeOK'
  BY StateTypeStep, ChainTypeStep, PushTypeStep, MqttTypeStep DEF TypeOK
<1> QED
  BY InitTypes, <1>1, PTL DEF Spec

-----------------------------------------------------------------------------
(* Nothing is delivered twice. *)

\* What a callback for this node saw is not newer than what is there.
SeenOK(s, node, seen) ==
    seen # NotCalled =>
        /\ seen \in [Under(node) \ {Root} -> 0 .. MaxUpdates]
        /\ \A m \in Under(node) \ {Root} : seen[m] <= value[s][m]

SeenInv ==
    \A d \in States : \A j \in 1 .. Len(chain[d]) : SeenOK(d, chain[d][j].node, chain[d][j].seen)

\* Something is new for a callback, if a bit of its node is set.
News(s, node, seen) == WasUpdated(s, node, "event") => seen # Content(s, node)

\* That holds for all but those that were called in this push, which clears their bits
\* at its end.
NewsInv ==
    \A d \in States : \A j \in 1 .. Len(chain[d]) :
        ~(push.at = d /\ j <= push.reg) => News(d, chain[d][j].node, chain[d][j].seen)

\* What a callback saw stays seen while values rise.
LEMMA SeenStays ==
    ASSUME StateTypeOK, StateTypeOK', NEW d \in States, NEW node \in Nodes, NEW seen,
           SeenOK(d, node, seen), \A m \in Members : value[d][m] <= value'[d][m]
    PROVE  SeenOK(d, node, seen)'
<1> SUFFICES ASSUME seen # NotCalled
             PROVE  /\ seen \in [Under(node) \ {Root} -> 0 .. MaxUpdates]
                    /\ \A m \in Under(node) \ {Root} : seen[m] <= value'[d][m]
  BY DEF SeenOK
<1>1. seen \in [Under(node) \ {Root} -> 0 .. MaxUpdates]
  BY DEF SeenOK
<1>2. ASSUME NEW m \in Under(node) \ {Root}
      PROVE  seen[m] <= value'[d][m]
  <2>1. m \in Members
    BY SomeMember DEF Nodes
  <2>2. value[d][m] \in Nat /\ value'[d][m] \in Nat
    BY <2>1, StateUpdatesAssumption DEF StateTypeOK
  <2>3. seen[m] \in Nat /\ seen[m] <= value[d][m]
    BY <1>1, StateUpdatesAssumption DEF SeenOK
  <2> QED
    BY <2>1, <2>2, <2>3
<1> QED
  BY <1>1, <1>2

\* A callback that is called sees what is there.
LEMMA FreshIsSeen ==
    ASSUME StateTypeOK, NEW d \in States, NEW node \in Nodes
    PROVE  SeenOK(d, node, Content(d, node)) /\ SeenOK(d, node, FirstCall(d, node))
<1>1. Content(d, node) \in [Under(node) \ {Root} -> 0 .. MaxUpdates]
  BY ContentType
<1>2. ASSUME NEW m \in Under(node) \ {Root}
      PROVE  Content(d, node)[m] <= value[d][m]
  <2>1. Content(d, node)[m] = value[d][m]
    BY DEF Content
  <2>2. m \in Members
    BY SomeMember DEF Nodes
  <2>3. value[d][m] \in 0 .. updates /\ updates \in Nat
    BY <2>2, StateUpdatesAssumption DEF StateTypeOK
  <2>4. value[d][m] \in Nat
    BY <2>3
  <2> QED
    BY <2>1, <2>4
<1> QED
  BY <1>1, <1>2 DEF SeenOK, FirstCall

\* After an update of a member of the node something is new, and other updates do not
\* concern the node.
LEMMA NewsOfUpdate ==
    ASSUME StateTypeOK, NEW u \in States, NEW m \in Members, Update(u, m),
           NEW d \in States, NEW node \in Nodes, NEW seen,
           SeenOK(d, node, seen), News(d, node, seen)
    PROVE  News(d, node, seen)' /\ SeenOK(d, node, seen)'
<1>1. /\ StateTypeOK' /\ value'[u][m] = value[u][m] + 1
      /\ \A e \in States, n \in Members : (e = u /\ n = m) \/ value'[e][n] = value[e][n]
      /\ \A e \in States \ {u} : value'[e] = value[e] /\ updated'[e] = updated[e]
      /\ \A b \in Backends : updated'[u][b] = updated[u][b] \cup {m}
  BY UpdateEffect
<1>2. \A n \in Members : value[d][n] \in Nat /\ value[d][n] <= value'[d][n]
  <2> SUFFICES ASSUME NEW n \in Members
               PROVE  value[d][n] \in Nat /\ value[d][n] <= value'[d][n]
    OBVIOUS
  <2>1. value[d][n] \in Nat
    BY StateUpdatesAssumption DEF StateTypeOK
  <2>2. value'[d][n] = value[d][n] \/ value'[d][n] = value[d][n] + 1
    BY <1>1
  <2> QED
    BY <2>1, <2>2
<1>3. SeenOK(d, node, seen)'
  BY <1>1, <1>2, SeenStays
<1>4. CASE d = u /\ m \in Under(node)
  <2>1. m \in Under(node) \ {Root}
    BY <1>4, StateUpdatesAssumption
  <2>2. seen # NotCalled => seen[m] <= value[d][m] /\ seen[m] \in Nat
    BY <2>1, StateUpdatesAssumption DEF SeenOK
  <2>3. Content(d, node)'[m] = value'[d][m]
    BY <2>1 DEF Content
  <2>4. seen # NotCalled => seen # Content(d, node)'
    BY <1>1, <1>2, <1>4, <2>2, <2>3
  <2>5. Content(d, node)' # NotCalled
    <3>1. DOMAIN Content(d, node)' # {}
      BY SomeMember DEF Content
    <3> QED
      BY <3>1 DEF NotCalled
  <2> QED
    BY <1>3, <2>4, <2>5 DEF News
<1>5. CASE d = u /\ m \notin Under(node)
  <2>1. Content(d, node)' = Content(d, node)
    <3>1. \A n \in Under(node) \ {Root} : n \in Members /\ n # m
      BY <1>5, SomeMember DEF Nodes
    <3>2. \A n \in Under(node) \ {Root} : value'[d][n] = value[d][n]
      BY <1>1, <3>1
    <3> QED
      BY <3>2 DEF Content
  <2>2. Under(node) \cap updated'[d]["event"] = Under(node) \cap updated[d]["event"]
    BY <1>1, <1>5 DEF Backends
  <2> QED
    BY <1>3, <2>1, <2>2 DEF News, WasUpdated
<1>6. CASE d # u
  BY <1>1, <1>3, <1>6 DEF News, WasUpdated, Content
<1> QED
  BY <1>4, <1>5, <1>6

\* Without an update nothing is new.
LEMMA NewsStay ==
    ASSUME NEW d \in States, NEW node, NEW seen, SeenOK(d, node, seen), News(d, node, seen),
           value'[d] = value[d], updated'[d]["event"] = updated[d]["event"]
    PROVE  News(d, node, seen)' /\ SeenOK(d, node, seen)'
BY DEF News, SeenOK, WasUpdated, Content

\* Between two pushes registrations are added at an end, or taken away.
LEMMA BetweenPushes ==
    ASSUME TypeOK, Register \/ DeregisterEvent
    PROVE  \A d \in States : \A j \in 1 .. Len(chain'[d]) :
              \/ \E k \in 1 .. Len(chain[d]) : chain'[d][j] = chain[d][k]
              \/ /\ chain'[d][j].node \in Nodes
                 /\ chain'[d][j].seen = FirstCall(d, chain'[d][j].node)
<1>1. /\ StateTypeOK /\ Chains(chain) /\ registrations \in Nat
      /\ \A d \in States : Len(chain[d]) \in Nat /\ DOMAIN chain[d] = 1 .. Len(chain[d])
  BY ChainForm, StateUpdatesAssumption DEF TypeOK, ChainTypeOK, Chains
<1> SUFFICES ASSUME NEW d \in States, NEW j \in 1 .. Len(chain'[d])
             PROVE  \/ \E k \in 1 .. Len(chain[d]) : chain'[d][j] = chain[d][k]
                    \/ /\ chain'[d][j].node \in Nodes
                       /\ chain'[d][j].seen = FirstCall(d, chain'[d][j].node)
  OBVIOUS
<1>2. CASE chain' = chain
  BY <1>2
<1>3. ASSUME NEW u \in States, NEW node \in Nodes, chain' = Registered(chain, u, node)
      PROVE  \/ \E k \in 1 .. Len(chain[d]) : chain'[d][j] = chain[d][k]
             \/ /\ chain'[d][j].node \in Nodes
                /\ chain'[d][j].seen = FirstCall(d, chain'[d][j].node)
  <2>1. /\ \A e \in States \ {u} : chain'[e] = chain[e]
        /\ Len(chain'[u]) = Len(chain[u]) + 1
        /\ \A k \in 1 .. Len(chain[u]) : chain'[u][k] = chain[u][k]
        /\ chain'[u][Len(chain[u]) + 1]
             = [id |-> registrations, node |-> node, seen |-> FirstCall(u, node)]
    BY <1>1, <1>3, RegisteredEffect
  <2>2. CASE j \in 1 .. Len(chain[d]) /\ chain'[d][j] = chain[d][j]
    BY <2>2
  <2>3. CASE d = u /\ j = Len(chain[u]) + 1
    BY <2>1, <2>3
  <2> QED
    BY <1>1, <2>1, <2>2, <2>3
<1>4. ASSUME NEW u \in States, NEW i \in 1 .. Len(chain[u]), chain' = Unlinked(chain, u, i)
      PROVE  \E k \in 1 .. Len(chain[d]) : chain'[d][j] = chain[d][k]
  <2>1. /\ \A e \in States \ {u} : chain'[e] = chain[e]
        /\ Len(chain'[u]) = Len(chain[u]) - 1
        /\ \A k \in 1 .. Len(chain[u]) - 1 :
              chain'[u][k] = IF k < i THEN chain[u][k] ELSE chain[u][k + 1]
    BY <1>1, <1>4, UnlinkedEffect
  <2>2. CASE d # u
    BY <2>1, <2>2
  <2>3. CASE d = u
    <3>1. /\ j \in 1 .. Len(chain[d]) /\ j + 1 \in 1 .. Len(chain[d])
          /\ chain'[d][j] = IF j < i THEN chain[d][j] ELSE chain[d][j + 1]
      BY <1>1, <2>1, <2>3
    <3> QED
      BY <3>1
  <2> QED
    BY <2>2, <2>3
<1>5. CASE Register
  BY <1>2, <1>3, <1>5 DEF Register, RegisterEvent
<1>6. CASE DeregisterEvent
  <2>1. PICK u \in States : \E i \in DOMAIN chain[u] : chain' = Unlinked(chain, u, i)
    BY <1>6 DEF DeregisterEvent
  <2>2. PICK i \in 1 .. Len(chain[u]) : chain' = Unlinked(chain, u, i)
    BY <1>1, <2>1
  <2> QED
    BY <1>4, <2>2
<1> QED
  BY <1>5, <1>6

\* Updates only raise values.
LEMMA ValuesRise ==
    ASSUME StateTypeOK, NEW u \in States, NEW m \in Members, Update(u, m), NEW d \in States,
           NEW n \in Members
    PROVE  value[d][n] <= value'[d][n]
<1>1. value[d][n] \in 0 .. updates /\ updates \in Nat
  BY StateUpdatesAssumption DEF StateTypeOK
<1>2. value'[d][n] = value[d][n] \/ value'[d][n] = value[d][n] + 1
  BY UpdateEffect
<1> QED
  BY <1>1, <1>2

LEMMA SeenStaysSo ==
    ASSUME StateTypeOK, StateTypeOK', NEW d \in States, NEW node \in Nodes, NEW seen,
           SeenOK(d, node, seen),
           UNCHANGED <<value, updated>> \/ \E e \in States, m \in Members : Update(e, m)
    PROVE  SeenOK(d, node, seen)'
<1>1. CASE UNCHANGED <<value, updated>>
  BY <1>1 DEF SeenOK
<1>2. CASE \E e \in States, m \in Members : Update(e, m)
  <2>1. \A n \in Members : value[d][n] <= value'[d][n]
    BY <1>2, ValuesRise
  <2> QED
    BY <2>1, SeenStays
<1> QED
  BY <1>1, <1>2

\* Every registration is for a node.
LEMMA RegNode ==
    ASSUME TypeOK
    PROVE  /\ StateTypeOK /\ PushTypeOK /\ push.at \in Nat /\ push.reg \in Nat
           /\ \A d \in States : Len(chain[d]) \in Nat
           /\ \A d \in States : \A j \in 1 .. Len(chain[d]) : chain[d][j].node \in Nodes
<1>1. /\ Chains(chain) /\ StateTypeOK /\ PushTypeOK
  BY ChainForm DEF TypeOK
<1>2. ASSUME NEW d \in States
      PROVE  Len(chain[d]) \in Nat /\ \A j \in 1 .. Len(chain[d]) : chain[d][j].node \in Nodes
  <2>1. chain[d] \in Seq(Registration)
    BY <1>1 DEF Chains
  <2> QED
    <3>1. ASSUME NEW j \in 1 .. Len(chain[d])
          PROVE  chain[d][j].node \in Nodes
      <4>1. chain[d][j] \in Registration
        BY <2>1
      <4> QED
        BY <4>1 DEF Registration
    <3> QED
      BY <2>1, <3>1
<1>3. push.at \in Nat /\ push.reg \in Nat
  BY <1>1, StateUpdatesAssumption DEF PushTypeOK
<1> QED
  BY <1>1, <1>2, <1>3

\* The callback may update a state or register an event itself.
LEMMA NewsOfCallback ==
    ASSUME TypeOK, TypeOK', SeenInv, NewsInv, NEW keep \in BOOLEAN, PushEvent(keep)
    PROVE  SeenInv' /\ NewsInv'
<1>1. /\ push.at \in States /\ push.reg \in Nat /\ push.todo = {"event"}
      /\ push.reg + 1 \in 1 .. Len(chain[push.at])
      /\ push' = [push EXCEPT !.reg = IF keep THEN push.reg + 1 ELSE push.reg]
  BY PushEventEffect
<1>2. push'.at = push.at /\ push'.reg = IF keep THEN push.reg + 1 ELSE push.reg
  BY <1>1 DEF TypeOK, PushTypeOK
<1>3. PICK u \in States : \A d \in States : \A j \in 1 .. Len(chain'[d]) : AfterCallback(keep, u, d, j)
  BY PushEventEffect
<1>4. StateTypeOK /\ StateTypeOK' /\ \A d \in States : Len(chain[d]) \in Nat
  BY RegNode DEF TypeOK
<1>5. UNCHANGED <<value, updated>> \/ \E e \in States, m \in Members : Update(e, m)
  BY DEF PushEvent
<1> SUFFICES ASSUME NEW d \in States, NEW j \in 1 .. Len(chain'[d]), NEW node, NEW seen,
                    node = chain'[d][j].node, seen = chain'[d][j].seen
             PROVE  /\ SeenOK(d, node, seen)'
                    /\ ~(push'.at = d /\ j <= push'.reg) => News(d, node, seen)'
  BY DEF SeenInv, NewsInv
<1>6. CASE /\ Place(keep, d, j) \in 1 .. Len(chain[d])
           /\ ~(d = push.at /\ Place(keep, d, j) = push.reg + 1)
           /\ chain'[d][j] = chain[d][Place(keep, d, j)]
  <2>1. PICK k \in 1 .. Len(chain[d]) : /\ k = Place(keep, d, j)
                                        /\ node = chain[d][k].node /\ seen = chain[d][k].seen
    BY <1>6
  <2>2. node \in Nodes /\ SeenOK(d, node, seen)
    BY <2>1, RegNode DEF SeenInv
  <2>3. CASE ~(push'.at = d /\ j <= push'.reg)
    <3>1. ~(push.at = d /\ k <= push.reg)
      BY <1>1, <1>2, <1>6, <2>1, <2>3 DEF Place
    <3>2. News(d, node, seen)
      BY <2>1, <3>1 DEF NewsInv
    <3>3. CASE UNCHANGED <<value, updated>>
      BY <2>2, <3>2, <3>3, NewsStay
    <3>4. CASE \E e \in States, m \in Members : Update(e, m)
      BY <1>4, <2>2, <3>2, <3>4, NewsOfUpdate
    <3> QED
      BY <1>5, <3>3, <3>4
  <2>4. CASE push'.at = d /\ j <= push'.reg
    <3>1. SeenOK(d, node, seen)'
      BY <1>4, <1>5, <2>2, SeenStaysSo
    <3> QED
      BY <2>4, <3>1
  <2> QED
    BY <2>3, <2>4
<1>7. CASE /\ keep /\ d = push.at /\ j = push.reg + 1
           /\ chain'[d][j].id = chain[d][j].id /\ chain'[d][j].node = chain[d][j].node
           /\ chain'[d][j].seen = Content(d, chain[d][j].node)
  <2>1. node \in Nodes /\ seen = Content(d, node)
    BY <1>1, <1>7, RegNode
  <2>2. SeenOK(d, node, seen)
    BY <1>4, <2>1, FreshIsSeen
  <2>3. SeenOK(d, node, seen)'
    BY <1>4, <1>5, <2>1, <2>2, SeenStaysSo
  <2>4. push'.at = d /\ j <= push'.reg
    BY <1>1, <1>2, <1>7
  <2> QED
    BY <2>3, <2>4
<1>8. CASE /\ UNCHANGED <<value, updated>> /\ chain'[d][j].node \in Nodes
           /\ chain'[d][j].seen = FirstCall(d, chain'[d][j].node)
  <2>1. node \in Nodes /\ seen = FirstCall(d, node)
    BY <1>8
  <2>2. SeenOK(d, node, seen) /\ News(d, node, seen)
    BY <1>4, <2>1, FreshIsSeen, ContentType DEF News, FirstCall
  <2> QED
    BY <1>8, <2>2, NewsStay
<1> QED
  BY <1>3, <1>6, <1>7, <1>8 DEF AfterCallback

\* So do registrations between two pushes.
LEMMA NewsOfRegistering ==
    ASSUME TypeOK, SeenInv, NewsInv, push = Idle, UNCHANGED <<value, updated, push>>,
           Register \/ DeregisterEvent
    PROVE  SeenInv' /\ NewsInv'
<1>1. StateTypeOK /\ push.at = 0
  BY RegNode DEF Idle
<1> SUFFICES ASSUME NEW d \in States, NEW j \in 1 .. Len(chain'[d]), NEW node, NEW seen,
                    node = chain'[d][j].node, seen = chain'[d][j].seen
             PROVE  SeenOK(d, node, seen)' /\ News(d, node, seen)'
  BY DEF SeenInv, NewsInv
<1>2. \/ \E k \in 1 .. Len(chain[d]) : chain'[d][j] = chain[d][k]
      \/ chain'[d][j].node \in Nodes /\ chain'[d][j].seen = FirstCall(d, chain'[d][j].node)
  BY BetweenPushes
<1>3. ASSUME NEW k \in 1 .. Len(chain[d]), chain'[d][j] = chain[d][k]
      PROVE  /\ SeenOK(d, chain[d][k].node, chain[d][k].seen)
             /\ News(d, chain[d][k].node, chain[d][k].seen)
  BY <1>1 DEF SeenInv, NewsInv, States
<1>4. ASSUME NEW n \in Nodes
      PROVE  SeenOK(d, n, FirstCall(d, n)) /\ News(d, n, FirstCall(d, n))
  BY <1>1, FreshIsSeen, ContentType DEF News, FirstCall
<1>5. SeenOK(d, node, seen) /\ News(d, node, seen)
  BY <1>2, <1>3, <1>4
<1> QED
  BY <1>5, NewsStay

\* And where neither the chains nor the values change, the bits only go with the
\* callbacks.
LEMMA NewsOfPushing ==
    ASSUME TypeOK, TypeOK', SeenInv, NewsInv, UNCHANGED <<value, chain>>,
           NEW DoneWith, \A d \in States : d # DoneWith => updated'[d]["event"] = updated[d]["event"],
           DoneWith \in States => updated'[DoneWith]["event"] = {},
           \A d \in States \ {DoneWith} : push.at = d => push.reg = 0 \/ (push'.at = d /\ push.reg <= push'.reg)
    PROVE  SeenInv' /\ NewsInv'
<1> SUFFICES ASSUME NEW d \in States, NEW j \in 1 .. Len(chain[d])
             PROVE  /\ SeenOK(d, chain[d][j].node, chain[d][j].seen)'
                    /\ ~(push'.at = d /\ j <= push'.reg)
                          => News(d, chain[d][j].node, chain[d][j].seen)'
  BY DEF SeenInv, NewsInv
<1>1. SeenOK(d, chain[d][j].node, chain[d][j].seen)
  BY DEF SeenInv
<1>2. SeenOK(d, chain[d][j].node, chain[d][j].seen)'
  BY <1>1 DEF SeenOK
<1>3. CASE d = DoneWith
  BY <1>2, <1>3 DEF News, WasUpdated
<1>4. CASE d # DoneWith /\ ~(push'.at = d /\ j <= push'.reg)
  <2>1. push.reg \in Nat /\ push'.reg \in Nat
    BY DEF TypeOK, PushTypeOK
  <2>2. ~(push.at = d /\ j <= push.reg)
    BY <1>4, <2>1
  <2>3. News(d, chain[d][j].node, chain[d][j].seen)
    BY <2>2 DEF NewsInv
  <2> QED
    BY <1>1, <1>4, <2>3, NewsStay
<1> QED
  BY <1>2, <1>3, <1>4

\* Every step keeps both.
LEMMA NewsStep == TypeOK /\ TypeOK' /\ SeenInv /\ NewsInv /\ [Next]_vars => (SeenInv /\
    NewsInv)'
<1> SUFFICES ASSUME TypeOK, TypeOK', SeenInv, NewsInv, [Next]_vars
             PROVE  (SeenInv /\ NewsInv)'
  OBVIOUS
<1>1. ASSUME Register
      PROVE  SeenInv' /\ NewsInv'
  BY <1>1, NewsOfRegistering DEF Register
<1>2. ASSUME DeregisterEvent
      PROVE  SeenInv' /\ NewsInv'
  BY <1>2, NewsOfRegistering DEF DeregisterEvent
<1>3. ASSUME UpdateState
      PROVE  SeenInv' /\ NewsInv'
  <2>1. PICK u \in States, m \in Members : Update(u, m)
    BY <1>3 DEF UpdateState
  <2>2. UNCHANGED <<chain, push>> /\ push.at = 0
    BY <1>3 DEF UpdateState, Idle
  <2> SUFFICES ASSUME NEW d \in States, NEW j \in 1 .. Len(chain[d]), NEW node, NEW seen,
                      node = chain[d][j].node, seen = chain[d][j].seen
               PROVE  SeenOK(d, node, seen)' /\ News(d, node, seen)'
    BY <2>2 DEF SeenInv, NewsInv
  <2>3. node \in Nodes /\ StateTypeOK
    BY RegNode
  <2>4. SeenOK(d, node, seen) /\ News(d, node, seen)
    BY <2>2 DEF SeenInv, NewsInv, States
  <2> QED
    BY <2>1, <2>3, <2>4, NewsOfUpdate
<1>4. ASSUME PushStart
      PROVE  SeenInv' /\ NewsInv'
  <2>1. UNCHANGED <<value, updated, chain>> /\ push.reg = 0
    BY <1>4 DEF PushStart, Idle
  <2>2. 0 \notin States
    BY DEF States
  <2> QED
    BY <2>1, <2>2, NewsOfPushing
<1>5. ASSUME PushState
      PROVE  SeenInv' /\ NewsInv'
  <2>1. UNCHANGED <<value, updated, chain>> /\ push.reg = 0
    BY <1>5 DEF PushState, TypeOK, PushTypeOK
  <2>2. 0 \notin States
    BY DEF States
  <2> QED
    BY <2>1, <2>2, NewsOfPushing
<1>6. ASSUME PushMqtt
      PROVE  SeenInv' /\ NewsInv'
  <2>1. PICK sent \in BOOLEAN : UNCHANGED <<value, chain>> /\ Is("mqtt") /\ Handled("mqtt", sent)
    BY <1>6 DEF PushMqtt
  <2>2. push.reg = 0 /\ \A d \in States : updated'[d]["event"] = updated[d]["event"]
    BY <2>1, MqttHandled, RegNode
  <2>3. 0 \notin States
    BY DEF States
  <2> QED
    BY <2>1, <2>2, <2>3, NewsOfPushing
<1>7. ASSUME PushEventDone
      PROVE  SeenInv' /\ NewsInv'
  <2>1. UNCHANGED <<value, chain>> /\ Is("event") /\ Handled("event", TRUE)
    BY <1>7 DEF PushEventDone
  <2>2. /\ \A d \in States \ {push.at} : updated'[d] = updated[d]
        /\ updated'[push.at]["event"] = {}
    BY <2>1, EventHandled, RegNode
  <2>3. PICK s : s = push.at
    OBVIOUS
  <2> QED
    BY <2>1, <2>2, <2>3, NewsOfPushing
<1>8. ASSUME PushEventSkip
      PROVE  SeenInv' /\ NewsInv'
  <2>1. UNCHANGED <<value, chain, updated>> /\ push' = [push EXCEPT !.reg = @ + 1]
    BY <1>8 DEF PushEventSkip
  <2>2. push'.at = push.at /\ push.reg <= push'.reg
    BY <2>1, RegNode DEF PushTypeOK
  <2>3. 0 \notin States
    BY DEF States
  <2> QED
    BY <2>1, <2>2, <2>3, NewsOfPushing
<1>9. ASSUME NEW keep \in BOOLEAN, PushEvent(keep)
      PROVE  SeenInv' /\ NewsInv'
  BY <1>9, NewsOfCallback
<1>10. ASSUME LinkChanges
      PROVE  SeenInv' /\ NewsInv'
  <2>1. UNCHANGED <<value, chain, updated, push>> /\ push.reg <= push.reg
    BY <1>10, RegNode DEF LinkChanges
  <2>2. 0 \notin States
    BY DEF States
  <2> QED
    BY <2>1, <2>2, NewsOfPushing
<1>11. ASSUME HandleLinkEvent
      PROVE  SeenInv' /\ NewsInv'
  <2>1. UNCHANGED <<value, chain, push>> /\ push.reg = 0
    BY <1>11 DEF HandleLinkEvent, Idle
  <2>2. \A d \in States : updated'[d]["event"] = updated[d]["event"]
    BY <1>11, LinkEventEffect, RegNode
  <2>3. 0 \notin States
    BY DEF States
  <2> QED
    BY <2>1, <2>2, <2>3, NewsOfPushing
<1>12. ASSUME NEW s \in States, IntervalElapses(s)
      PROVE  SeenInv' /\ NewsInv'
  <2>1. UNCHANGED <<value, chain, updated, push>> /\ push.reg <= push.reg
    BY <1>12, RegNode DEF IntervalElapses
  <2>2. 0 \notin States
    BY DEF States
  <2> QED
    BY <2>1, <2>2, NewsOfPushing
<1>13. CASE UNCHANGED vars
  <2>1. UNCHANGED <<value, chain, updated, push>> /\ push.reg <= push.reg
    BY <1>13, RegNode DEF vars
  <2>2. 0 \notin States
    BY DEF States
  <2> QED
    BY <2>1, <2>2, NewsOfPushing
<1>14. QED
  BY <1>1, <1>2, <1>3, <1>4, <1>5, <1>6, <1>7, <1>8, <1>9, <1>10, <1>11, <1>12, <1>13 DEF
      Next, Push

\* While the bits of a node are set and its callback has not been called in this push,
\* the callback has not seen what the node holds now: it is never called for nothing,
\* though other states, other members and other backends share the push.
THEOREM CalledForNews == Spec => NothingTwice
<1>1. Init => SeenInv /\ NewsInv
  BY DEF Init, SeenInv, NewsInv
<1>2. TypeOK /\ SeenInv /\ NewsInv /\ [Next]_vars
        => [\A r \in Regs : push'.reg = r[2] /\ push.reg < r[2] /\ push.at = r[1] /\ push'.at = r[1]
                /\ WasUpdated(r[1], Reg(r).node, "event")
                => Reg(r).seen # Content(r[1], Reg(r).node)]_vars
  <2> SUFFICES ASSUME TypeOK, NewsInv, NEW r \in Regs, push.reg < r[2],
                      WasUpdated(r[1], Reg(r).node, "event")
               PROVE  Reg(r).seen # Content(r[1], Reg(r).node)
    OBVIOUS
  <2>1. PICK d \in States : \E j \in DOMAIN chain[d] : r = <<d, j>>
    BY DEF Regs
  <2>2. PICK j \in DOMAIN chain[d] : r = <<d, j>>
    BY <2>1
  <2>3. j \in 1 .. Len(chain[d]) /\ ~(j <= push.reg)
    BY <2>2, RegNode, ChainForm DEF TypeOK, Chains
  <2> QED
    BY <2>2, <2>3 DEF NewsInv, News, Reg
<1>3. TypeOK /\ TypeOK' /\ SeenInv /\ NewsInv /\ [Next]_vars => (SeenInv /\ NewsInv)'
  BY NewsStep
<1> QED
  BY UpdateTypesCorrect, <1>1, <1>2, <1>3, PTL DEF Spec, NothingTwice

LEMMA RegNodeNext ==
    ASSUME TypeOK'
    PROVE  push'.reg \in Nat /\ \A d \in States : Len(chain'[d]) \in Nat
<1>1. ASSUME NEW d \in States
      PROVE  Len(chain'[d]) \in Nat
  <2>1. chain'[d] \in Seq(Registration)
    BY DEF TypeOK, ChainTypeOK
  <2> QED
    BY <2>1
<1> QED
  BY <1>1 DEF TypeOK, PushTypeOK

-----------------------------------------------------------------------------
(* Nothing is missed, as long as callbacks leave the state they are called for alone. *)

\* A callback has seen everything, or it will be called.
Aware(s, node, seen) == seen = Content(s, node) \/ WasUpdated(s, node, "event")

AwareInv ==
    \A d \in States : \A j \in 1 .. Len(chain[d]) : Aware(d, chain[d][j].node, chain[d][j].seen)

\* The callbacks that this push has called or passed over have seen everything.
TurnInv ==
    push.at > 0 => \A j \in 1 .. push.reg :
        chain[push.at][j].seen = Content(push.at, chain[push.at][j].node)

LEMMA AwareStays ==
    ASSUME NEW d \in States, NEW node, NEW seen, Aware(d, node, seen),
           value'[d] = value[d], updated'[d]["event"] = updated[d]["event"]
    PROVE  Aware(d, node, seen)'
BY DEF Aware, WasUpdated, Content

\* An update sets a bit of every node that it changes.
LEMMA AwareOfUpdate ==
    ASSUME StateTypeOK, NEW u \in States, NEW m \in Members, Update(u, m),
           NEW d \in States, NEW node \in Nodes, NEW seen, Aware(d, node, seen)
    PROVE  Aware(d, node, seen)'
<1>1. /\ \A e \in States, n \in Members : (e = u /\ n = m) \/ value'[e][n] = value[e][n]
      /\ \A e \in States \ {u} : value'[e] = value[e] /\ updated'[e] = updated[e]
      /\ updated'[u]["event"] = updated[u]["event"] \cup {m}
  BY UpdateEffect DEF Backends
<1>2. CASE d = u /\ m \in Under(node)
  BY <1>1, <1>2 DEF Aware, WasUpdated
<1>3. CASE d = u /\ m \notin Under(node)
  <2>1. \A n \in Under(node) \ {Root} : n \in Members /\ n # m
    BY <1>3, SomeMember DEF Nodes
  <2>2. \A n \in Under(node) \ {Root} : value'[d][n] = value[d][n]
    BY <1>1, <2>1
  <2>3. Content(d, node)' = Content(d, node)
    BY <2>2 DEF Content
  <2>4. Under(node) \cap updated'[d]["event"] = Under(node) \cap updated[d]["event"]
    BY <1>1, <1>3
  <2> QED
    BY <2>3, <2>4 DEF Aware, WasUpdated
<1>4. CASE d # u
  BY <1>1, <1>4 DEF Aware, WasUpdated, Content
<1> QED
  BY <1>2, <1>3, <1>4

LEMMA AwareOfCallback ==
    ASSUME ~OwnUpdates, TypeOK, TypeOK', AwareInv, TurnInv, NEW keep \in BOOLEAN, PushEvent(keep)
    PROVE  AwareInv' /\ TurnInv'
<1>1. /\ push.at \in States /\ push.reg \in Nat
      /\ push.reg + 1 \in 1 .. Len(chain[push.at]) /\ push'.reg <= Len(chain'[push.at])
      /\ push' = [push EXCEPT !.reg = IF keep THEN push.reg + 1 ELSE push.reg]
  BY PushEventEffect
<1>2. push'.at = push.at /\ push'.reg = IF keep THEN push.reg + 1 ELSE push.reg
  BY <1>1 DEF TypeOK, PushTypeOK
<1>3. PICK u \in States : \A d \in States : \A j \in 1 .. Len(chain'[d]) : AfterCallback(keep, u, d, j)
  BY PushEventEffect
<1>4. StateTypeOK /\ push.at > 0 /\ \A d \in States : Len(chain[d]) \in Nat
  BY <1>1, RegNode DEF States
<1>5. UNCHANGED <<value, updated>> \/ \E e \in States \ {push.at}, m \in Members : Update(e, m)
  BY DEF PushEvent
<1>6. value'[push.at] = value[push.at] /\ updated'[push.at] = updated[push.at]
  BY <1>1, <1>4, <1>5, UpdateEffect
<1>7. ASSUME NEW d \in States, NEW j \in 1 .. Len(chain'[d]), NEW node, NEW seen,
             node = chain'[d][j].node, seen = chain'[d][j].seen
      PROVE  /\ Aware(d, node, seen)'
             /\ push.at = d /\ j <= push'.reg => seen = Content(d, node)
  <2>1. CASE /\ Place(keep, d, j) \in 1 .. Len(chain[d])
             /\ ~(d = push.at /\ Place(keep, d, j) = push.reg + 1)
             /\ chain'[d][j] = chain[d][Place(keep, d, j)]
    <3>1. PICK k \in 1 .. Len(chain[d]) : /\ k = Place(keep, d, j)
                                          /\ node = chain[d][k].node /\ seen = chain[d][k].seen
      BY <1>7, <2>1
    <3>2. node \in Nodes /\ Aware(d, node, seen)
      BY <3>1, RegNode DEF AwareInv
    <3>3. UNCHANGED <<value, updated>> => Aware(d, node, seen)'
      BY <3>2, AwareStays
    <3>4. (\E e \in States, m \in Members : Update(e, m)) => Aware(d, node, seen)'
      BY <1>4, <3>2, AwareOfUpdate
    <3>5. push.at = d /\ j <= push'.reg => k \in 1 .. push.reg
      BY <1>1, <1>2, <2>1, <3>1 DEF Place
    <3>6. push.at = d /\ j <= push'.reg => seen = Content(d, node)
      BY <1>4, <3>1, <3>5 DEF TurnInv
    <3> QED
      BY <1>5, <3>3, <3>4, <3>6
  <2>2. CASE /\ keep /\ d = push.at /\ j = push.reg + 1
             /\ chain'[d][j].id = chain[d][j].id /\ chain'[d][j].node = chain[d][j].node
             /\ chain'[d][j].seen = Content(d, chain[d][j].node)
    <3>1. seen = Content(d, node)
      BY <1>7, <2>2
    <3>2. Content(d, node)' = Content(d, node)
      BY <1>6, <2>2 DEF Content
    <3> QED
      BY <3>1, <3>2 DEF Aware
  <2>3. CASE /\ UNCHANGED <<value, updated>> /\ chain'[d][j].node \in Nodes
             /\ chain'[d][j].seen = FirstCall(d, chain'[d][j].node)
             /\ (d = push.at => j > push'.reg)
    <3>1. Aware(d, node, seen)
      BY <1>7, <2>3 DEF Aware, FirstCall
    <3>2. Aware(d, node, seen)'
      BY <2>3, <3>1, AwareStays
    <3>3. ~(push.at = d /\ j <= push'.reg)
      BY <1>1, <1>2, <2>3
    <3> QED
      BY <3>2, <3>3
  <2> QED
    BY <1>3, <2>1, <2>2, <2>3 DEF AfterCallback
<1>8. AwareInv'
  BY <1>7 DEF AwareInv
<1>9. TurnInv'
  <2> SUFFICES ASSUME NEW j \in 1 .. push'.reg
               PROVE  chain'[push.at][j].seen = Content(push.at, chain[push.at][j].node)'
    BY <1>2 DEF TurnInv
  <2>1. j \in 1 .. Len(chain'[push.at]) /\ j <= push'.reg
    BY <1>1, <1>2, RegNodeNext
  <2>2. PICK node, seen : node = chain'[push.at][j].node /\ seen = chain'[push.at][j].seen
    OBVIOUS
  <2>3. seen = Content(push.at, node)
    BY <1>1, <1>7, <2>1, <2>2
  <2> QED
    BY <1>2, <1>6, <2>2, <2>3 DEF Content
<1> QED
  BY <1>8, <1>9

LEMMA AwareOfRegistering ==
    ASSUME TypeOK, AwareInv, push = Idle, UNCHANGED <<value, updated, push>>,
           Register \/ DeregisterEvent
    PROVE  AwareInv' /\ TurnInv'
<1>1. TurnInv'
  BY DEF TurnInv, Idle
<1> SUFFICES ASSUME NEW d \in States, NEW j \in 1 .. Len(chain'[d]), NEW node, NEW seen,
                    node = chain'[d][j].node, seen = chain'[d][j].seen
             PROVE  Aware(d, node, seen)'
  BY <1>1 DEF AwareInv
<1>2. \/ \E k \in 1 .. Len(chain[d]) : chain'[d][j] = chain[d][k]
      \/ chain'[d][j].node \in Nodes /\ chain'[d][j].seen = FirstCall(d, chain'[d][j].node)
  BY BetweenPushes
<1>3. Aware(d, node, seen)
  BY <1>2 DEF AwareInv, Aware, FirstCall
<1> QED
  BY <1>3, AwareStays

\* While neither chains nor values change, bits only go for callbacks that have seen all.
LEMMA AwareOfPushing ==
    ASSUME TypeOK, AwareInv, UNCHANGED <<value, chain>>, NEW DoneWith,
           \A d \in States : d # DoneWith => updated'[d]["event"] = updated[d]["event"],
           DoneWith \in States => /\ push.at = DoneWith /\ push.reg = Len(chain[DoneWith])
                                  /\ TurnInv
    PROVE  AwareInv'
<1> SUFFICES ASSUME NEW d \in States, NEW j \in 1 .. Len(chain[d]), NEW node, NEW seen,
                    node = chain[d][j].node, seen = chain[d][j].seen
             PROVE  Aware(d, node, seen)'
  BY DEF AwareInv
<1>1. CASE d # DoneWith
  BY <1>1, AwareStays DEF AwareInv
<1>2. CASE d = DoneWith
  <2>1. push.at > 0
    BY <1>2 DEF States
  <2>2. seen = Content(d, node)
    BY <1>2, <2>1 DEF TurnInv
  <2> QED
    BY <2>2 DEF Aware, Content
<1> QED
  BY <1>1, <1>2

\* Every step keeps both.
LEMMA AwareStep == ~OwnUpdates /\ TypeOK /\ TypeOK' /\ AwareInv /\ TurnInv /\ [Next]_vars =>
    (AwareInv /\ TurnInv)'
<1> SUFFICES ASSUME ~OwnUpdates, TypeOK, TypeOK', AwareInv, TurnInv, [Next]_vars
             PROVE  (AwareInv /\ TurnInv)'
  OBVIOUS
<1>1. ASSUME Register
      PROVE  AwareInv' /\ TurnInv'
  BY <1>1, AwareOfRegistering DEF Register
<1>2. ASSUME DeregisterEvent
      PROVE  AwareInv' /\ TurnInv'
  BY <1>2, AwareOfRegistering DEF DeregisterEvent
<1>3. ASSUME UpdateState
      PROVE  AwareInv' /\ TurnInv'
  <2>1. PICK u \in States, m \in Members : Update(u, m)
    BY <1>3 DEF UpdateState
  <2>2. UNCHANGED <<chain, push>> /\ push.at = 0
    BY <1>3 DEF UpdateState, Idle
  <2>3. TurnInv'
    BY <2>2 DEF TurnInv
  <2> SUFFICES ASSUME NEW d \in States, NEW j \in 1 .. Len(chain[d]), NEW node, NEW seen,
                      node = chain[d][j].node, seen = chain[d][j].seen
               PROVE  Aware(d, node, seen)'
    BY <2>2, <2>3 DEF AwareInv
  <2>4. node \in Nodes /\ StateTypeOK /\ Aware(d, node, seen)
    BY RegNode DEF AwareInv
  <2> QED
    BY <2>1, <2>4, AwareOfUpdate
<1>4. ASSUME PushStart
      PROVE  AwareInv' /\ TurnInv'
  <2>1. UNCHANGED <<value, updated, chain>> /\ push'.reg = 0
    BY <1>4 DEF PushStart, Idle
  <2>2. TurnInv'
    BY <2>1 DEF TurnInv
  <2>3. 0 \notin States
    BY DEF States
  <2> QED
    BY <2>1, <2>2, <2>3, AwareOfPushing
<1>5. ASSUME PushState
      PROVE  AwareInv' /\ TurnInv'
  <2>1. UNCHANGED <<value, updated, chain>> /\ push'.reg = 0
    BY <1>5 DEF PushState, Behind, Idle, TypeOK, PushTypeOK
  <2>2. TurnInv'
    BY <2>1 DEF TurnInv
  <2>3. 0 \notin States
    BY DEF States
  <2> QED
    BY <2>1, <2>2, <2>3, AwareOfPushing
<1>6. ASSUME PushMqtt
      PROVE  AwareInv' /\ TurnInv'
  <2>1. PICK sent \in BOOLEAN : UNCHANGED <<value, chain>> /\ Is("mqtt") /\ Handled("mqtt", sent)
    BY <1>6 DEF PushMqtt
  <2>2. \A d \in States : updated'[d]["event"] = updated[d]["event"]
    BY <2>1, MqttHandled, RegNode
  <2>3. 0 \notin States
    BY DEF States
  <2>4. push'.reg = 0
    <3>1. push.at # 0 /\ push.reg = 0 /\ PushTypeOK
      BY <2>1, <2>3, MqttHandled, RegNode
    <3>2. \/ push' = [push EXCEPT !.todo = {"event"}, !.sent = IF sent THEN {"mqtt"} ELSE {}]
          \/ push' = Behind(push.at)
      BY <2>1, MqttHandled, RegNode
    <3> QED
      BY <3>1, <3>2, BehindType DEF PushTypeOK
  <2>5. TurnInv'
    BY <2>4 DEF TurnInv
  <2> QED
    BY <2>1, <2>2, <2>3, <2>5, AwareOfPushing
<1>7. ASSUME PushEventDone
      PROVE  AwareInv' /\ TurnInv'
  <2>1. /\ UNCHANGED <<value, chain>> /\ Is("event") /\ Handled("event", TRUE)
        /\ push.reg = Len(chain[push.at])
    BY <1>7 DEF PushEventDone
  <2>2. /\ push.at \in States /\ push' = Behind(push.at)
        /\ \A d \in States \ {push.at} : updated'[d] = updated[d]
    BY <2>1, EventHandled, RegNode
  <2>3. push.at # 0 /\ push'.reg = 0
    BY <2>2, BehindType, RegNode DEF States
  <2>4. TurnInv'
    BY <2>3 DEF TurnInv
  <2>5. PICK s : s = push.at
    OBVIOUS
  <2> QED
    BY <2>1, <2>2, <2>4, <2>5, AwareOfPushing
<1>8. ASSUME PushEventSkip
      PROVE  AwareInv' /\ TurnInv'
  <2>1. /\ UNCHANGED <<value, chain, updated>> /\ push' = [push EXCEPT !.reg = @ + 1]
        /\ push.reg < Len(chain[push.at]) /\ Is("event")
        /\ ~WasUpdated(push.at, chain[push.at][push.reg + 1].node, "event")
    BY <1>8 DEF PushEventSkip
  <2>2. push'.at = push.at /\ push'.reg = push.reg + 1 /\ push.reg \in Nat
    BY <2>1, RegNode DEF PushTypeOK
  <2>3. push.at \in States
    BY <2>1, RegNode, StateUpdatesAssumption DEF Is, PushTypeOK, Idle, States
  <2>4. push.reg + 1 \in 1 .. Len(chain[push.at])
    BY <2>1, <2>2, <2>3, RegNode
  <2>5. chain[push.at][push.reg + 1].seen = Content(push.at, chain[push.at][push.reg + 1].node)
    BY <2>1, <2>3, <2>4 DEF AwareInv, Aware
  <2>6. TurnInv'
    <3>1. ASSUME NEW j \in 1 .. push.reg + 1
          PROVE  chain[push.at][j].seen = Content(push.at, chain[push.at][j].node)
      <4>1. j = push.reg + 1 \/ j \in 1 .. push.reg
        BY <2>2
      <4>2. push.at > 0
        BY <2>3 DEF States
      <4> QED
        BY <2>5, <4>1, <4>2 DEF TurnInv
    <3>2. PICK c, s, v, n : c = chain /\ s = push.at /\ v = value /\ n = push.reg + 1
      OBVIOUS
    <3>3. \A j \in 1 .. n : c[s][j].seen = Content(s, c[s][j].node)
      BY <3>1, <3>2
    <3>4. \A node : Content(s, node) = [m \in Under(node) \ {Root} |-> v[s][m]]
      BY <3>2 DEF Content
    <3>5. \A j \in 1 .. n : c[s][j].seen = [m \in Under(c[s][j].node) \ {Root} |-> v[s][m]]
      BY <3>3, <3>4
    <3>6. chain' = c /\ push'.at = s /\ value' = v /\ push'.reg = n
      BY <2>1, <2>2, <3>2
    <3> QED
      BY <3>5, <3>6 DEF TurnInv, Content
  <2>7. 0 \notin States
    BY DEF States
  <2> QED
    BY <2>1, <2>6, <2>7, AwareOfPushing
<1>9. ASSUME NEW keep \in BOOLEAN, PushEvent(keep)
      PROVE  AwareInv' /\ TurnInv'
  BY <1>9, AwareOfCallback
<1>10. ASSUME LinkChanges
      PROVE  AwareInv' /\ TurnInv'
  <2>1. UNCHANGED <<value, chain, updated, push>>
    BY <1>10 DEF LinkChanges
  <2>2. TurnInv'
    BY <2>1 DEF TurnInv, Content
  <2>3. 0 \notin States
    BY DEF States
  <2> QED
    BY <2>1, <2>2, <2>3, AwareOfPushing
<1>11. ASSUME HandleLinkEvent
      PROVE  AwareInv' /\ TurnInv'
  <2>1. UNCHANGED <<value, chain, push>> /\ push.at = 0
    BY <1>11 DEF HandleLinkEvent, Idle
  <2>2. \A d \in States : updated'[d]["event"] = updated[d]["event"]
    BY <1>11, LinkEventEffect, RegNode
  <2>3. TurnInv'
    BY <2>1 DEF TurnInv
  <2>4. 0 \notin States
    BY DEF States
  <2> QED
    BY <2>1, <2>2, <2>3, <2>4, AwareOfPushing
<1>12. ASSUME NEW s \in States, IntervalElapses(s)
      PROVE  AwareInv' /\ TurnInv'
  <2>1. UNCHANGED <<value, chain, updated, push>>
    BY <1>12 DEF IntervalElapses
  <2>2. TurnInv'
    BY <2>1 DEF TurnInv, Content
  <2>3. 0 \notin States
    BY DEF States
  <2> QED
    BY <2>1, <2>2, <2>3, AwareOfPushing
<1>13. CASE UNCHANGED vars
  <2>1. UNCHANGED <<value, chain, updated, push>>
    BY <1>13 DEF vars
  <2>2. TurnInv'
    BY <2>1 DEF TurnInv, Content
  <2>3. 0 \notin States
    BY DEF States
  <2> QED
    BY <2>1, <2>2, <2>3, AwareOfPushing
<1>14. QED
  BY <1>1, <1>2, <1>3, <1>4, <1>5, <1>6, <1>7, <1>8, <1>9, <1>10, <1>11, <1>12, <1>13 DEF
      Next, Push

\* Whatever other callbacks do in the middle of a push - they register events, give up
\* their registrations, update other states - the bit of a node stays set until every
\* callback for it has seen its newest content.
THEOREM NoCallbackMisses == ~OwnUpdates => (Spec => []NoEventMissed)
<1> SUFFICES ASSUME ~OwnUpdates
             PROVE  Spec => []NoEventMissed
  OBVIOUS
<1>1. Init => AwareInv /\ TurnInv
  BY DEF Init, AwareInv, TurnInv, Idle
<1>2. TypeOK /\ TypeOK' /\ AwareInv /\ TurnInv /\ [Next]_vars => (AwareInv /\ TurnInv)'
  BY AwareStep
<1>3. TypeOK /\ AwareInv => NoEventMissed
  <2> SUFFICES ASSUME TypeOK, AwareInv, NEW r \in Regs
               PROVE  Reg(r).seen = Content(r[1], Reg(r).node) \/ WasUpdated(r[1], Reg(r).node, "event")
    BY DEF NoEventMissed
  <2>1. PICK d \in States : \E j \in DOMAIN chain[d] : r = <<d, j>>
    BY DEF Regs
  <2>2. PICK j \in DOMAIN chain[d] : r = <<d, j>>
    BY <2>1
  <2>3. j \in 1 .. Len(chain[d])
    BY <2>2, ChainForm DEF TypeOK, Chains
  <2> QED
    BY <2>2, <2>3 DEF AwareInv, Aware, Reg
<1> QED
  BY UpdateTypesCorrect, <1>1, <1>2, <1>3, PTL DEF Spec

-----------------------------------------------------------------------------
(* The broker. *)

\* The last news of the connection is how it is.
LinkInv == IF events = << >> THEN connected = link ELSE events[Len(events)] = link

\* When nothing waits for the broker, it has the state.
Current(s) ==
    link /\ events = << >> /\ ~WasUpdated(s, Root, "mqtt") => published[s] = value[s]

CurrentInv == \A s \in States : Current(s)

\* A state that was sent in this push has not changed since.
SentInv ==
    "mqtt" \in push.sent /\ link /\ events = << >> => published[push.at] = value[push.at]

\* No bit of Mqtt is taken away, and what the broker has is current.
LEMMA CurrentStays ==
    ASSUME StateTypeOK, NEW s \in States, Current(s), value'[s] = value[s],
           published'[s] = published[s], updated[s]["mqtt"] \subseteq updated'[s]["mqtt"],
           UNCHANGED <<link, events>>
    PROVE  Current(s)'
BY DEF Current, WasUpdated, Under

\* An update sets a bit for the broker.
LEMMA CurrentAfterUpdate ==
    ASSUME StateTypeOK, CurrentInv, NEW u \in States, NEW m \in Members, Update(u, m),
           UNCHANGED <<link, events, published>>
    PROVE  CurrentInv'
<1>1. /\ \A e \in States \ {u} : value'[e] = value[e] /\ updated'[e] = updated[e]
      /\ updated'[u]["mqtt"] = updated[u]["mqtt"] \cup {m}
  BY UpdateEffect DEF Backends
<1> SUFFICES ASSUME NEW s \in States
             PROVE  Current(s)'
  BY DEF CurrentInv
<1>2. CASE s = u
  <2>1. WasUpdated(s, Root, "mqtt")'
    BY <1>1, <1>2 DEF WasUpdated, Under, Nodes
  <2> QED
    BY <2>1 DEF Current
<1>3. CASE s # u
  BY <1>1, <1>3, CurrentStays DEF CurrentInv
<1> QED
  BY <1>2, <1>3

\* When Mqtt is done with a state that it has not sent, its bit stays; what it sent over
\* a connection is what the broker has.
LEMMA CurrentAfterMqtt ==
    ASSUME TypeOK, LinkInv, CurrentInv, PushMqtt
    PROVE  CurrentInv' /\ SentInv'
<1>1. StateTypeOK /\ PushTypeOK
  BY DEF TypeOK
<1>2. UNCHANGED <<value, link, events>> /\ Is("mqtt")
  BY DEF PushMqtt
<1>3. PICK sent \in BOOLEAN :
         /\ Handled("mqtt", sent)
         /\ \A d \in States \ {push.at} : published'[d] = published[d]
         /\ sent /\ link /\ events = << >> => published'[push.at] = value[push.at]
         /\ ~sent => UNCHANGED published
  <2>1. CASE MqttWants(push.at) = "No" /\ Handled("mqtt", TRUE) /\ UNCHANGED published
    <3>1. ~connected
      BY <2>1 DEF MqttWants
    <3>2. ~(link /\ events = << >>)
      BY <3>1 DEF LinkInv
    <3> QED
      BY <2>1, <3>2
  <2>2. CASE Handled("mqtt", FALSE) /\ UNCHANGED published
    BY <2>2
  <2>3. CASE /\ Handled("mqtt", TRUE)
             /\ published' = IF link THEN [published EXCEPT ![push.at] = value[push.at]] ELSE published
    <3>1. push.at \in States
      BY <1>1, <1>2, <2>3, MqttHandled
    <3>2. DOMAIN published = States
      BY DEF TypeOK, MqttTypeOK
    <3> QED
      BY <2>3, <3>1, <3>2
  <2> QED
    BY <2>1, <2>2, <2>3 DEF PushMqtt
<1>4. /\ push.at \in States /\ push.at # 0
      /\ \A d \in States \ {push.at} : updated'[d]["mqtt"] = updated[d]["mqtt"]
      /\ \/ /\ push' = [push EXCEPT !.todo = {"event"}, !.sent = IF sent THEN {"mqtt"} ELSE {}]
            /\ UNCHANGED updated
         \/ /\ push' = Behind(push.at)
            /\ updated'[push.at]["mqtt"] = IF sent THEN {} ELSE updated[push.at]["mqtt"]
  <2>1. push.at \in States
    BY <1>1, <1>2, <1>3, MqttHandled
  <2>2. push.at # 0
    BY <2>1 DEF States
  <2> QED
    BY <1>1, <1>2, <1>3, <2>1, <2>2, MqttHandled
<1>5. CurrentInv'
  <2> SUFFICES ASSUME NEW d \in States
               PROVE  Current(d)'
    BY DEF CurrentInv
  <2>1. CASE d # push.at
    BY <1>1, <1>2, <1>3, <1>4, <2>1, CurrentStays DEF CurrentInv
  <2>2. CASE d = push.at /\ sent
    BY <1>2, <1>3, <2>2 DEF Current
  <2>3. CASE d = push.at /\ ~sent
    BY <1>1, <1>2, <1>3, <1>4, <2>3, CurrentStays DEF CurrentInv
  <2> QED
    BY <2>1, <2>2, <2>3
<1>6. SentInv'
  <2>1. CASE push' = Behind(push.at)
    BY <1>1, <1>4, <2>1, BehindType DEF SentInv
  <2>2. CASE push' = [push EXCEPT !.todo = {"event"}, !.sent = IF sent THEN {"mqtt"} ELSE {}]
    <3>1. push'.at = push.at /\ ("mqtt" \in push'.sent => sent)
      BY <1>1, <2>2 DEF PushTypeOK
    <3> QED
      BY <1>2, <1>3, <3>1 DEF SentInv
  <2> QED
    BY <1>4, <2>1, <2>2
<1> QED
  BY <1>5, <1>6

\* The events clear the bit of Mqtt only behind a state that it has sent.
LEMMA CurrentAfterEvents ==
    ASSUME TypeOK, CurrentInv, SentInv, PushEventDone
    PROVE  CurrentInv' /\ SentInv'
<1>1. StateTypeOK /\ PushTypeOK
  BY DEF TypeOK
<1>2. UNCHANGED <<value, link, events, published>> /\ Is("event") /\ Handled("event", TRUE)
  BY DEF PushEventDone, mqtt
<1>3. /\ push.at \in States /\ push.at # 0 /\ push' = Behind(push.at)
      /\ \A d \in States \ {push.at} : updated'[d] = updated[d]
      /\ updated'[push.at]["mqtt"]
           = IF "mqtt" \in push.sent THEN {} ELSE updated[push.at]["mqtt"]
  BY <1>1, <1>2, EventHandled DEF States
<1>4. SentInv'
  BY <1>1, <1>3, BehindType DEF SentInv
<1> SUFFICES ASSUME NEW d \in States
             PROVE  Current(d)'
  BY <1>4 DEF CurrentInv
<1>5. CASE d = push.at /\ "mqtt" \in push.sent
  BY <1>2, <1>5 DEF Current, SentInv
<1>6. CASE ~(d = push.at /\ "mqtt" \in push.sent)
  <2>1. updated'[d]["mqtt"] = updated[d]["mqtt"]
    BY <1>3, <1>6
  <2> QED
    BY <1>1, <1>2, <2>1, CurrentStays DEF CurrentInv
<1> QED
  BY <1>5, <1>6

\* Nothing waits of the news that the main thread has not heard.  A connection that it
\* hears of makes it send everything.
LEMMA CurrentAfterNews ==
    ASSUME TypeOK, LinkInv, CurrentInv, HandleLinkEvent
    PROVE  LinkInv' /\ CurrentInv' /\ SentInv'
<1>1. StateTypeOK /\ events \in Seq(BOOLEAN) /\ events # << >>
  BY DEF TypeOK, MqttTypeOK, HandleLinkEvent
<1>2. /\ UNCHANGED <<value, link, published, push>> /\ push = Idle /\ events' = Tail(events)
      /\ connected' = Head(events)
  <2>1. Head(events) \in BOOLEAN
    BY <1>1
  <2>2. connected' = Head(events)
    BY <2>1 DEF HandleLinkEvent, OnMqttConnect, OnMqttDisconnect
  <2> QED
    BY <2>2 DEF HandleLinkEvent
<1>3. /\ events' = << >> => Len(events) = 1 /\ Head(events) = events[1]
      /\ events' # << >> => Len(events') = Len(events) - 1 /\ events'[Len(events')] = events[Len(events)]
  <2>1. /\ events' \in Seq(BOOLEAN) /\ Len(events) \in Nat \ {0} /\ Len(events') = Len(events) - 1
        /\ \A k \in 1 .. Len(events) - 1 : events'[k] = events[k + 1]
    BY <1>1, <1>2
  <2>2. CASE events' = << >>
    <3>1. Len(events') = 0
      BY <2>2
    <3> QED
      BY <1>1, <2>1, <2>2, <3>1
  <2>3. CASE events' # << >>
    <3>1. Len(events') # 0
      BY <2>1, <2>3
    <3>2. Len(events) - 1 \in 1 .. Len(events) - 1
      BY <2>1, <3>1
    <3>3. events'[Len(events) - 1] = events[(Len(events) - 1) + 1]
      BY <2>1, <3>2
    <3> QED
      BY <2>1, <2>3, <3>3
  <2> QED
    BY <2>2, <2>3
<1>4. LinkInv'
  BY <1>1, <1>2, <1>3 DEF LinkInv
<1>5. SentInv'
  BY <1>2 DEF SentInv, Idle
<1>6. CurrentInv'
  <2> SUFFICES ASSUME NEW s \in States, link, events' = << >>
               PROVE  WasUpdated(s, Root, "mqtt")'
    BY <1>2 DEF CurrentInv, Current
  <2>1. Head(events)
    BY <1>1, <1>2, <1>3 DEF LinkInv
  <2>2. Root \in updated'[s]["mqtt"]
    BY <1>1, <2>1, LinkEventEffect
  <2> QED
    BY <2>2 DEF WasUpdated, Under, Nodes
<1> QED
  BY <1>4, <1>5, <1>6

\* Every step keeps the three of them.
LEMMA BrokerStep == ~OwnUpdates /\ TypeOK /\ LinkInv /\ CurrentInv /\ SentInv /\ [Next]_vars
    => (LinkInv /\ CurrentInv /\ SentInv)'
<1> SUFFICES ASSUME ~OwnUpdates, TypeOK, LinkInv, CurrentInv, SentInv, [Next]_vars
             PROVE  (LinkInv /\ CurrentInv /\ SentInv)'
  OBVIOUS
<1>1. ASSUME Register
      PROVE  LinkInv' /\ CurrentInv' /\ SentInv'
  <2>1. /\ UNCHANGED <<value, updated, connected, link, events, published>>
        /\ push'.at = push.at /\ push'.sent = push.sent
    BY <1>1 DEF Register, mqtt
  <2> QED
    BY <2>1 DEF LinkInv, CurrentInv, Current, SentInv, WasUpdated
<1>2. ASSUME DeregisterEvent
      PROVE  LinkInv' /\ CurrentInv' /\ SentInv'
  <2>1. /\ UNCHANGED <<value, updated, connected, link, events, published>>
        /\ push'.at = push.at /\ push'.sent = push.sent
    BY <1>2 DEF DeregisterEvent, mqtt
  <2> QED
    BY <2>1 DEF LinkInv, CurrentInv, Current, SentInv, WasUpdated
<1>3. ASSUME UpdateState
      PROVE  LinkInv' /\ CurrentInv' /\ SentInv'
  <2>1. PICK u \in States, m \in Members : Update(u, m)
    BY <1>3 DEF UpdateState
  <2>2. UNCHANGED <<connected, link, events, published>> /\ push'.sent = {}
    BY <1>3 DEF UpdateState, Idle, mqtt
  <2>3. CurrentInv'
    BY <2>1, <2>2, CurrentAfterUpdate DEF TypeOK
  <2> QED
    BY <2>2, <2>3 DEF LinkInv, SentInv
<1>4. ASSUME PushStart
      PROVE  LinkInv' /\ CurrentInv' /\ SentInv'
  <2>1. UNCHANGED <<value, updated, connected, link, events, published>> /\ "mqtt" \notin push'.sent
    BY <1>4 DEF PushStart, Idle, mqtt
  <2> QED
    BY <2>1 DEF LinkInv, CurrentInv, Current, SentInv, WasUpdated
<1>5. ASSUME PushState
      PROVE  LinkInv' /\ CurrentInv' /\ SentInv'
  <2>1. UNCHANGED <<value, updated, connected, link, events, published>> /\ "mqtt" \notin push'.sent
    BY <1>5 DEF PushState, Behind, Idle, TypeOK, PushTypeOK, mqtt
  <2> QED
    BY <2>1 DEF LinkInv, CurrentInv, Current, SentInv, WasUpdated
<1>6. ASSUME PushMqtt
      PROVE  LinkInv' /\ CurrentInv' /\ SentInv'
  <2>1. LinkInv'
    BY <1>6 DEF PushMqtt, LinkInv
  <2> QED
    BY <1>6, <2>1, CurrentAfterMqtt
<1>7. ASSUME PushEventDone
      PROVE  LinkInv' /\ CurrentInv' /\ SentInv'
  <2>1. LinkInv'
    BY <1>7 DEF PushEventDone, LinkInv, mqtt
  <2> QED
    BY <1>7, <2>1, CurrentAfterEvents
<1>8. ASSUME PushEventSkip
      PROVE  LinkInv' /\ CurrentInv' /\ SentInv'
  <2>1. /\ UNCHANGED <<value, updated, connected, link, events, published>>
        /\ push'.at = push.at /\ push'.sent = push.sent
    BY <1>8 DEF PushEventSkip, TypeOK, PushTypeOK, mqtt
  <2> QED
    BY <2>1 DEF LinkInv, CurrentInv, Current, SentInv, WasUpdated
<1>9. ASSUME NEW keep \in BOOLEAN, PushEvent(keep)
      PROVE  LinkInv' /\ CurrentInv' /\ SentInv'
  <2>1. UNCHANGED <<connected, link, events, published>>
    BY <1>9 DEF PushEvent, mqtt
  <2>2. push'.at = push.at /\ push'.sent = push.sent /\ push.at \in States
    <3>1. push.at \in States /\ push' = [push EXCEPT !.reg = IF keep THEN push.reg + 1 ELSE push.reg]
      BY <1>9, PushEventEffect
    <3> QED
      BY <3>1 DEF TypeOK, PushTypeOK
  <2>3. CASE UNCHANGED <<value, updated>>
    BY <2>1, <2>2, <2>3 DEF LinkInv, CurrentInv, Current, SentInv, WasUpdated
  <2>4. CASE \E e \in States \ {push.at}, m \in Members : Update(e, m)
    <3>1. CurrentInv'
      BY <2>1, <2>4, CurrentAfterUpdate DEF TypeOK
    <3>2. value'[push.at] = value[push.at]
      BY <2>2, <2>4, UpdateEffect DEF TypeOK
    <3> QED
      BY <2>1, <2>2, <3>1, <3>2 DEF LinkInv, SentInv
  <2> QED
    BY <1>9, <2>3, <2>4 DEF PushEvent
<1>10. ASSUME LinkChanges
      PROVE  LinkInv' /\ CurrentInv' /\ SentInv'
  <2>1. link' = ~link /\ events' = Append(events, link') /\ UNCHANGED connected
    BY <1>10 DEF LinkChanges
  <2>2. events \in Seq(BOOLEAN) /\ (~link) \in BOOLEAN
    BY DEF TypeOK, MqttTypeOK
  <2>3. events' # << >> /\ events'[Len(events')] = link'
    BY <2>1, <2>2
  <2> QED
    BY <2>3 DEF LinkInv, CurrentInv, Current, SentInv
<1>11. ASSUME HandleLinkEvent
      PROVE  LinkInv' /\ CurrentInv' /\ SentInv'
  BY <1>11, CurrentAfterNews
<1>12. ASSUME NEW s \in States, IntervalElapses(s)
      PROVE  LinkInv' /\ CurrentInv' /\ SentInv'
  <2>1. /\ UNCHANGED <<value, updated, connected, link, events, published>>
        /\ push'.at = push.at /\ push'.sent = push.sent
    BY <1>12 DEF IntervalElapses
  <2> QED
    BY <2>1 DEF LinkInv, CurrentInv, Current, SentInv, WasUpdated
<1>13. CASE UNCHANGED vars
  <2>1. /\ UNCHANGED <<value, updated, connected, link, events, published>>
        /\ push'.at = push.at /\ push'.sent = push.sent
    BY <1>13 DEF vars, mqtt
  <2> QED
    BY <2>1 DEF LinkInv, CurrentInv, Current, SentInv, WasUpdated
<1>14. QED
  BY <1>1, <1>2, <1>3, <1>4, <1>5, <1>6, <1>7, <1>8, <1>9, <1>10, <1>11, <1>12, <1>13 DEF
      Next, Push

\* However often the connection is lost and found while states change and messages are
\* dropped: when the connection is up, the main thread has heard of it, and no bit is
\* set, then the broker has what the device has.
THEOREM BrokerHasAll == ~OwnUpdates => (Spec => []BrokerIsCurrent)
<1> SUFFICES ASSUME ~OwnUpdates
             PROVE  Spec => []BrokerIsCurrent
  OBVIOUS
<1>1. Init => LinkInv /\ CurrentInv /\ SentInv
  BY DEF Init, LinkInv, CurrentInv, Current, SentInv, Idle
<1>2. TypeOK /\ LinkInv /\ CurrentInv /\ SentInv /\ [Next]_vars
        => (LinkInv /\ CurrentInv /\ SentInv)'
  BY BrokerStep
<1>3. CurrentInv => BrokerIsCurrent
  BY DEF CurrentInv, Current, BrokerIsCurrent
<1> QED
  BY UpdateTypesCorrect, <1>1, <1>2, <1>3, PTL DEF Spec
=============================================================================
