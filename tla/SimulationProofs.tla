-------------------------- MODULE SimulationProofs --------------------------
(***************************************************************************)
(* The pool of region ids is sound for every number of regions and agents, *)
(* every clock and every objective function: an id is never lost, never    *)
(* handed out twice, and a region is never created over a living one.      *)
(*                                                                         *)
(* The values messages carry play no part: a queue is a sequence of        *)
(* anything, and only the types of its messages are looked at.             *)
(***************************************************************************)
EXTENDS Simulation, TLAPS, SequenceTheorems

IsQueue(q) == \E S : q \in Seq(S)

IsMap(f) == f = [r \in RegionIds |-> f[r]]

AllQueues(f) == IsMap(f) /\ \A r \in RegionIds : IsQueue(f[r])

-----------------------------------------------------------------------------
(* Queues *)

LEMMA QueueDomain ==
    ASSUME NEW q, IsQueue(q)
    PROVE  Len(q) \in Nat /\ DOMAIN q = 1 .. Len(q)
BY LenProperties DEF IsQueue

LEMMA AppendQueue ==
    ASSUME NEW q, IsQueue(q), NEW m
    PROVE  /\ IsQueue(Append(q, m))
           /\ Len(Append(q, m)) = Len(q) + 1
           /\ DOMAIN Append(q, m) = DOMAIN q \cup {Len(q) + 1}
           /\ \A i \in DOMAIN q : Append(q, m)[i] = q[i]
           /\ Append(q, m)[Len(q) + 1] = m
<1>1. PICK S : q \in Seq(S)
  BY DEF IsQueue
<1> DEFINE T == S \cup {m}
<1>2. q \in Seq(T) /\ m \in T
  BY <1>1, SeqMonotonic
<1> HIDE DEF T
<1>3. Append(q, m) \in Seq(T)
  BY <1>2, AppendProperties
<1> QED  BY <1>2, <1>3, AppendProperties, LenProperties DEF IsQueue

LEMMA TailQueue ==
    ASSUME NEW q, IsQueue(q), q # <<>>
    PROVE  /\ IsQueue(Tail(q))
           /\ Len(q) \in Nat \ {0}
           /\ Len(Tail(q)) = Len(q) - 1
           /\ DOMAIN Tail(q) = 1 .. Len(q) - 1
           /\ \A i \in DOMAIN Tail(q) : i + 1 \in DOMAIN q /\ Tail(q)[i] = q[i + 1]
           /\ Head(q) = q[1] /\ 1 \in DOMAIN q
<1>1. PICK S : q \in Seq(S)
  BY DEF IsQueue
<1>2. Tail(q) \in Seq(S) /\ Len(Tail(q)) = Len(q) - 1
  BY <1>1, HeadTailProperties
<1>3. Len(q) \in Nat \ {0} /\ DOMAIN q = 1 .. Len(q)
  BY <1>1, EmptySeq, LenProperties
<1>4. DOMAIN Tail(q) = 1 .. Len(q) - 1
  BY <1>2, LenProperties
<1>5. \A i \in DOMAIN Tail(q) : Tail(q)[i] = q[i + 1]
  BY <1>1, <1>2, <1>4, HeadTailProperties
<1>6. Head(q) = q[1]
  OBVIOUS
<1> QED  BY <1>2, <1>3, <1>4, <1>5, <1>6 DEF IsQueue

LEMMA ConcatQueue ==
    ASSUME NEW q, IsQueue(q), NEW p, IsQueue(p)
    PROVE  /\ IsQueue(q \o p)
           /\ Len(q \o p) = Len(q) + Len(p)
           /\ DOMAIN (q \o p) = 1 .. Len(q) + Len(p)
           /\ \A i \in DOMAIN q : (q \o p)[i] = q[i]
           /\ \A i \in DOMAIN (q \o p) \ DOMAIN q :
                 i - Len(q) \in DOMAIN p /\ (q \o p)[i] = p[i - Len(q)]
<1>1. PICK S, R : q \in Seq(S) /\ p \in Seq(R)
  BY DEF IsQueue
<1> DEFINE T == S \cup R
<1>2. q \in Seq(T) /\ p \in Seq(T)
  BY <1>1, SeqMonotonic
<1> HIDE DEF T
<1>3. q \o p \in Seq(T) /\ Len(q \o p) = Len(q) + Len(p)
  BY <1>2, ConcatProperties
<1>4. Len(q) \in Nat /\ Len(p) \in Nat /\ DOMAIN q = 1 .. Len(q) /\ DOMAIN p = 1 .. Len(p)
  BY <1>2, LenProperties
<1>5. DOMAIN (q \o p) = 1 .. Len(q) + Len(p)
  BY <1>3, LenProperties
<1>6. \A i \in 1 .. Len(q) + Len(p) :
         (q \o p)[i] = IF i <= Len(q) THEN q[i] ELSE p[i - Len(q)]
  BY <1>2, ConcatProperties
<1> QED  BY <1>3, <1>4, <1>5, <1>6 DEF IsQueue

LEMMA TakeFromOne ==
    ASSUME NEW f, AllQueues(f), NEW r \in RegionIds, f[r] # <<>>
    PROVE  AllQueues([f EXCEPT ![r] = Tail(@)])
<1>1. DOMAIN f = RegionIds /\ IsQueue(f[r])
  BY DEF AllQueues, IsMap
<1>2. IsQueue(Tail(f[r]))
  BY <1>1, TailQueue
<1> QED  BY <1>1, <1>2 DEF AllQueues, IsMap

LEMMA SendToOne ==
    ASSUME NEW f, AllQueues(f), NEW r \in RegionIds, NEW m
    PROVE  AllQueues([f EXCEPT ![r] = Append(@, m)])
<1>1. DOMAIN f = RegionIds /\ IsQueue(f[r])
  BY DEF AllQueues, IsMap
<1>2. IsQueue(Append(f[r], m))
  BY <1>1, AppendQueue
<1> QED  BY <1>1, <1>2 DEF AllQueues, IsMap

-----------------------------------------------------------------------------
(* What a queue holds after a message is sent or taken *)

LEMMA SendMessage ==
    ASSUME NEW q, IsQueue(q), NEW m, NEW type
    PROVE  /\ NoneIn(Append(q, m), type) <=> NoneIn(q, type) /\ m.type # type
           /\ AtMostOneIn(q, type) /\ m.type # type => AtMostOneIn(Append(q, m), type)
           /\ NoneIn(q, type) => AtMostOneIn(Append(q, m), type)
<1>1. /\ Len(q) \in Nat /\ DOMAIN q = 1 .. Len(q)
      /\ DOMAIN Append(q, m) = DOMAIN q \cup {Len(q) + 1}
      /\ \A i \in DOMAIN q : Append(q, m)[i] = q[i]
      /\ Append(q, m)[Len(q) + 1] = m
  BY QueueDomain, AppendQueue
<1>2. NoneIn(Append(q, m), type) <=> NoneIn(q, type) /\ m.type # type
  BY <1>1 DEF NoneIn
<1>3. AtMostOneIn(q, type) /\ m.type # type => AtMostOneIn(Append(q, m), type)
  BY <1>1 DEF AtMostOneIn
<1>4. NoneIn(q, type) => AtMostOneIn(Append(q, m), type)
  BY <1>1 DEF NoneIn, AtMostOneIn
<1> QED  BY <1>2, <1>3, <1>4

LEMMA TakeMessage ==
    ASSUME NEW q, IsQueue(q), q # <<>>, NEW type
    PROVE  /\ NoneIn(q, type) => NoneIn(Tail(q), type)
           /\ AtMostOneIn(q, type) => AtMostOneIn(Tail(q), type)
           /\ AtMostOneIn(q, type) /\ Head(q).type = type => NoneIn(Tail(q), type)
           /\ Head(q).type = type => ~NoneIn(q, type)
<1>1. /\ Len(q) \in Nat \ {0} /\ DOMAIN q = 1 .. Len(q)
      /\ DOMAIN Tail(q) = 1 .. Len(q) - 1
      /\ \A i \in DOMAIN Tail(q) : i + 1 \in DOMAIN q /\ Tail(q)[i] = q[i + 1]
      /\ Head(q) = q[1] /\ 1 \in DOMAIN q
  BY QueueDomain, TailQueue
<1>2. NoneIn(q, type) => NoneIn(Tail(q), type)
  BY <1>1 DEF NoneIn
<1>3. AtMostOneIn(q, type) => AtMostOneIn(Tail(q), type)
  <2> SUFFICES ASSUME AtMostOneIn(q, type),
                      NEW i \in DOMAIN Tail(q), NEW j \in DOMAIN Tail(q),
                      Tail(q)[i].type = type, Tail(q)[j].type = type
               PROVE  i = j
    BY DEF AtMostOneIn
  <2>1. i + 1 = j + 1
    BY <1>1 DEF AtMostOneIn
  <2> QED  BY <1>1, <2>1
<1>4. AtMostOneIn(q, type) /\ Head(q).type = type => NoneIn(Tail(q), type)
  <2> SUFFICES ASSUME AtMostOneIn(q, type), q[1].type = type,
                      NEW i \in DOMAIN Tail(q), Tail(q)[i].type = type
               PROVE  FALSE
    BY <1>1 DEF NoneIn
  <2>1. i + 1 = 1
    BY <1>1 DEF AtMostOneIn
  <2> QED  BY <1>1, <2>1
<1>5. Head(q).type = type => ~NoneIn(q, type)
  BY <1>1 DEF NoneIn
<1> QED  BY <1>2, <1>3, <1>4, <1>5

LEMMA SendCopies ==
    ASSUME NEW q, IsQueue(q), NEW m, NEW copies \in Nat, NEW type, m.type # type
    PROVE  LET sent == q \o [i \in 1 .. copies |-> m] IN
           /\ IsQueue(sent)
           /\ NoneIn(sent, type) <=> NoneIn(q, type)
           /\ AtMostOneIn(q, type) => AtMostOneIn(sent, type)
<1> DEFINE p == [i \in 1 .. copies |-> m]
<1>1. IsQueue(p) /\ Len(p) = copies /\ DOMAIN p = 1 .. copies
  <2>1. p \in Seq({m})
    OBVIOUS
  <2>2. DOMAIN p = 1 .. copies
    OBVIOUS
  <2> HIDE DEF p
  <2>3. Len(p) \in Nat /\ DOMAIN p = 1 .. Len(p)
    BY <2>1, LenProperties
  <2>4. Len(p) = copies
    BY <2>2, <2>3
  <2> QED  BY <2>1, <2>2, <2>4 DEF IsQueue
<1>2. \A i \in DOMAIN p : p[i] = m
  OBVIOUS
<1> HIDE DEF p
<1>3. /\ Len(q) \in Nat /\ DOMAIN q = 1 .. Len(q)
      /\ IsQueue(q \o p)
      /\ DOMAIN (q \o p) = 1 .. Len(q) + Len(p)
      /\ \A i \in DOMAIN q : (q \o p)[i] = q[i]
      /\ \A i \in DOMAIN (q \o p) \ DOMAIN q : (q \o p)[i] = m
  <2>1. IsQueue(q \o p) /\ DOMAIN (q \o p) = 1 .. Len(q) + Len(p)
    BY <1>1, ConcatQueue
  <2>2. \A i \in DOMAIN q : (q \o p)[i] = q[i]
    BY <1>1, ConcatQueue
  <2>3. \A i \in DOMAIN (q \o p) \ DOMAIN q : (q \o p)[i] = m
    BY <1>1, <1>2, ConcatQueue
  <2> QED  BY <2>1, <2>2, <2>3, QueueDomain
<1>4. \A i \in DOMAIN (q \o p) : (q \o p)[i].type = type => i \in DOMAIN q
  BY <1>3
<1>5. DOMAIN q \subseteq DOMAIN (q \o p)
  BY <1>1, <1>3
<1>6. NoneIn(q \o p, type) <=> NoneIn(q, type)
  BY <1>3, <1>4, <1>5 DEF NoneIn
<1>7. AtMostOneIn(q, type) => AtMostOneIn(q \o p, type)
  BY <1>3, <1>4 DEF AtMostOneIn
<1> QED  BY <1>3, <1>6, <1>7 DEF p

-----------------------------------------------------------------------------
(* The pool of ids *)

\* nextRegionId: the first free id changes sides.
LEMMA TakeId ==
    ASSUME NEW free \in Seq(RegionIds), NEW used \in Seq(RegionIds),
           Partition(free, used), free # <<>>
    PROVE  /\ Head(free) \in RegionIds
           /\ Head(free) \notin ToSet(used)
           /\ Tail(free) \in Seq(RegionIds)
           /\ Append(used, Head(free)) \in Seq(RegionIds)
           /\ ToSet(Append(used, Head(free))) = ToSet(used) \cup {Head(free)}
           /\ Partition(Tail(free), Append(used, Head(free)))
<1> DEFINE id == Head(free)  new == Append(used, id)  rest == Tail(free)
<1>1. IsQueue(free) /\ IsQueue(used)
  BY DEF IsQueue
<1>2. /\ Len(free) \in Nat \ {0} /\ DOMAIN free = 1 .. Len(free)
      /\ DOMAIN rest = 1 .. Len(free) - 1
      /\ \A i \in DOMAIN rest : i + 1 \in DOMAIN free /\ rest[i] = free[i + 1]
      /\ id = free[1] /\ 1 \in DOMAIN free
  BY <1>1, TailQueue, QueueDomain
<1>3. /\ Len(used) \in Nat /\ DOMAIN used = 1 .. Len(used)
      /\ DOMAIN new = DOMAIN used \cup {Len(used) + 1}
      /\ \A i \in DOMAIN used : new[i] = used[i]
      /\ new[Len(used) + 1] = id
  BY <1>1, AppendQueue, QueueDomain
<1>4. id \in RegionIds /\ rest \in Seq(RegionIds) /\ new \in Seq(RegionIds)
  BY HeadTailProperties, AppendProperties
<1>5. id \in ToSet(free) /\ id \notin ToSet(used)
  BY <1>2 DEF Partition, ToSet
<1>6. ToSet(new) = ToSet(used) \cup {id}
  <2>1. \A x \in ToSet(new) : x \in ToSet(used) \cup {id}
    BY <1>3 DEF ToSet
  <2>2. \A x \in ToSet(used) : x \in ToSet(new)
    BY <1>3 DEF ToSet
  <2>3. id \in ToSet(new)
    BY <1>3 DEF ToSet
  <2> QED  BY <2>1, <2>2, <2>3
<1>7. ToSet(rest) = ToSet(free) \ {id}
  <2>1. \A x \in ToSet(rest) : x \in ToSet(free) /\ x # id
    BY <1>2 DEF ToSet, Partition, IsInjective
  <2>2. ASSUME NEW x \in ToSet(free) \ {id} PROVE x \in ToSet(rest)
    <3>1. PICK i \in DOMAIN free : x = free[i]
      BY DEF ToSet
    <3>2. i - 1 \in DOMAIN rest /\ rest[i - 1] = free[i - 1 + 1]
      BY <1>2, <2>2, <3>1
    <3> QED  BY <1>2, <3>1, <3>2 DEF ToSet
  <2> QED  BY <2>1, <2>2
<1>8. IsInjective(rest)
  <2> SUFFICES ASSUME NEW a \in DOMAIN rest, NEW b \in DOMAIN rest, rest[a] = rest[b]
               PROVE  a = b
    BY DEF IsInjective
  <2>1. a + 1 = b + 1
    BY <1>2 DEF Partition, IsInjective
  <2> QED  BY <1>2, <2>1
<1>9. IsInjective(new)
  <2>1. \A i \in DOMAIN used : used[i] # id
    BY <1>5 DEF ToSet
  <2> QED  BY <1>3, <2>1 DEF Partition, IsInjective
<1> QED  BY <1>4, <1>5, <1>6, <1>7, <1>8, <1>9 DEF Partition

\* releaseId: a used id goes to the end of the free ones.
LEMMA ReleaseId ==
    ASSUME NEW free \in Seq(RegionIds), NEW used \in Seq(RegionIds),
           Partition(free, used), NEW id \in ToSet(used)
    PROVE  /\ Append(free, id) \in Seq(RegionIds)
           /\ RemoveFirst(used, id) \in Seq(RegionIds)
           /\ ToSet(RemoveFirst(used, id)) = ToSet(used) \ {id}
           /\ Partition(Append(free, id), RemoveFirst(used, id))
<1> DEFINE new == Append(free, id)
<1>1. /\ Len(used) \in Nat /\ DOMAIN used = 1 .. Len(used)
      /\ Len(free) \in Nat /\ DOMAIN free = 1 .. Len(free)
      /\ \A i \in DOMAIN used : used[i] \in RegionIds
  BY LenProperties, ElementOfSeq
<1>2. PICK k \in DOMAIN used : used[k] = id
  BY DEF ToSet
<1>3. {i \in 1 .. Len(used) : used[i] = id} = {k}
  BY <1>1, <1>2 DEF Partition, IsInjective
<1>4. SelectInSeq(used, LAMBDA v : v = id) = k
  <2>1. Min({k}) = k
    BY <1>1 DEF Min
  <2> QED  BY <1>3, <2>1 DEF SelectInSeq
<1> DEFINE front == SubSeq(used, 1, k - 1)
           back  == SubSeq(used, k + 1, Len(used))
           rest  == front \o back
<1>5. RemoveFirst(used, id) = rest
  BY <1>1, <1>2, <1>4 DEF RemoveFirst, RemoveAt
<1>6. /\ front \in Seq(RegionIds) /\ Len(front) = k - 1
      /\ \A i \in 1 .. k - 1 : front[i] = used[i]
  BY <1>1, <1>2, SubSeqProperties
<1>7. /\ back \in Seq(RegionIds) /\ Len(back) = Len(used) - k
      /\ \A i \in 1 .. Len(used) - k : back[i] = used[i + k]
  <2>1. k + 1 \in Int /\ Len(used) \in Int /\ k \in 1 .. Len(used)
    BY <1>1, <1>2
  <2>2. \A i \in k + 1 .. Len(used) : used[i] \in RegionIds
    BY <1>1, <1>2
  <2>3. /\ back \in Seq(RegionIds)
        /\ Len(back) = IF k + 1 <= Len(used) THEN Len(used) - (k + 1) + 1 ELSE 0
        /\ \A i \in 1 .. Len(used) - (k + 1) + 1 : back[i] = used[k + 1 + i - 1]
    BY <2>1, <2>2, SubSeqProperties
  <2> HIDE DEF back
  <2>4. Len(back) = Len(used) - k
    BY <2>1, <2>3
  <2>5. ASSUME NEW i \in 1 .. Len(used) - k PROVE back[i] = used[i + k]
    <3>1. i \in 1 .. Len(used) - (k + 1) + 1 /\ k + 1 + i - 1 = i + k
      BY <2>1
    <3> QED  BY <2>3, <3>1
  <2> QED  BY <2>3, <2>4, <2>5
<1> HIDE DEF front, back
<1>8. /\ rest \in Seq(RegionIds)
      /\ DOMAIN rest = 1 .. Len(used) - 1
      /\ \A i \in 1 .. Len(used) - 1 : rest[i] = IF i < k THEN used[i] ELSE used[i + 1]
  <2>1. /\ rest \in Seq(RegionIds) /\ Len(rest) = Len(used) - 1
        /\ \A i \in 1 .. Len(used) - 1 :
              rest[i] = IF i <= k - 1 THEN front[i] ELSE back[i - (k - 1)]
    <3>1. /\ rest \in Seq(RegionIds) /\ Len(rest) = Len(front) + Len(back)
          /\ \A i \in 1 .. Len(front) + Len(back) :
                rest[i] = IF i <= Len(front) THEN front[i] ELSE back[i - Len(front)]
      BY <1>6, <1>7, ConcatProperties
    <3>2. Len(front) + Len(back) = Len(used) - 1
      BY <1>1, <1>2, <1>6, <1>7
    <3> QED  BY <1>6, <3>1, <3>2
  <2> HIDE DEF rest
  <2>2. ASSUME NEW i \in 1 .. Len(used) - 1, i < k PROVE rest[i] = used[i]
    BY <1>1, <1>2, <1>6, <2>1, <2>2
  <2>3. ASSUME NEW i \in 1 .. Len(used) - 1, ~(i < k) PROVE rest[i] = used[i + 1]
    <3>1. i - (k - 1) \in 1 .. Len(used) - k /\ (i - (k - 1)) + k = i + 1
      BY <1>1, <1>2, <2>3
    <3>2. rest[i] = back[i - (k - 1)]
      BY <1>1, <1>2, <2>1, <2>3
    <3> QED  BY <1>7, <3>1, <3>2
  <2> QED  BY <2>1, <2>2, <2>3, LenProperties
<1> HIDE DEF rest
<1>9. ToSet(rest) = ToSet(used) \ {id}
  <2>1. ASSUME NEW i \in DOMAIN rest
        PROVE  rest[i] \in ToSet(used) /\ rest[i] # id
    <3> DEFINE j == IF i < k THEN i ELSE i + 1
    <3>1. j \in DOMAIN used /\ j # k /\ rest[i] = used[j]
      BY <1>1, <1>2, <1>8
    <3> HIDE DEF j
    <3> QED  BY <1>2, <3>1 DEF ToSet, Partition, IsInjective
  <2>2. ASSUME NEW i \in DOMAIN used, used[i] # id PROVE used[i] \in ToSet(rest)
    <3>1. CASE i < k
      BY <1>1, <1>2, <1>8, <3>1 DEF ToSet
    <3>2. CASE i > k
      <4>1. i - 1 \in DOMAIN rest /\ rest[i - 1] = used[i - 1 + 1]
        BY <1>1, <1>2, <1>8, <3>2
      <4> QED  BY <1>1, <4>1 DEF ToSet
    <3> QED  BY <1>1, <1>2, <2>2, <3>1, <3>2
  <2> QED  BY <2>1, <2>2 DEF ToSet
<1>10. IsInjective(rest)
  <2> SUFFICES ASSUME NEW a \in DOMAIN rest, NEW b \in DOMAIN rest, rest[a] = rest[b]
               PROVE  a = b
    BY DEF IsInjective
  <2> DEFINE at(i) == IF i < k THEN i ELSE i + 1
  <2>1. at(a) \in DOMAIN used /\ at(b) \in DOMAIN used /\ used[at(a)] = used[at(b)]
    BY <1>1, <1>2, <1>8
  <2>2. at(a) = at(b)
    BY <2>1 DEF Partition, IsInjective
  <2> QED  BY <1>1, <1>2, <1>8, <2>2
<1>11. /\ new \in Seq(RegionIds)
       /\ DOMAIN new = DOMAIN free \cup {Len(free) + 1}
       /\ \A i \in DOMAIN free : new[i] = free[i]
       /\ new[Len(free) + 1] = id
  BY <1>1, <1>2, AppendProperties, AppendQueue DEF IsQueue
<1> HIDE DEF new
<1>12. ToSet(new) = ToSet(free) \cup {id}
  <2>1. \A x \in ToSet(new) : x \in ToSet(free) \cup {id}
    BY <1>11 DEF ToSet
  <2>2. \A x \in ToSet(free) : x \in ToSet(new)
    BY <1>11 DEF ToSet
  <2>3. id \in ToSet(new)
    BY <1>11 DEF ToSet
  <2> QED  BY <2>1, <2>2, <2>3
<1>13. IsInjective(new)
  <2>1. id \notin ToSet(free)
    BY DEF Partition
  <2>2. \A i \in DOMAIN free : free[i] # id
    BY <2>1 DEF ToSet
  <2> QED  BY <1>1, <1>11, <2>2 DEF Partition, IsInjective
<1>14. Partition(new, rest)
  BY <1>9, <1>10, <1>12, <1>13 DEF Partition
<1> QED  BY <1>5, <1>8, <1>9, <1>11, <1>14 DEF new

-----------------------------------------------------------------------------
(* Who knows an id, when a message is sent to its region *)

LEMMA IdsAreSomebody == \A r \in RegionIds : r # Nobody
BY MaxRegionsAssumption DEF RegionIds, Nobody

\* The leader sends when it waits for nobody, or is waiting no longer.
LEMMA OwnsAfterSend ==
    ASSUME NEW r \in RegionIds, NEW used, NEW box, NEW mail, NEW m, IsQueue(box),
           Owns(r, used, box, mail),
           NoneIn(box, "StopSimulation"),
           m.type \in {"SolutionResponse", "UpdateGlobalSummary"},
           m.type = "SolutionResponse" => regionStarted[r]
    PROVE  Owns(r, used, Append(box, m), mail)
<1> DEFINE sent == Append(box, m)
<1>1. /\ NoneIn(sent, "CreateRegion") <=> NoneIn(box, "CreateRegion")
      /\ AtMostOneIn(box, "CreateRegion") => AtMostOneIn(sent, "CreateRegion")
      /\ NoneIn(sent, "StopSimulation")
  BY SendMessage
<1>2. \A i \in DOMAIN sent : sent[i].type # "StopSimulation"
  BY <1>1 DEF NoneIn
<1>3. ~regionStarted[r] /\ NoneIn(box, "SolutionResponse")
        => NoneIn(sent, "SolutionResponse")
  BY SendMessage
<1> HIDE DEF sent
<1>4. Owns(r, used, sent, mail)
  BY <1>1, <1>2, <1>3, Zenon DEF Owns
<1> QED  BY <1>4 DEF sent

LEMMA OwnsAfterCreate ==
    ASSUME NEW r \in RegionIds, NEW used, NEW new, NEW box, NEW mail, NEW m, IsQueue(box),
           Owns(r, used, box, mail),
           NoneIn(box, "StopSimulation"),
           r \notin ToSet(used),
           r \in ToSet(new),
           m.type = "CreateRegion"
    PROVE  Owns(r, new, Append(box, m), mail)
<1> DEFINE sent == Append(box, m)
<1>1. NoneIn(box, "CreateRegion") /\ NoneIn(mail, "RegionRegister")
      /\ r \notin registered /\ ~regionStarted[r]
  BY DEF Owns
<1>2. AtMostOneIn(sent, "CreateRegion") /\ NoneIn(sent, "StopSimulation")
  BY <1>1, SendMessage
<1>3. NoneIn(box, "SolutionResponse") => NoneIn(sent, "SolutionResponse")
  BY SendMessage
<1>4. \A i \in DOMAIN sent : sent[i].type # "StopSimulation"
  BY <1>2 DEF NoneIn
<1> HIDE DEF sent
<1>5. Owns(r, new, sent, mail)
  BY <1>1, <1>2, <1>3, <1>4, Zenon DEF Owns
<1> QED  BY <1>5 DEF sent

\* An id looks at the used ids only for itself.
LEMMA OwnsFrame ==
    ASSUME NEW r \in RegionIds, NEW used, NEW new, NEW box, NEW mail,
           Owns(r, used, box, mail),
           r \in ToSet(used) <=> r \in ToSet(new)
    PROVE  Owns(r, new, box, mail)
BY Zenon DEF Owns

\* The leader takes a message of the region.
LEMMA OwnsAfterTake ==
    ASSUME NEW r \in RegionIds, NEW used, NEW box, NEW mail, IsQueue(mail), mail # <<>>,
           Owns(r, used, box, mail)
    PROVE  Owns(r, used, box, Tail(mail))
<1> DEFINE rest == Tail(mail)
<1>1. /\ NoneIn(mail, "RegionRegister") => NoneIn(rest, "RegionRegister")
      /\ AtMostOneIn(mail, "RegionRegister") => AtMostOneIn(rest, "RegionRegister")
  BY TakeMessage
<1> HIDE DEF rest
<1>2. Owns(r, used, box, rest)
  BY <1>1, Zenon DEF Owns
<1> QED  BY <1>2 DEF rest

\* What a broadcast leaves of a box: nothing in it counts that did not before.
NoMoreThan(new, box) ==
    /\ NoneIn(box, "CreateRegion") => NoneIn(new, "CreateRegion")
    /\ AtMostOneIn(box, "CreateRegion") => AtMostOneIn(new, "CreateRegion")
    /\ NoneIn(box, "SolutionResponse") => NoneIn(new, "SolutionResponse")
    /\ NoneIn(new, "StopSimulation")

LEMMA BroadcastAddsNothing ==
    ASSUME NEW box, AllQueues(box), NEW ids, NEW m, NEW copies \in Nat,
           m.type = "UpdateGlobalSummary",
           \A r \in RegionIds : NoneIn(box[r], "StopSimulation")
    PROVE  LET new == Broadcast(box, ids, m, copies) IN
           AllQueues(new) /\ \A r \in RegionIds : NoMoreThan(new[r], box[r])
<1> DEFINE new == Broadcast(box, ids, m, copies)
           sent(r) == box[r] \o [i \in 1 .. copies |-> m]
<1>1. DOMAIN box = RegionIds
  BY DEF AllQueues, IsMap
<1>2. IsMap(new) /\ \A r \in RegionIds : new[r] = IF r \in ids THEN sent(r) ELSE box[r]
  BY <1>1 DEF Broadcast, IsMap
<1>3. ASSUME NEW r \in RegionIds
      PROVE  IsQueue(sent(r)) /\ NoMoreThan(sent(r), box[r]) /\ NoMoreThan(box[r], box[r])
  <2>1. IsQueue(box[r])
    BY DEF AllQueues
  <2>2. /\ IsQueue(sent(r))
        /\ NoneIn(sent(r), "CreateRegion") <=> NoneIn(box[r], "CreateRegion")
        /\ AtMostOneIn(box[r], "CreateRegion") => AtMostOneIn(sent(r), "CreateRegion")
    BY <2>1, SendCopies
  <2>3. NoneIn(sent(r), "StopSimulation")
    BY <2>1, SendCopies
  <2>4. NoneIn(box[r], "SolutionResponse") => NoneIn(sent(r), "SolutionResponse")
    BY <2>1, SendCopies
  <2> HIDE DEF sent
  <2> QED  BY <2>2, <2>3, <2>4 DEF NoMoreThan
<1> HIDE DEF sent, new
<1>4. AllQueues(new) /\ \A r \in RegionIds : NoMoreThan(new[r], box[r])
  BY <1>2, <1>3 DEF AllQueues
<1> QED  BY <1>4 DEF new

-----------------------------------------------------------------------------
(* Placing solutions keeps the pool sound *)

SoundPool(st) ==
    /\ st = [free |-> st.free, used |-> st.used, box |-> st.box, mode |-> st.mode]
    /\ st.free \in Seq(RegionIds)
    /\ st.used \in Seq(RegionIds)
    /\ Partition(st.free, st.used)
    /\ AllQueues(st.box)
    /\ \A r \in RegionIds : Owns(r, st.used, st.box[r], regionMail[r])

\* The leader handles messages only while it waits for no region.
IdleLeader ==
    /\ registered \subseteq RegionIds
    /\ asked = Nobody
    /\ ~replied

LEMMA IdleHasNoStop ==
    ASSUME asked = Nobody, NEW r \in RegionIds, NEW used, NEW box, NEW mail,
           Owns(r, used, box, mail)
    PROVE  NoneIn(box, "StopSimulation")
BY IdsAreSomebody DEF Owns, NoneIn

LEMMA CreateKeepsPool ==
    ASSUME IdleLeader, NEW st, SoundPool(st), st.free # <<>>, NEW list
    PROVE  SoundPool(CreateIn(st, list))
<1> DEFINE id  == Head(st.free)
           new == Append(st.used, id)
           m   == CreateRegion(list)
           box == [st.box EXCEPT ![id] = Append(@, m)]
<1>1. /\ id \in RegionIds
      /\ id \notin ToSet(st.used)
      /\ Tail(st.free) \in Seq(RegionIds)
      /\ new \in Seq(RegionIds)
      /\ ToSet(new) = ToSet(st.used) \cup {id}
      /\ Partition(Tail(st.free), new)
  BY TakeId DEF SoundPool
<1>2. CreateIn(st, list) = [free |-> Tail(st.free), used |-> new, box |-> box,
                            mode |-> st.mode]
  BY DEF CreateIn
<1>3. m.type = "CreateRegion"
  BY DEF CreateRegion
<1> HIDE DEF id, new, m
<1>4. /\ IsMap(box)
      /\ box[id] = Append(st.box[id], m)
      /\ \A r \in RegionIds \ {id} : box[r] = st.box[r]
  BY <1>1 DEF SoundPool, AllQueues, IsMap
<1>5. AllQueues(box)
  BY <1>1, <1>4, AppendQueue DEF SoundPool, AllQueues
<1>6. ASSUME NEW r \in RegionIds PROVE Owns(r, new, box[r], regionMail[r])
  <2>1. Owns(r, st.used, st.box[r], regionMail[r]) /\ IsQueue(st.box[r])
    BY DEF SoundPool, AllQueues
  <2>2. NoneIn(st.box[r], "StopSimulation")
    BY <2>1, IdleHasNoStop DEF IdleLeader
  <2>3. CASE r = id
    BY <1>1, <1>3, <1>4, <2>1, <2>2, <2>3, OwnsAfterCreate
  <2>4. CASE r # id
    BY <1>1, <1>4, <2>1, <2>4, OwnsFrame
  <2> QED  BY <2>3, <2>4
<1> HIDE DEF box
<1> QED  BY <1>1, <1>2, <1>5, <1>6 DEF SoundPool

LEMMA SendKeepsPool ==
    ASSUME IdleLeader, NEW st, SoundPool(st), NEW pick, NEW list
    PROVE  SoundPool(SendTo(st, pick, list))
<1>1. CASE pick = Spins \/ pick \notin registered
  <2>1. \E why : SendTo(st, pick, list) = [free |-> st.free, used |-> st.used,
                                           box |-> st.box, mode |-> why]
    BY <1>1 DEF SendTo, SoundPool
  <2> QED  BY <2>1 DEF SoundPool
<1>2. CASE pick # Spins /\ pick \in registered
  <2> DEFINE m   == SolutionResponse(list)
             box == [st.box EXCEPT ![pick] = Append(@, m)]
  <2>1. SendTo(st, pick, list) = [free |-> st.free, used |-> st.used, box |-> box,
                                  mode |-> st.mode]
    BY <1>2 DEF SendTo, SoundPool
  <2>2. m.type = "SolutionResponse"
    BY DEF SolutionResponse
  <2>3. pick \in RegionIds
    BY <1>2 DEF IdleLeader
  <2> HIDE DEF m
  <2>4. /\ IsMap(box)
        /\ box[pick] = Append(st.box[pick], m)
        /\ \A r \in RegionIds \ {pick} : box[r] = st.box[r]
    BY <2>3 DEF SoundPool, AllQueues, IsMap
  <2>5. AllQueues(box)
    BY <2>3, <2>4, AppendQueue DEF SoundPool, AllQueues
  <2>6. ASSUME NEW r \in RegionIds PROVE Owns(r, st.used, box[r], regionMail[r])
    <3>1. Owns(r, st.used, st.box[r], regionMail[r]) /\ IsQueue(st.box[r])
      BY DEF SoundPool, AllQueues
    <3>2. NoneIn(st.box[r], "StopSimulation")
      BY <3>1, IdleHasNoStop DEF IdleLeader
    <3>3. CASE r = pick
      <4>1. regionStarted[r]
        BY <1>2, <3>1, <3>3 DEF Owns, IdleLeader
      <4> QED  BY <2>2, <2>4, <3>1, <3>2, <3>3, <4>1, OwnsAfterSend
    <3>4. CASE r # pick
      BY <2>4, <3>1, <3>4
    <3> QED  BY <3>3, <3>4
  <2> HIDE DEF box
  <2> QED  BY <2>1, <2>5, <2>6 DEF SoundPool
<1> QED  BY <1>1, <1>2

LEMMA HalfKeepsPool ==
    ASSUME IdleLeader, NEW st, SoundPool(st), NEW list, NEW fallback,
           NEW next \in PlaceHalf(st, list, fallback)
    PROVE  SoundPool(next)
BY CreateKeepsPool, SendKeepsPool DEF PlaceHalf, RouletteIn

LEMMA SplitKeepsPool ==
    ASSUME IdleLeader, NEW st, SoundPool(st), NEW lower, NEW higher,
           NEW next \in PlaceSplit(st, lower, higher)
    PROVE  SoundPool(next)
<1>1. PICK half \in PlaceHalf(st, lower, higher) : next \in PlaceHalf(half, higher, higher)
  BY DEF PlaceSplit
<1> QED  BY <1>1, HalfKeepsPool

LEMMA ResultKeepsPool ==
    ASSUME IdleLeader, NEW st, SoundPool(st), NEW list, NEW next \in PlaceResult(st, list)
    PROVE  SoundPool(next)
BY CreateKeepsPool, SendKeepsPool DEF PlaceResult, RouletteIn

-----------------------------------------------------------------------------
(* The inductive invariant *)

Shape ==
    /\ regionsIds \in Seq(RegionIds)
    /\ regionUsedIds \in Seq(RegionIds)
    /\ registered \subseteq RegionIds
    /\ frames \in Seq(Frames)
    /\ replied \in BOOLEAN
    /\ AllQueues(regionBox)
    /\ AllQueues(regionMail)
    /\ IsMap(solutionList)
    /\ regionStarted \in [RegionIds -> BOOLEAN]

PoolInv == Shape /\ IdPartition /\ IdsOwned

LEMMA EmptyQueue == IsQueue(<<>>) /\ \A type : NoneIn(<<>>, type) /\ AtMostOneIn(<<>>, type)
<1>1. <<>> \in Seq({})
  OBVIOUS
<1> QED  BY <1>1 DEF IsQueue, NoneIn, AtMostOneIn

LEMMA InitPool == Init => PoolInv
<1> SUFFICES ASSUME Init PROVE PoolInv
  OBVIOUS
<1>1. Shape
  <2>1. regionsIds \in Seq(RegionIds)
    <3>1. \A i \in 1 .. MaxRegions : i - 1 \in RegionIds
      BY MaxRegionsAssumption DEF RegionIds
    <3>2. regionsIds \in [1 .. MaxRegions -> RegionIds]
      BY <3>1 DEF Init, InitialIds
    <3> QED  BY <3>2, MaxRegionsAssumption, SeqDef
  <2>2. AllQueues(regionBox) /\ AllQueues(regionMail)
    BY EmptyQueue DEF Init, AllQueues, IsMap
  <2>3. regionUsedIds \in Seq(RegionIds) /\ frames \in Seq(Frames) /\ registered \subseteq RegionIds
    BY DEF Init
  <2>4. IsMap(solutionList) /\ regionStarted \in [RegionIds -> BOOLEAN] /\ replied \in BOOLEAN
    BY DEF Init, IsMap
  <2> QED  BY <2>1, <2>2, <2>3, <2>4 DEF Shape
<1>2. IdPartition
  <2>1. /\ DOMAIN regionsIds = 1 .. MaxRegions
        /\ \A i \in 1 .. MaxRegions : regionsIds[i] = i - 1
    BY DEF Init, InitialIds
  <2>2. IsInjective(regionsIds)
    BY <2>1, MaxRegionsAssumption DEF IsInjective
  <2>3. ASSUME NEW r \in RegionIds PROVE r \in ToSet(regionsIds)
    <3>1. r + 1 \in 1 .. MaxRegions /\ (r + 1) - 1 = r
      BY MaxRegionsAssumption DEF RegionIds
    <3> QED  BY <2>1, <3>1 DEF ToSet
  <2>4. ToSet(regionsIds) \subseteq RegionIds
    BY <2>1, MaxRegionsAssumption DEF ToSet, RegionIds
  <2>5. IsInjective(regionUsedIds) /\ ToSet(regionUsedIds) = {}
    BY DEF Init, IsInjective, ToSet
  <2> QED  BY <2>2, <2>3, <2>4, <2>5 DEF IdPartition, Partition
<1>3. IdsOwned
  <2>1. Waiting
    BY DEF Init, Waiting
  <2>2. ASSUME NEW r \in RegionIds
        PROVE  Owns(r, regionUsedIds, regionBox[r], regionMail[r])
    BY EmptyQueue DEF Init, Owns
  <2> QED  BY <2>1, <2>2 DEF IdsOwned
<1> QED  BY <1>1, <1>2, <1>3 DEF PoolInv

LEMMA IdleMeansIdle ==
    ASSUME PoolInv, LeaderIdle
    PROVE  /\ IdleLeader
           /\ \A r \in RegionIds : NoneIn(regionBox[r], "StopSimulation")
<1>1. IdleLeader
  BY DEF PoolInv, Shape, IdsOwned, Waiting, LeaderIdle, IdleLeader
<1> QED  BY <1>1, IdleHasNoStop DEF IdleLeader, PoolInv, IdsOwned

-----------------------------------------------------------------------------
(* The leader places solutions *)

LEMMA PlacingKeepsPool ==
    ASSUME PoolInv, LeaderIdle, NEW st, SoundPool(st), Becomes(st),
           UNCHANGED <<registered, frames, asked, replied, solutionList, regionStarted>>,
           regionMail' = regionMail
               \/ \E r \in RegionIds :
                    regionMail[r] # <<>> /\ regionMail' = [regionMail EXCEPT ![r] = Tail(@)]
    PROVE  PoolInv'
<1>1. AllQueues(regionMail) /\ DOMAIN regionMail = RegionIds
  BY DEF PoolInv, Shape, AllQueues, IsMap
<1>2. AllQueues(regionMail')
  BY <1>1, TakeFromOne
<1>3. Shape'
  BY <1>2 DEF PoolInv, Shape, Becomes, SoundPool
<1>4. IdPartition'
  BY DEF Becomes, SoundPool, IdPartition
<1>5. ASSUME NEW r \in RegionIds
      PROVE  Owns(r, regionUsedIds, regionBox[r], regionMail[r])'
  <2>1. Owns(r, st.used, st.box[r], regionMail[r]) /\ IsQueue(regionMail[r])
    BY <1>1 DEF SoundPool, AllQueues
  <2>2. Owns(r, st.used, st.box[r], regionMail'[r])
    <3>1. CASE regionMail'[r] = regionMail[r]
      BY <2>1, <3>1
    <3>2. CASE regionMail[r] # <<>> /\ regionMail'[r] = Tail(regionMail[r])
      BY <2>1, <3>2, OwnsAfterTake
    <3> QED  BY <1>1, <3>1, <3>2
  <2> QED  BY <2>2 DEF Owns, Becomes
<1>6. Waiting'
  BY DEF PoolInv, IdsOwned, Waiting
<1> QED  BY <1>3, <1>4, <1>5, <1>6 DEF PoolInv, IdsOwned

LEMMA LeaderStateIsSound ==
    ASSUME PoolInv
    PROVE  SoundPool(LeaderState)
BY DEF PoolInv, Shape, IdPartition, IdsOwned, SoundPool, LeaderState

LEMMA OnSolutionResultKeepsPool ==
    ASSUME PoolInv, NEW a \in Agents, OnSolutionResult(a)
    PROVE  PoolInv'
<1>1. LeaderIdle /\ IdleLeader
  BY IdleMeansIdle DEF OnSolutionResult
<1>2. PICK st \in PlaceResult(LeaderState, Head(agentMail[a])) : Becomes(st)
  BY DEF OnSolutionResult
<1>3. SoundPool(st)
  BY <1>1, <1>2, LeaderStateIsSound, ResultKeepsPool
<1>4. UNCHANGED <<registered, frames, asked, replied, solutionList, regionStarted,
                  regionMail>>
  BY DEF OnSolutionResult, tableVars, stopVars, regionVars
<1> QED  BY <1>1, <1>2, <1>3, <1>4, PlacingKeepsPool

LEMMA OnRegionSplitKeepsPool ==
    ASSUME PoolInv, NEW r \in RegionIds, OnRegionSplit(r)
    PROVE  PoolInv'
<1>1. LeaderIdle /\ IdleLeader
  BY IdleMeansIdle DEF OnRegionSplit, Takes
<1>2. PICK st \in PlaceSplit(LeaderState, Head(regionMail[r]).lower,
                                          Head(regionMail[r]).higher) : Becomes(st)
  BY DEF OnRegionSplit
<1>3. SoundPool(st)
  BY <1>1, <1>2, LeaderStateIsSound, SplitKeepsPool
<1>4. /\ regionMail[r] # <<>>
      /\ regionMail' = [regionMail EXCEPT ![r] = Tail(@)]
      /\ UNCHANGED <<registered, frames, asked, replied, solutionList, regionStarted>>
  BY DEF OnRegionSplit, Takes, tableVars, stopVars, regionVars
<1> QED  BY <1>1, <1>2, <1>3, <1>4, PlacingKeepsPool

-----------------------------------------------------------------------------
(* The leader recalculates the global parameters *)

LEMMA CalculatingBroadcasts ==
    ASSUME PoolInv, \A r \in RegionIds : NoneIn(regionBox[r], "StopSimulation"),
           NEW regions, NEW summaries, NEW copies \in Nat,
           CalculateGlobalParameters(regions, summaries, frames, copies)
    PROVE  /\ registered' = regions
           /\ frames' \in Seq(Frames)
           /\ AllQueues(regionBox')
           /\ \A r \in RegionIds : NoMoreThan(regionBox'[r], regionBox[r])
<1>1. registered' = regions
  BY DEF CalculateGlobalParameters
<1>2. [kind |-> "finish", agent |-> 0] \in Frames
  BY DEF Frames
<1>3. frames \in Seq(Frames) /\ AllQueues(regionBox)
  BY DEF PoolInv, Shape
<1>4. CASE TimeRunsOut
  <2>1. frames' = Append(frames, [kind |-> "finish", agent |-> 0]) /\ regionBox' = regionBox
    BY <1>4 DEF CalculateGlobalParameters
  <2>2. frames' \in Seq(Frames)
    BY <1>2, <1>3, <2>1, AppendProperties
  <2> QED  BY <1>1, <1>3, <2>1, <2>2 DEF NoMoreThan
<1>5. CASE ~TimeRunsOut
  <2> DEFINE m == UpdateGlobalSummary(globalStatistics')
             ids == regions \cap UsedIds(regionUsedIds')
  <2>1. frames' = frames /\ regionBox' = Broadcast(regionBox, ids, m, copies)
    BY <1>5 DEF CalculateGlobalParameters
  <2>2. m.type = "UpdateGlobalSummary"
    BY DEF UpdateGlobalSummary
  <2> HIDE DEF m, ids
  <2> QED  BY <1>1, <1>3, <2>1, <2>2, BroadcastAddsNothing
<1> QED  BY <1>4, <1>5

LEMMA OnUpdateRegionSummaryKeepsPool ==
    ASSUME PoolInv, NEW r \in RegionIds, OnUpdateRegionSummary(r)
    PROVE  PoolInv'
<1> DEFINE summaries == [regionsSummary EXCEPT ![r] = Head(regionMail[r]).summary]
<1>1. IdleLeader /\ \A q \in RegionIds : NoneIn(regionBox[q], "StopSimulation")
  BY IdleMeansIdle DEF OnUpdateRegionSummary, Takes
<1>2. /\ CalculateGlobalParameters(registered, summaries, frames, 1)
      /\ regionMail[r] # <<>> /\ regionMail' = [regionMail EXCEPT ![r] = Tail(@)]
      /\ UNCHANGED <<regionsIds, regionUsedIds, asked, replied, solutionList, regionStarted>>
  BY DEF OnUpdateRegionSummary, Takes, regionVars
<1> HIDE DEF summaries
<1>3. /\ registered' = registered
      /\ frames' \in Seq(Frames)
      /\ AllQueues(regionBox')
      /\ \A q \in RegionIds : NoMoreThan(regionBox'[q], regionBox[q])
  BY <1>1, <1>2, CalculatingBroadcasts
<1>4. AllQueues(regionMail) /\ DOMAIN regionMail = RegionIds
  BY DEF PoolInv, Shape, AllQueues, IsMap
<1>5. AllQueues(regionMail')
  BY <1>2, <1>4, TakeFromOne
<1>6. Shape' /\ IdPartition'
  BY <1>2, <1>3, <1>5 DEF PoolInv, Shape, IdPartition
<1>7. ASSUME NEW q \in RegionIds
      PROVE  Owns(q, regionUsedIds, regionBox[q], regionMail[q])'
  <2>1. Owns(q, regionUsedIds, regionBox[q], regionMail[q]) /\ IsQueue(regionMail[q])
    BY <1>4 DEF PoolInv, IdsOwned, AllQueues
  <2>2. Owns(q, regionUsedIds, regionBox[q], regionMail'[q])
    <3>1. CASE q = r
      BY <1>2, <1>4, <2>1, <3>1, OwnsAfterTake
    <3>2. CASE q # r
      BY <1>2, <1>4, <2>1, <3>2
    <3> QED  BY <3>1, <3>2
  <2>3. NoMoreThan(regionBox'[q], regionBox[q])
    BY <1>3
  <2>4. \A i \in DOMAIN regionBox'[q] : regionBox'[q][i].type # "StopSimulation"
    BY <2>3 DEF NoMoreThan, NoneIn
  <2> QED  BY <1>2, <1>3, <2>2, <2>3, <2>4, Zenon DEF Owns, NoMoreThan
<1>8. Waiting'
  BY <1>1, <1>2 DEF Waiting, IdleLeader
<1> QED  BY <1>6, <1>7, <1>8 DEF PoolInv, IdsOwned

LEMMA OnRegionRegisterKeepsPool ==
    ASSUME PoolInv, NEW r \in RegionIds, OnRegionRegister(r)
    PROVE  PoolInv'
<1> DEFINE summaries == [regionsSummary EXCEPT ![r] = Head(regionMail[r]).summary]
<1>1. IdleLeader /\ \A q \in RegionIds : NoneIn(regionBox[q], "StopSimulation")
  BY IdleMeansIdle DEF OnRegionRegister, Takes
<1>2. /\ CalculateGlobalParameters(registered \cup {r}, summaries, frames, 2)
      /\ regionMail[r] # <<>> /\ regionMail' = [regionMail EXCEPT ![r] = Tail(@)]
      /\ Head(regionMail[r]).type = "RegionRegister"
      /\ UNCHANGED <<regionsIds, regionUsedIds, asked, replied, solutionList, regionStarted>>
  BY DEF OnRegionRegister, Takes, regionVars
<1> HIDE DEF summaries
<1>3. /\ registered' = registered \cup {r}
      /\ frames' \in Seq(Frames)
      /\ AllQueues(regionBox')
      /\ \A q \in RegionIds : NoMoreThan(regionBox'[q], regionBox[q])
  BY <1>1, <1>2, CalculatingBroadcasts
<1>4. AllQueues(regionMail) /\ DOMAIN regionMail = RegionIds
  BY DEF PoolInv, Shape, AllQueues, IsMap
<1>5. AllQueues(regionMail')
  BY <1>2, <1>4, TakeFromOne
<1>6. Shape' /\ IdPartition'
  BY <1>2, <1>3, <1>5 DEF PoolInv, Shape, IdPartition
<1>7. ASSUME NEW q \in RegionIds
      PROVE  Owns(q, regionUsedIds, regionBox[q], regionMail[q])'
  <2>1. Owns(q, regionUsedIds, regionBox[q], regionMail[q]) /\ IsQueue(regionMail[q])
    BY <1>4 DEF PoolInv, IdsOwned, AllQueues
  <2>2. NoMoreThan(regionBox'[q], regionBox[q])
    BY <1>3
  <2>3. \A i \in DOMAIN regionBox'[q] : regionBox'[q][i].type # "StopSimulation"
    BY <2>2 DEF NoMoreThan, NoneIn
  <2>4. CASE q = r
    <3>1. ~NoneIn(regionMail[r], "RegionRegister") /\ NoneIn(regionMail'[r], "RegionRegister")
      BY <1>2, <1>4, <2>1, <2>4, TakeMessage DEF Owns
    <3>2. AtMostOneIn(regionMail'[r], "RegionRegister")
      BY <3>1 DEF NoneIn, AtMostOneIn
    <3>3. r \in ToSet(regionUsedIds) /\ regionStarted[r] /\ NoneIn(regionBox[r], "CreateRegion")
      BY <2>1, <2>4, <3>1 DEF Owns
    <3>4. NoneIn(regionBox'[r], "CreateRegion") /\ AtMostOneIn(regionBox'[r], "CreateRegion")
      BY <2>1, <2>2, <2>4, <3>3 DEF NoMoreThan, Owns
    <3> QED  BY <1>2, <2>3, <2>4, <3>1, <3>2, <3>3, <3>4, Zenon DEF Owns
  <2>5. CASE q # r
    <3>1. regionMail'[q] = regionMail[q]
      BY <1>2, <1>4, <2>5
    <3>2. q \in registered' <=> q \in registered
      BY <1>3, <2>5
    <3> QED  BY <1>2, <2>1, <2>2, <2>3, <3>1, <3>2, Zenon DEF Owns, NoMoreThan
  <2> QED  BY <2>4, <2>5
<1>8. Waiting'
  BY <1>1, <1>2 DEF Waiting, IdleLeader
<1> QED  BY <1>6, <1>7, <1>8 DEF PoolInv, IdsOwned

LEMMA OnRegionReleaseKeepsPool ==
    ASSUME PoolInv, OnRegionRelease
    PROVE  PoolInv'
<1> DEFINE summaries == [regionsSummary EXCEPT ![asked] = NoSummary]
<1>1. /\ CalculateGlobalParameters(registered \ {asked}, summaries, frames, 1)
      /\ regionsIds' = Append(regionsIds, asked)
      /\ regionUsedIds' = RemoveFirst(regionUsedIds, asked)
      /\ asked' = Nobody /\ replied' = FALSE /\ replied
      /\ UNCHANGED <<regionMail, solutionList, regionStarted>>
  BY DEF OnRegionRelease, WithoutId, WithoutRegion, regionVars
<1> HIDE DEF summaries
<1>2. asked \in registered /\ asked \in RegionIds /\ ~regionStarted[asked]
  BY <1>1 DEF PoolInv, Shape, IdsOwned, Waiting
<1>3. \A q \in RegionIds : NoneIn(regionBox[q], "StopSimulation")
  BY <1>1 DEF PoolInv, IdsOwned, Owns, NoneIn
<1>4. /\ registered' = registered \ {asked}
      /\ frames' \in Seq(Frames)
      /\ AllQueues(regionBox')
      /\ \A q \in RegionIds : NoMoreThan(regionBox'[q], regionBox[q])
  BY <1>1, <1>3, CalculatingBroadcasts
<1>5. asked \in ToSet(regionUsedIds) /\ NoneIn(regionBox[asked], "CreateRegion")
      /\ NoneIn(regionMail[asked], "RegionRegister")
  BY <1>2, Zenon DEF PoolInv, IdsOwned, Owns
<1>6. /\ regionsIds' \in Seq(RegionIds)
      /\ regionUsedIds' \in Seq(RegionIds)
      /\ ToSet(regionUsedIds') = ToSet(regionUsedIds) \ {asked}
      /\ Partition(regionsIds', regionUsedIds')
  BY <1>1, <1>5, ReleaseId DEF PoolInv, Shape, IdPartition
<1>7. Shape'
  BY <1>1, <1>4, <1>6 DEF PoolInv, Shape
<1>8. ASSUME NEW q \in RegionIds
      PROVE  Owns(q, regionUsedIds, regionBox[q], regionMail[q])'
  <2>1. Owns(q, regionUsedIds, regionBox[q], regionMail[q])
    BY DEF PoolInv, IdsOwned
  <2>2. NoMoreThan(regionBox'[q], regionBox[q])
    BY <1>4
  <2>3. \A i \in DOMAIN regionBox'[q] : regionBox'[q][i].type # "StopSimulation"
    BY <2>2 DEF NoMoreThan, NoneIn
  <2>4. CASE q = asked
    <3>1. q \notin registered'
      BY <1>4, <2>4
    <3>2. NoneIn(regionBox'[q], "CreateRegion") /\ NoneIn(regionMail'[q], "RegionRegister")
          /\ ~regionStarted'[q]
      BY <1>1, <1>2, <1>5, <2>2, <2>4 DEF NoMoreThan
    <3> QED  BY <1>1, <2>1, <2>2, <2>3, <3>1, <3>2, Zenon DEF Owns, NoMoreThan
  <2>5. CASE q # asked
    <3>1. /\ q \in registered' <=> q \in registered
          /\ q \in ToSet(regionUsedIds') <=> q \in ToSet(regionUsedIds)
      BY <1>4, <1>6, <2>5
    <3> QED  BY <1>1, <2>1, <2>2, <2>3, <2>5, <3>1, Zenon DEF Owns, NoMoreThan
  <2> QED  BY <2>4, <2>5
<1>9. Waiting'
  BY <1>1 DEF Waiting
<1> QED  BY <1>6, <1>7, <1>8, <1>9 DEF PoolInv, IdsOwned, IdPartition

-----------------------------------------------------------------------------
(* The leader stops agents and regions *)

LEMMA AskRegionKeepsPool ==
    ASSUME PoolInv, AskRegion
    PROVE  PoolInv'
<1>1. PICK r \in registered :
        /\ asked' = r
        /\ regionBox' = [regionBox EXCEPT ![r] = Append(@, StopSimulation)]
  BY DEF AskRegion
<1>2. /\ asked = Nobody /\ frames # <<>>
      /\ UNCHANGED <<regionsIds, regionUsedIds, registered, frames, replied, regionMail,
                     solutionList, regionStarted>>
  BY DEF AskRegion, Stopping, idVars, tableVars, regionVars
<1>3. r \in RegionIds /\ r # Nobody
  BY IdsAreSomebody DEF PoolInv, Shape
<1>4. AllQueues(regionBox) /\ DOMAIN regionBox = RegionIds
  BY DEF PoolInv, Shape, AllQueues, IsMap
<1>5. Shape' /\ IdPartition'
  BY <1>1, <1>2, <1>3, <1>4, SendToOne DEF PoolInv, Shape, IdPartition
<1>6. ~replied
  BY <1>2 DEF PoolInv, IdsOwned, Waiting
<1>7. ASSUME NEW q \in RegionIds
      PROVE  Owns(q, regionUsedIds, regionBox[q], regionMail[q])'
  <2>1. Owns(q, regionUsedIds, regionBox[q], regionMail[q]) /\ IsQueue(regionBox[q])
    BY <1>4 DEF PoolInv, IdsOwned, AllQueues
  <2>2. NoneIn(regionBox[q], "StopSimulation")
    BY <1>2, <2>1, IdleHasNoStop
  <2>3. CASE q = r
    <3> DEFINE sent == Append(regionBox[r], StopSimulation)
    <3>1. /\ NoneIn(sent, "CreateRegion") <=> NoneIn(regionBox[r], "CreateRegion")
          /\ AtMostOneIn(regionBox[r], "CreateRegion") => AtMostOneIn(sent, "CreateRegion")
      BY <2>1, <2>3, SendMessage DEF StopSimulation
    <3>2. NoneIn(sent, "SolutionResponse") <=> NoneIn(regionBox[r], "SolutionResponse")
      BY <2>1, <2>3, SendMessage DEF StopSimulation
    <3>3. \A i \in DOMAIN sent : sent[i].type = "StopSimulation" => i = Len(sent)
      BY <2>1, <2>2, <2>3, AppendQueue DEF NoneIn
    <3>4. regionBox'[q] = sent
      BY <1>1, <1>3, <1>4, <2>3
    <3> HIDE DEF sent
    <3> QED  BY <1>1, <1>2, <1>6, <2>1, <2>3, <3>1, <3>2, <3>3, <3>4, Zenon DEF Owns
  <2>4. CASE q # r
    <3>1. regionBox'[q] = regionBox[q]
      BY <1>1, <1>4, <2>4
    <3>2. \A i \in DOMAIN regionBox[q] : regionBox[q][i].type # "StopSimulation"
      BY <2>2 DEF NoneIn
    <3> QED  BY <1>2, <1>6, <2>1, <3>1, <3>2, Zenon DEF Owns
  <2> QED  BY <2>3, <2>4
<1>8. Waiting'
  BY <1>1, <1>2, <1>6 DEF Waiting
<1> QED  BY <1>5, <1>7, <1>8 DEF PoolInv, IdsOwned

\* Whatever leaves these variables alone leaves the pool sound.
poolVars == <<regionsIds, regionUsedIds, registered, asked, replied, regionBox,
              regionMail, solutionList, regionStarted>>

LEMMA PoolVarsKeepPool ==
    ASSUME PoolInv, UNCHANGED poolVars, frames' \in Seq(Frames),
           asked # Nobody => frames' # <<>>
    PROVE  PoolInv'
<1>1. Shape' /\ IdPartition'
  BY DEF PoolInv, Shape, IdPartition, poolVars
<1>2. Waiting'
  BY DEF PoolInv, IdsOwned, Waiting, poolVars
<1>3. ASSUME NEW q \in RegionIds
      PROVE  Owns(q, regionUsedIds, regionBox[q], regionMail[q])'
  <2>1. Owns(q, regionUsedIds, regionBox[q], regionMail[q])
    BY DEF PoolInv, IdsOwned
  <2> QED  BY <2>1 DEF Owns, poolVars
<1> QED  BY <1>1, <1>2, <1>3 DEF PoolInv, IdsOwned

LEMMA StopAgentKeepsPool ==
    ASSUME PoolInv, StopAgent
    PROVE  PoolInv'
<1>1. frames \in Seq(Frames) /\ frames # <<>>
  BY DEF PoolInv, Shape, StopAgent, Stopping
<1>2. Len(frames) \in 1 .. Len(frames)
  BY <1>1, EmptySeq
<1>3. frames[Len(frames)] \in Frames
  BY <1>1, <1>2, ElementOfSeq
<1>4. frames' \in Seq(Frames) /\ frames' # <<>>
  <2>1. CASE frames' = frames
    BY <1>1, <2>1
  <2>2. CASE frames' = [frames EXCEPT ![Len(frames)].agent = @ + 1]
    <3> DEFINE next == [frames[Len(frames)] EXCEPT !.agent = @ + 1]
    <3>1. next \in Frames
      BY <1>3 DEF Frames
    <3>2. frames' = [frames EXCEPT ![Len(frames)] = next]
      BY <2>2
    <3> HIDE DEF next
    <3>3. frames' \in Seq(Frames) /\ Len(frames') = Len(frames)
      BY <1>1, <1>2, <3>1, <3>2, ExceptSeq
    <3> QED  BY <1>2, <3>3, EmptySeq
  <2> QED  BY <2>1, <2>2 DEF StopAgent
<1>5. UNCHANGED poolVars
  BY DEF StopAgent, poolVars, idVars, tableVars, mailVars, regionVars
<1> QED  BY <1>4, <1>5, PoolVarsKeepPool

LEMMA StopCompletesKeepsPool ==
    ASSUME PoolInv, StopCompletes
    PROVE  PoolInv'
<1>1. frames \in Seq(Frames) /\ frames # <<>> /\ asked = Nobody
  BY DEF PoolInv, Shape, StopCompletes, Stopping, AllReleased
<1>2. frames' \in Seq(Frames)
  <2>1. \A i \in 1 .. Len(frames) - 1 : frames[i] \in Frames
    BY <1>1, LenProperties, ElementOfSeq
  <2>2. Len(frames) - 1 \in Int
    BY <1>1, LenProperties
  <2>3. SubSeq(frames, 1, Len(frames) - 1) \in Seq(Frames)
    BY <2>1, <2>2, SubSeqProperties
  <2> QED  BY <2>3 DEF StopCompletes
<1>3. UNCHANGED poolVars
  BY DEF StopCompletes, poolVars, idVars, mailVars, regionVars
<1> QED  BY <1>1, <1>2, <1>3, PoolVarsKeepPool

LEMMA OtherStepsKeepPool ==
    ASSUME PoolInv,
           \/ OnStartSimulation \/ OnStopSimulation \/ AskTimesOut \/ Terminate
           \/ \E a \in Agents : AgentActs(a)
           \/ UNCHANGED vars
    PROVE  PoolInv'
<1>1. frames \in Seq(Frames) /\ (asked # Nobody => frames # <<>>)
  BY DEF PoolInv, Shape, IdsOwned, Waiting
<1>2. CASE OnStartSimulation
  BY <1>1, <1>2, PoolVarsKeepPool
     DEF OnStartSimulation, poolVars, idVars, tableVars, stopVars, regionVars
<1>3. CASE OnStopSimulation
  <2>1. frames' \in Seq(Frames) /\ frames' # <<>>
    <3>1. [kind |-> "stop", agent |-> 0] \in Frames
      BY DEF Frames
    <3> QED  BY <1>3, <3>1 DEF OnStopSimulation
  <2>2. UNCHANGED poolVars
    BY <1>3 DEF OnStopSimulation, poolVars, idVars, tableVars, mailVars, regionVars
  <2> QED  BY <2>1, <2>2, PoolVarsKeepPool
<1>4. CASE AskTimesOut
  BY <1>1, <1>4, PoolVarsKeepPool
     DEF AskTimesOut, poolVars, idVars, tableVars, stopVars, mailVars, regionVars
<1>5. CASE Terminate
  BY <1>1, <1>5, PoolVarsKeepPool
     DEF Terminate, poolVars, idVars, tableVars, stopVars, mailVars, regionVars
<1>6. CASE \E a \in Agents : AgentActs(a)
  BY <1>1, <1>6, PoolVarsKeepPool
     DEF AgentActs, OnAgentStart, ProcessSolutionList, poolVars, leaderVars, idVars,
         tableVars, stopVars, regionVars
<1>7. CASE UNCHANGED vars
  BY <1>1, <1>7, PoolVarsKeepPool
     DEF vars, poolVars, leaderVars, idVars, tableVars, stopVars, mailVars, regionVars
<1> QED  BY <1>2, <1>3, <1>4, <1>5, <1>6, <1>7

-----------------------------------------------------------------------------
(* The regions handle a message *)

LEMMA OwnsAfterGet ==
    ASSUME NEW r \in RegionIds, NEW used, NEW box, NEW mail, IsQueue(box), box # <<>>,
           Owns(r, used, box, mail)
    PROVE  Owns(r, used, Tail(box), mail)
<1> DEFINE rest == Tail(box)
<1>1. /\ NoneIn(box, "CreateRegion") => NoneIn(rest, "CreateRegion")
      /\ AtMostOneIn(box, "CreateRegion") => AtMostOneIn(rest, "CreateRegion")
      /\ NoneIn(box, "SolutionResponse") => NoneIn(rest, "SolutionResponse")
  BY TakeMessage
<1>2. ASSUME NEW i \in DOMAIN rest, rest[i].type = "StopSimulation"
      PROVE  i = Len(rest) /\ asked = r /\ ~replied
  <2>1. /\ Len(box) \in Nat /\ Len(rest) = Len(box) - 1 /\ DOMAIN rest = 1 .. Len(box) - 1
        /\ i + 1 \in DOMAIN box /\ box[i + 1].type = "StopSimulation"
    BY <1>2, TailQueue
  <2>2. i + 1 = Len(box) /\ asked = r /\ ~replied
    BY <2>1 DEF Owns
  <2> QED  BY <2>1, <2>2
<1> HIDE DEF rest
<1>3. Owns(r, used, rest, mail)
  BY <1>1, <1>2, Zenon DEF Owns
<1> QED  BY <1>3 DEF rest

\* A region that acts for itself: what the invariant then asks for.
LEMMA RegionKeepsPool ==
    ASSUME PoolInv, NEW r \in RegionIds,
           UNCHANGED <<regionsIds, regionUsedIds, registered, frames, asked, replied>>,
           AllQueues(regionBox'), AllQueues(regionMail'), IsMap(solutionList'),
           regionStarted' \in [RegionIds -> BOOLEAN],
           \A q \in RegionIds \ {r} :
              /\ regionBox'[q] = regionBox[q] /\ regionMail'[q] = regionMail[q]
              /\ solutionList'[q] = solutionList[q] /\ regionStarted'[q] = regionStarted[q],
           regionStarted'[r] => regionStarted[r] \/ r \notin registered,
           Owns(r, regionUsedIds, regionBox[r], regionMail[r])'
    PROVE  PoolInv'
<1>1. Shape' /\ IdPartition'
  BY DEF PoolInv, Shape, IdPartition
<1>2. ASSUME NEW q \in RegionIds
      PROVE  Owns(q, regionUsedIds, regionBox[q], regionMail[q])'
  <2>1. Owns(q, regionUsedIds, regionBox[q], regionMail[q])
    BY DEF PoolInv, IdsOwned
  <2>2. CASE q # r
    BY <2>1, <2>2 DEF Owns
  <2> QED  BY <2>2
<1>3. asked # Nobody => asked \in registered /\ asked \in RegionIds /\ frames # <<>>
  BY DEF PoolInv, Shape, IdsOwned, Waiting
<1>4. ASSUME replied PROVE asked # Nobody /\ ~regionStarted'[asked]
  <2>1. asked # Nobody /\ ~regionStarted[asked]
    BY <1>4 DEF PoolInv, IdsOwned, Waiting
  <2>2. CASE asked = r
    BY <1>3, <2>1, <2>2
  <2>3. CASE asked # r
    BY <1>3, <2>1, <2>3
  <2> QED  BY <2>2, <2>3
<1>5. Waiting'
  BY <1>3, <1>4 DEF Waiting
<1> QED  BY <1>1, <1>2, <1>5 DEF PoolInv, IdsOwned

\* Gets(r, type), and what the region's box was and is.
LEMMA GetsMessage ==
    ASSUME PoolInv, NEW r \in RegionIds, NEW type, Gets(r, type)
    PROVE  /\ AllQueues(regionBox')
           /\ regionBox'[r] = Tail(regionBox[r])
           /\ \A q \in RegionIds \ {r} : regionBox'[q] = regionBox[q]
           /\ Owns(r, regionUsedIds, regionBox[r], regionMail[r])
           /\ Owns(r, regionUsedIds, regionBox'[r], regionMail[r])
           /\ ~NoneIn(regionBox[r], type)
           /\ AtMostOneIn(regionBox[r], type) => NoneIn(regionBox'[r], type)
<1>1. /\ AllQueues(regionBox) /\ DOMAIN regionBox = RegionIds /\ IsQueue(regionBox[r])
      /\ Owns(r, regionUsedIds, regionBox[r], regionMail[r])
  BY DEF PoolInv, Shape, IdsOwned, AllQueues, IsMap
<1>2. /\ regionBox[r] # <<>> /\ Head(regionBox[r]).type = type
      /\ regionBox' = [regionBox EXCEPT ![r] = Tail(@)]
  BY DEF Gets
<1>3. AllQueues(regionBox')
  BY <1>1, <1>2, TakeFromOne
<1>4. /\ regionBox'[r] = Tail(regionBox[r])
      /\ \A q \in RegionIds \ {r} : regionBox'[q] = regionBox[q]
  BY <1>1, <1>2
<1>5. Owns(r, regionUsedIds, Tail(regionBox[r]), regionMail[r])
  BY <1>1, <1>2, OwnsAfterGet
<1>6. ~NoneIn(regionBox[r], type)
      /\ (AtMostOneIn(regionBox[r], type) => NoneIn(Tail(regionBox[r]), type))
  BY <1>1, <1>2, TakeMessage
<1> QED  BY <1>1, <1>3, <1>4, <1>5, <1>6

LEMMA OnCreateKeepsPool ==
    ASSUME PoolInv, NEW r \in RegionIds, OnCreate(r)
    PROVE  PoolInv'
<1> DEFINE list == Head(regionBox[r]).solutions
           m    == UpdateRegionSummary(SummaryOf(list))
           n    == RegionRegister(SummaryOf(list))
           told == Append(regionMail[r], m)
           sent == Append(told, n)
<1>1. /\ Gets(r, "CreateRegion")
      /\ solutionList' = [solutionList EXCEPT ![r] = list]
      /\ regionMail' = [regionMail EXCEPT ![r] = sent]
      /\ regionStarted' = [regionStarted EXCEPT ![r] = TRUE]
      /\ UNCHANGED <<regionsIds, regionUsedIds, registered, frames, asked, replied>>
  BY DEF OnCreate, leaderVars, idVars, tableVars, stopVars
<1>2. m.type = "UpdateRegionSummary" /\ n.type = "RegionRegister"
  BY DEF UpdateRegionSummary, RegionRegister
<1>3. /\ AllQueues(regionMail) /\ DOMAIN regionMail = RegionIds /\ IsQueue(regionMail[r])
      /\ IsMap(solutionList) /\ regionStarted \in [RegionIds -> BOOLEAN]
  BY DEF PoolInv, Shape, AllQueues, IsMap
<1> HIDE DEF list, m, n
<1>4. IsQueue(told)
  BY <1>3, AppendQueue
<1>5. IsQueue(sent)
  BY <1>4, AppendQueue
<1>6. /\ AllQueues(regionBox')
      /\ \A q \in RegionIds \ {r} : regionBox'[q] = regionBox[q]
      /\ Owns(r, regionUsedIds, regionBox[r], regionMail[r])
      /\ Owns(r, regionUsedIds, regionBox'[r], regionMail[r])
      /\ ~NoneIn(regionBox[r], "CreateRegion")
      /\ AtMostOneIn(regionBox[r], "CreateRegion") => NoneIn(regionBox'[r], "CreateRegion")
  BY <1>1, GetsMessage
<1>7. /\ NoneIn(regionBox'[r], "CreateRegion") /\ NoneIn(regionMail[r], "RegionRegister")
      /\ r \in ToSet(regionUsedIds) /\ r \notin registered
  BY <1>6, Zenon DEF Owns
<1>8. AtMostOneIn(sent, "RegionRegister")
  <2>1. NoneIn(told, "RegionRegister")
    BY <1>2, <1>3, <1>7, SendMessage
  <2> QED  BY <1>4, <2>1, SendMessage
<1> HIDE DEF sent
<1>9. AllQueues(regionMail') /\ IsMap(solutionList') /\ regionStarted' \in [RegionIds -> BOOLEAN]
  BY <1>1, <1>3, <1>5 DEF AllQueues, IsMap
<1>10. /\ regionMail'[r] = sent /\ regionStarted'[r]
       /\ \A q \in RegionIds \ {r} :
             /\ regionMail'[q] = regionMail[q] /\ solutionList'[q] = solutionList[q]
             /\ regionStarted'[q] = regionStarted[q]
  BY <1>1, <1>3 DEF IsMap
<1>11. Owns(r, regionUsedIds, regionBox[r], regionMail[r])'
  BY <1>1, <1>6, <1>7, <1>8, <1>10, Zenon DEF Owns
<1> QED  BY <1>1, <1>6, <1>7, <1>9, <1>10, <1>11, RegionKeepsPool

LEMMA OnSolutionResponseKeepsPool ==
    ASSUME PoolInv, NEW r \in RegionIds, OnSolutionResponse(r)
    PROVE  PoolInv'
<1> DEFINE list == solutionList[r] \o Head(regionBox[r]).solutions
           m    == UpdateRegionSummary(SummaryOf(list))
           sent == Append(regionMail[r], m)
<1>1. /\ Gets(r, "SolutionResponse")
      /\ solutionList' = [solutionList EXCEPT ![r] = list]
      /\ regionMail' = [regionMail EXCEPT ![r] = sent]
      /\ UNCHANGED <<regionsIds, regionUsedIds, registered, frames, asked, replied,
                     regionStarted>>
  BY DEF OnSolutionResponse, leaderVars, idVars, tableVars, stopVars
<1>2. m.type = "UpdateRegionSummary"
  BY DEF UpdateRegionSummary
<1>3. /\ AllQueues(regionMail) /\ DOMAIN regionMail = RegionIds /\ IsQueue(regionMail[r])
      /\ IsMap(solutionList) /\ regionStarted \in [RegionIds -> BOOLEAN]
  BY DEF PoolInv, Shape, AllQueues, IsMap
<1> HIDE DEF list, m
<1>4. /\ AllQueues(regionBox')
      /\ \A q \in RegionIds \ {r} : regionBox'[q] = regionBox[q]
      /\ Owns(r, regionUsedIds, regionBox[r], regionMail[r])
      /\ Owns(r, regionUsedIds, regionBox'[r], regionMail[r])
      /\ ~NoneIn(regionBox[r], "SolutionResponse")
  BY <1>1, GetsMessage
<1>5. regionStarted[r]
  BY <1>4 DEF Owns
<1>6. /\ NoneIn(sent, "RegionRegister") <=> NoneIn(regionMail[r], "RegionRegister")
      /\ AtMostOneIn(regionMail[r], "RegionRegister") => AtMostOneIn(sent, "RegionRegister")
  BY <1>2, <1>3, SendMessage
<1>7. AllQueues(regionMail') /\ IsMap(solutionList')
  BY <1>1, <1>3, SendToOne DEF IsMap
<1> HIDE DEF sent
<1>8. /\ regionMail'[r] = sent
      /\ \A q \in RegionIds \ {r} :
            regionMail'[q] = regionMail[q] /\ solutionList'[q] = solutionList[q]
  BY <1>1, <1>3 DEF IsMap
<1>9. Owns(r, regionUsedIds, regionBox[r], regionMail[r])'
  BY <1>1, <1>4, <1>5, <1>6, <1>8, ZenonT(30) DEF Owns
<1> QED  BY <1>1, <1>3, <1>4, <1>7, <1>8, <1>9, RegionKeepsPool

LEMMA OnUpdateGlobalSummaryKeepsPool ==
    ASSUME PoolInv, NEW r \in RegionIds, OnUpdateGlobalSummary(r)
    PROVE  PoolInv'
<1>1. /\ Gets(r, "UpdateGlobalSummary")
      /\ UNCHANGED <<regionsIds, regionUsedIds, registered, frames, asked, replied,
                     regionMail, solutionList, regionStarted>>
  BY DEF OnUpdateGlobalSummary, leaderVars, idVars, tableVars, stopVars
<1>2. /\ AllQueues(regionMail) /\ IsMap(solutionList)
      /\ regionStarted \in [RegionIds -> BOOLEAN]
  BY DEF PoolInv, Shape
<1>3. /\ AllQueues(regionBox')
      /\ \A q \in RegionIds \ {r} : regionBox'[q] = regionBox[q]
      /\ Owns(r, regionUsedIds, regionBox'[r], regionMail[r])
  BY <1>1, GetsMessage
<1>4. Owns(r, regionUsedIds, regionBox[r], regionMail[r])'
  BY <1>1, <1>3 DEF Owns
<1> QED  BY <1>1, <1>2, <1>3, <1>4, RegionKeepsPool

LEMMA OnStopRegionKeepsPool ==
    ASSUME PoolInv, NEW r \in RegionIds, OnStopRegion(r)
    PROVE  PoolInv'
<1>1. /\ Gets(r, "StopSimulation")
      /\ solutionList' = [solutionList EXCEPT ![r] = <<>>]
      /\ regionStarted' = [regionStarted EXCEPT ![r] = FALSE]
      /\ replied' = TRUE
      /\ UNCHANGED <<regionsIds, regionUsedIds, registered, frames, asked, regionMail>>
  BY DEF OnStopRegion, idVars, tableVars
<1>2. /\ IsMap(solutionList) /\ regionStarted \in [RegionIds -> BOOLEAN]
      /\ IsQueue(regionBox[r])
  BY DEF PoolInv, Shape, AllQueues
<1>3. /\ AllQueues(regionBox') /\ regionBox'[r] = Tail(regionBox[r])
      /\ \A q \in RegionIds \ {r} : regionBox'[q] = regionBox[q]
      /\ Owns(r, regionUsedIds, regionBox[r], regionMail[r])
      /\ Owns(r, regionUsedIds, regionBox'[r], regionMail[r])
  BY <1>1, GetsMessage
<1>4. /\ 1 \in DOMAIN regionBox[r] /\ regionBox[r][1].type = "StopSimulation"
      /\ DOMAIN regionBox'[r] = 1 .. Len(regionBox[r]) - 1
  BY <1>1, <1>2, <1>3, TailQueue DEF Gets
<1>5. Len(regionBox[r]) = 1 /\ asked = r
  BY <1>3, <1>4 DEF Owns
<1>6. asked # Nobody
  BY <1>5, IdsAreSomebody
<1>7. r \in registered /\ frames # <<>>
  BY <1>5, <1>6 DEF PoolInv, IdsOwned, Waiting
<1>8. DOMAIN regionBox'[r] = {}
  BY <1>4, <1>5
<1>9. \A type : NoneIn(regionBox'[r], type) /\ AtMostOneIn(regionBox'[r], type)
  BY <1>8 DEF NoneIn, AtMostOneIn
<1>10. NoneIn(regionMail[r], "RegionRegister")
  BY <1>3, <1>7 DEF Owns
<1>11. Shape' /\ IdPartition'
  BY <1>1, <1>2, <1>3 DEF PoolInv, Shape, IdPartition, IsMap
<1>12. ASSUME NEW q \in RegionIds
       PROVE  Owns(q, regionUsedIds, regionBox[q], regionMail[q])'
  <2>1. Owns(q, regionUsedIds, regionBox[q], regionMail[q])
    BY DEF PoolInv, IdsOwned
  <2>2. CASE q = r
    <3>1. solutionList'[r] = <<>> /\ ~regionStarted'[r]
      BY <1>1, <1>2 DEF IsMap
    <3>2. \A i \in DOMAIN regionBox'[r] : FALSE
      BY <1>8
    <3>3. r \in ToSet(regionUsedIds) /\ AtMostOneIn(regionMail[r], "RegionRegister")
      BY <1>3, <1>7 DEF Owns
    <3> QED  BY <1>1, <1>5, <1>9, <1>10, <2>2, <3>1, <3>2, <3>3 DEF Owns
  <2>3. CASE q # r
    <3>1. /\ regionBox'[q] = regionBox[q] /\ solutionList'[q] = solutionList[q]
          /\ regionStarted'[q] = regionStarted[q]
      BY <1>1, <1>2, <1>3, <2>3 DEF IsMap
    <3>2. \A i \in DOMAIN regionBox[q] : regionBox[q][i].type # "StopSimulation"
      BY <1>5, <2>1, <2>3 DEF Owns
    <3> QED  BY <1>1, <1>5, <2>1, <2>3, <3>1, <3>2, Zenon DEF Owns
  <2> QED  BY <2>2, <2>3
<1>13. Waiting'
  BY <1>1, <1>2, <1>5, <1>6, <1>7 DEF Waiting
<1> QED  BY <1>11, <1>12, <1>13 DEF PoolInv, IdsOwned

LEMMA OnInternalStimulusKeepsPool ==
    ASSUME PoolInv, NEW r \in RegionIds, OnInternalStimulus(r)
    PROVE  PoolInv'
<1>1. PICK lower, higher, kept :
        /\ regionStarted[r]
        /\ solutionList' = [solutionList EXCEPT ![r] = kept] \/ solutionList' = solutionList
        /\ regionMail' = [regionMail EXCEPT ![r] = Append(@, RegionSplit(lower, higher))]
        /\ UNCHANGED <<regionsIds, regionUsedIds, registered, frames, asked, replied,
                       regionBox, regionStarted>>
  <2>1. UNCHANGED <<regionsIds, regionUsedIds, registered, frames, asked, replied,
                    regionBox, regionStarted>>
    BY DEF OnInternalStimulus, leaderVars, idVars, tableVars, stopVars
  <2> QED  BY <2>1 DEF OnInternalStimulus
<1> DEFINE m    == RegionSplit(lower, higher)
           sent == Append(regionMail[r], m)
<1>2. m.type = "RegionSplit"
  BY DEF RegionSplit
<1>3. /\ AllQueues(regionBox) /\ AllQueues(regionMail) /\ DOMAIN regionMail = RegionIds
      /\ IsQueue(regionMail[r])
      /\ IsMap(solutionList) /\ regionStarted \in [RegionIds -> BOOLEAN]
      /\ Owns(r, regionUsedIds, regionBox[r], regionMail[r])
  BY DEF PoolInv, Shape, IdsOwned, AllQueues, IsMap
<1> HIDE DEF m
<1>4. /\ NoneIn(sent, "RegionRegister") <=> NoneIn(regionMail[r], "RegionRegister")
      /\ AtMostOneIn(regionMail[r], "RegionRegister") => AtMostOneIn(sent, "RegionRegister")
  BY <1>2, <1>3, SendMessage
<1>5. AllQueues(regionMail') /\ IsMap(solutionList')
  BY <1>1, <1>3, SendToOne DEF IsMap, m
<1> HIDE DEF sent
<1>6. /\ regionMail'[r] = sent
      /\ \A q \in RegionIds \ {r} :
            regionMail'[q] = regionMail[q] /\ solutionList'[q] = solutionList[q]
  BY <1>1, <1>3 DEF IsMap, sent, m
<1>7. Owns(r, regionUsedIds, regionBox[r], regionMail[r])'
  BY <1>1, <1>3, <1>4, <1>6, Zenon DEF Owns
<1> QED  BY <1>1, <1>3, <1>5, <1>6, <1>7, RegionKeepsPool

-----------------------------------------------------------------------------
LEMMA StepKeepsPool == PoolInv /\ [Next]_vars => PoolInv'
<1> SUFFICES ASSUME PoolInv, [Next]_vars PROVE PoolInv'
  OBVIOUS
<1>1. CASE LeaderHandles
  BY <1>1, OtherStepsKeepPool, OnSolutionResultKeepsPool, OnRegionSplitKeepsPool,
     OnUpdateRegionSummaryKeepsPool, OnRegionRegisterKeepsPool DEF LeaderHandles
<1>2. CASE LeaderStops
  BY <1>2, OtherStepsKeepPool, StopAgentKeepsPool, AskRegionKeepsPool,
     OnRegionReleaseKeepsPool, StopCompletesKeepsPool DEF LeaderStops
<1>3. CASE \E r \in RegionIds : RegionHandles(r) \/ OnInternalStimulus(r)
  BY <1>3, OnCreateKeepsPool, OnSolutionResponseKeepsPool, OnUpdateGlobalSummaryKeepsPool,
     OnStopRegionKeepsPool, OnInternalStimulusKeepsPool DEF RegionHandles
<1>4. CASE \E a \in Agents : AgentActs(a)
  BY <1>4, OtherStepsKeepPool
<1>5. CASE UNCHANGED vars
  BY <1>5, OtherStepsKeepPool
<1> QED  BY <1>1, <1>2, <1>3, <1>4, <1>5 DEF Next

LEMMA PoolAlways == Spec => []PoolInv
BY InitPool, StepKeepsPool, PTL DEF Spec

\* No interleaving of results, splits, registrations, stops and late messages
\* loses an id of the pool or hands one out twice (SimulationActor.nextRegionId,
\* releaseId).
THEOREM PoolIsPartitioned == Spec => []IdPartition
<1>1. PoolInv => IdPartition
  BY DEF PoolInv
<1> QED  BY <1>1, PoolAlways, PTL

\* An id is known to one stage of a region's life at a time, and the region
\* the leader waits for hears nothing after the StopSimulation.
THEOREM IdsAreOwned == Spec => []IdsOwned
<1>1. PoolInv => IdsOwned
  BY DEF PoolInv
<1> QED  BY <1>1, PoolAlways, PTL

\* A region is never created over one that lives, or over one the leader still
\* knows (SimulationActor.createRegion, RegionActor.onCreate).
THEOREM CreationsAreFresh == Spec => []CreateFindsNobody
<1>1. PoolInv => CreateFindsNobody
  <2> SUFFICES ASSUME PoolInv, NEW r \in RegionIds
               PROVE  /\ regionStarted[r] => r \in ToSet(regionUsedIds)
                      /\ Creations(r) # {} =>
                            /\ r \in ToSet(regionUsedIds) \ registered
                            /\ ~regionStarted[r]
                            /\ solutionList[r] = <<>>
                            /\ \E i \in Creations(r) : Creations(r) = {i}
    BY DEF CreateFindsNobody
  <2>1. Owns(r, regionUsedIds, regionBox[r], regionMail[r])
    BY DEF PoolInv, IdsOwned
  <2>2. regionStarted[r] => r \in ToSet(regionUsedIds)
    BY <2>1 DEF Owns
  <2>3. ASSUME Creations(r) # {}
        PROVE  /\ r \in ToSet(regionUsedIds) \ registered
               /\ ~regionStarted[r]
               /\ solutionList[r] = <<>>
               /\ \E i \in Creations(r) : Creations(r) = {i}
    <3>1. ~NoneIn(regionBox[r], "CreateRegion")
      BY <2>3 DEF Creations, NoneIn
    <3>2. \A i, j \in Creations(r) : i = j
      BY <2>1 DEF Creations, Owns, AtMostOneIn
    <3>3. \E i \in Creations(r) : Creations(r) = {i}
      BY <2>3, <3>2
    <3> QED  BY <2>1, <3>1, <3>3 DEF Owns
  <2> QED  BY <2>2, <2>3
<1> QED  BY <1>1, PoolAlways, PTL

-----------------------------------------------------------------------------
(* What a stop leaves behind, and when the clock calls for one: both rest  *)
(* on the invariant of the pool.                                           *)

\* A region that lives is registered, or has told the leader that it is there.
Announced(r) == ~NoneIn(regionMail[r], "RegionRegister")
StartedIsKnown == \A r \in RegionIds : regionStarted[r] => r \in registered \/ Announced(r)

\* When no stop is under way there is time left.
TimeIsLeft ==
    /\ time \in Nat
    /\ (~IsBenchmark /\ ExecutionTime > 0 /\ frames = <<>>) => time < ExecutionTime

StopInv == PoolInv /\ StartedIsKnown /\ TimeIsLeft

-----------------------------------------------------------------------------
(* The clock *)

LEMMA CalculatingKeepsTime ==
    ASSUME frames \in Seq(Frames), TimeIsLeft, NEW regions, NEW summaries, NEW copies,
           CalculateGlobalParameters(regions, summaries, frames, copies)
    PROVE  TimeIsLeft' /\ (frames # <<>> => frames' # <<>>)
<1>1. time' = time + 1 /\ time \in Nat
  BY DEF CalculateGlobalParameters, TimeIsLeft
<1>2. CASE TimeRunsOut
  <2>1. frames' = Append(frames, [kind |-> "finish", agent |-> 0])
    BY <1>2 DEF CalculateGlobalParameters
  <2>2. frames' # <<>>
    BY <2>1
  <2> QED  BY <1>1, <2>2 DEF TimeIsLeft
<1>3. CASE ~TimeRunsOut
  <2>1. frames' = frames
    BY <1>3 DEF CalculateGlobalParameters
  <2>2. ~IsBenchmark => ~(time + 1 >= ExecutionTime)
    BY <1>3 DEF TimeRunsOut
  <2>3. TimeIsLeft'
    BY <1>1, <2>2, ExecutionTimeAssumption DEF TimeIsLeft
  <2> QED  BY <2>1, <2>3
<1> QED  BY <1>2, <1>3

LEMMA SameTime ==
    ASSUME TimeIsLeft, UNCHANGED time, frames' = frames \/ frames' # <<>>
    PROVE  TimeIsLeft'
BY DEF TimeIsLeft

LEMMA StopAgentKeepsFrames == ASSUME PoolInv, StopAgent PROVE frames' # <<>>
<1>1. frames # <<>> /\ frames \in Seq(Frames)
  BY DEF StopAgent, Stopping, PoolInv, Shape
<1>2. Len(frames) \in 1 .. Len(frames)
  BY <1>1, EmptySeq
<1>3. DOMAIN frames = 1 .. Len(frames)
  BY <1>1, LenProperties
<1>4. DOMAIN frames' = DOMAIN frames
  BY DEF StopAgent
<1>5. DOMAIN frames' # {}
  BY <1>2, <1>3, <1>4
<1>6. DOMAIN <<>> = {}
  OBVIOUS
<1> QED  BY <1>5, <1>6

\* A stop under way ends in StopCompletes and nowhere else.
LEMMA StepKeepsTime ==
    ASSUME PoolInv, TimeIsLeft, [Next]_vars
    PROVE  TimeIsLeft' /\ (frames # <<>> /\ frames' = <<>> => StopCompletes)
<1>1. frames \in Seq(Frames)
  BY DEF PoolInv, Shape
<1>2. CASE OnStartSimulation
  BY <1>2, SameTime DEF OnStartSimulation, tableVars, stopVars
<1>3. CASE OnStopSimulation
  BY <1>3, SameTime DEF OnStopSimulation, tableVars, LeaderIdle
<1>4. CASE \E a \in Agents : OnSolutionResult(a)
  BY <1>4, SameTime DEF OnSolutionResult, tableVars, stopVars
<1>5. CASE \E r \in RegionIds : OnRegionSplit(r)
  BY <1>5, SameTime DEF OnRegionSplit, tableVars, stopVars
<1>6. CASE \E r \in RegionIds : OnUpdateRegionSummary(r)
  BY <1>1, <1>6, CalculatingKeepsTime DEF OnUpdateRegionSummary
<1>7. CASE \E r \in RegionIds : OnRegionRegister(r)
  BY <1>1, <1>7, CalculatingKeepsTime DEF OnRegionRegister
<1>8. CASE StopAgent
  BY <1>8, SameTime, StopAgentKeepsFrames DEF StopAgent, tableVars
<1>9. CASE AskRegion
  BY <1>9, SameTime DEF AskRegion, tableVars
<1>10. CASE AskTimesOut
  BY <1>10, SameTime DEF AskTimesOut, tableVars, stopVars
<1>11. CASE OnRegionRelease
  BY <1>1, <1>11, CalculatingKeepsTime DEF OnRegionRelease
<1>12. CASE StopCompletes
  BY <1>12, ExecutionTimeAssumption DEF StopCompletes, TimeIsLeft
<1>13. CASE Terminate
  BY <1>13, SameTime DEF Terminate, tableVars, stopVars
<1>14. CASE \E r \in RegionIds : RegionHandles(r) \/ OnInternalStimulus(r)
  <2>1. UNCHANGED <<time, frames>>
    BY <1>14 DEF RegionHandles, OnCreate, OnSolutionResponse, OnUpdateGlobalSummary, OnStopRegion,
                 OnInternalStimulus, leaderVars, tableVars, stopVars
  <2> QED  BY <2>1, SameTime
<1>15. CASE \E a \in Agents : AgentActs(a)
  <2>1. UNCHANGED <<time, frames>>
    BY <1>15 DEF AgentActs, OnAgentStart, ProcessSolutionList, leaderVars, tableVars, stopVars
  <2> QED  BY <2>1, SameTime
<1>16. CASE UNCHANGED vars
  BY <1>16, SameTime DEF vars, leaderVars, tableVars, stopVars
<1> QED
  BY <1>2, <1>3, <1>4, <1>5, <1>6, <1>7, <1>8, <1>9, <1>10, <1>11, <1>12, <1>13, <1>14, <1>15, <1>16
     DEF Next, LeaderHandles, LeaderStops

-----------------------------------------------------------------------------
(* Living regions are known *)

LEMMA SameRegions ==
    ASSUME StartedIsKnown, UNCHANGED <<regionMail, regionStarted, registered>>
    PROVE  StartedIsKnown'
BY DEF StartedIsKnown, Announced

\* The leader takes a message that registers nobody.
LEMMA TakesOther ==
    ASSUME PoolInv, StartedIsKnown, NEW r \in RegionIds, NEW type, Takes(r, type),
           type # "RegionRegister", UNCHANGED <<regionStarted, registered>>
    PROVE  StartedIsKnown'
<1>1. /\ IsQueue(regionMail[r]) /\ DOMAIN regionMail = RegionIds
      /\ regionMail[r] # <<>> /\ Head(regionMail[r]).type = type
      /\ regionMail' = [regionMail EXCEPT ![r] = Tail(@)]
  BY DEF PoolInv, Shape, AllQueues, IsMap, Takes
<1>2. NoneIn(Tail(regionMail[r]), "RegionRegister") => NoneIn(regionMail[r], "RegionRegister")
  <2>1. /\ Len(regionMail[r]) \in Nat \ {0} /\ DOMAIN regionMail[r] = 1 .. Len(regionMail[r])
        /\ DOMAIN Tail(regionMail[r]) = 1 .. Len(regionMail[r]) - 1
        /\ \A i \in DOMAIN Tail(regionMail[r]) : Tail(regionMail[r])[i] = regionMail[r][i + 1]
        /\ Head(regionMail[r]) = regionMail[r][1]
    BY <1>1, QueueDomain, TailQueue
  <2> SUFFICES ASSUME NoneIn(Tail(regionMail[r]), "RegionRegister"), NEW i \in DOMAIN regionMail[r]
               PROVE  regionMail[r][i].type # "RegionRegister"
    BY DEF NoneIn
  <2>2. CASE i = 1
    BY <1>1, <2>1, <2>2
  <2>3. CASE i # 1
    <3>1. i - 1 \in DOMAIN Tail(regionMail[r]) /\ Tail(regionMail[r])[i - 1] = regionMail[r][i]
      BY <2>1, <2>3
    <3> QED  BY <3>1 DEF NoneIn
  <2> QED  BY <2>2, <2>3
<1>3. \A q \in RegionIds : Announced(q) => Announced(q)'
  BY <1>1, <1>2 DEF Announced
<1> QED  BY <1>3 DEF StartedIsKnown

\* A region sends the leader something.
LEMMA RegionSends ==
    ASSUME PoolInv, StartedIsKnown, NEW r \in RegionIds, NEW m,
           regionMail' = [regionMail EXCEPT ![r] = Append(@, m)],
           UNCHANGED <<regionStarted, registered>>
    PROVE  StartedIsKnown'
<1>1. IsQueue(regionMail[r]) /\ DOMAIN regionMail = RegionIds
  BY DEF PoolInv, Shape, AllQueues, IsMap
<1>2. \A q \in RegionIds : Announced(q) => Announced(q)'
  BY <1>1, SendMessage DEF Announced
<1> QED  BY <1>2 DEF StartedIsKnown

LEMMA OnCreateKnown ==
    ASSUME PoolInv, StartedIsKnown, NEW r \in RegionIds, OnCreate(r) PROVE StartedIsKnown'
<1> DEFINE summary == SummaryOf(Head(regionBox[r]).solutions)
           m == UpdateRegionSummary(summary)
           n == RegionRegister(summary)
<1>1. /\ regionMail' = [regionMail EXCEPT ![r] = Append(Append(regionMail[r], m), n)]
      /\ regionStarted' = [regionStarted EXCEPT ![r] = TRUE]
      /\ UNCHANGED registered
  BY DEF OnCreate, leaderVars, tableVars
<1>2. n.type = "RegionRegister"
  BY DEF RegionRegister
<1> HIDE DEF m, n
<1>3. /\ IsQueue(regionMail[r]) /\ DOMAIN regionMail = RegionIds
      /\ regionStarted \in [RegionIds -> BOOLEAN]
  BY DEF PoolInv, Shape, AllQueues, IsMap
<1>4. Announced(r)'
  <2>1. IsQueue(Append(regionMail[r], m))
    BY <1>3, AppendQueue
  <2> QED  BY <1>1, <1>2, <1>3, <2>1, SendMessage DEF Announced
<1>5. \A q \in RegionIds \ {r} : regionMail'[q] = regionMail[q] /\ regionStarted'[q] = regionStarted[q]
  BY <1>1, <1>3
<1> QED  BY <1>1, <1>4, <1>5 DEF StartedIsKnown, Announced

LEMMA StepKeepsKnown ==
    ASSUME PoolInv, StartedIsKnown, [Next]_vars PROVE StartedIsKnown'
<1>1. CASE \/ OnStartSimulation \/ OnStopSimulation \/ StopAgent \/ AskRegion \/ AskTimesOut
           \/ StopCompletes \/ Terminate
  BY <1>1, SameRegions
     DEF OnStartSimulation, OnStopSimulation, StopAgent, AskRegion, AskTimesOut, StopCompletes,
         Terminate, tableVars, mailVars, regionVars
<1>2. CASE \E a \in Agents : OnSolutionResult(a) \/ AgentActs(a)
  BY <1>2, SameRegions
     DEF OnSolutionResult, AgentActs, OnAgentStart, ProcessSolutionList, leaderVars, tableVars,
         regionVars
<1>3. ASSUME NEW r \in RegionIds, OnRegionSplit(r) PROVE StartedIsKnown'
  BY <1>3, TakesOther DEF OnRegionSplit, tableVars, regionVars
<1>4. ASSUME NEW r \in RegionIds, OnUpdateRegionSummary(r) PROVE StartedIsKnown'
  BY <1>4, TakesOther DEF OnUpdateRegionSummary, CalculateGlobalParameters, regionVars
<1>5. ASSUME NEW r \in RegionIds, OnRegionRegister(r) PROVE StartedIsKnown'
  <2>1. /\ registered' = registered \cup {r} /\ regionStarted' = regionStarted
        /\ \A q \in RegionIds \ {r} : regionMail'[q] = regionMail[q]
    BY <1>5 DEF OnRegionRegister, Takes, CalculateGlobalParameters, regionVars,
                PoolInv, Shape, AllQueues, IsMap
  <2> QED  BY <2>1 DEF StartedIsKnown, Announced
<1>6. CASE OnRegionRelease
  <2>1. /\ registered' = registered \ {asked} /\ UNCHANGED <<regionMail, regionStarted>> /\ replied
    BY <1>6 DEF OnRegionRelease, WithoutRegion, CalculateGlobalParameters, regionVars
  <2>2. ~regionStarted[asked]
    BY <2>1 DEF PoolInv, IdsOwned, Waiting
  <2> QED  BY <2>1, <2>2 DEF StartedIsKnown, Announced
<1>7. ASSUME NEW r \in RegionIds, OnSolutionResponse(r) PROVE StartedIsKnown'
  <2> DEFINE m == UpdateRegionSummary(SummaryOf(solutionList[r] \o Head(regionBox[r]).solutions))
  <2>1. /\ regionMail' = [regionMail EXCEPT ![r] = Append(@, m)]
        /\ UNCHANGED <<regionStarted, registered>>
    BY <1>7 DEF OnSolutionResponse, leaderVars, tableVars
  <2> HIDE DEF m
  <2> QED  BY <2>1, RegionSends
<1>8. ASSUME NEW r \in RegionIds, OnInternalStimulus(r) PROVE StartedIsKnown'
  <2>1. PICK m : regionMail' = [regionMail EXCEPT ![r] = Append(@, m)]
    BY <1>8 DEF OnInternalStimulus
  <2>2. UNCHANGED <<regionStarted, registered>>
    BY <1>8 DEF OnInternalStimulus, leaderVars, tableVars
  <2> QED  BY <2>1, <2>2, RegionSends
<1>9. ASSUME NEW r \in RegionIds, OnUpdateGlobalSummary(r) PROVE StartedIsKnown'
  BY <1>9, SameRegions DEF OnUpdateGlobalSummary, leaderVars, tableVars
<1>10. ASSUME NEW r \in RegionIds, OnStopRegion(r) PROVE StartedIsKnown'
  <2>1. /\ regionStarted' = [regionStarted EXCEPT ![r] = FALSE]
        /\ UNCHANGED <<regionMail, registered>>
    BY <1>10 DEF OnStopRegion, tableVars
  <2> QED  BY <2>1 DEF StartedIsKnown, Announced, PoolInv, Shape
<1>11. CASE UNCHANGED vars
  BY <1>11, SameRegions DEF vars, leaderVars, tableVars, mailVars, regionVars
<1> QED
  BY <1>1, <1>2, <1>3, <1>4, <1>5, <1>6, <1>7, <1>8, <1>9, <1>10, <1>11, OnCreateKnown
     DEF Next, LeaderHandles, LeaderStops, RegionHandles

-----------------------------------------------------------------------------
LEMMA InitStop == Init => StopInv
<1> SUFFICES ASSUME Init PROVE StopInv
  OBVIOUS
<1>1. PoolInv
  BY InitPool
<1>2. StartedIsKnown
  BY DEF Init, StartedIsKnown
<1>3. TimeIsLeft
  BY ExecutionTimeAssumption DEF Init, TimeIsLeft
<1> QED  BY <1>1, <1>2, <1>3 DEF StopInv

LEMMA StopAlways == Spec => []StopInv
<1>1. StopInv /\ [Next]_vars => StopInv'
  BY StepKeepsPool, StepKeepsKnown, StepKeepsTime DEF StopInv
<1> QED  BY InitStop, <1>1, PTL DEF Spec

\* Whichever handler advances the clock to the execution time, also one that
\* runs inside a stop, ends the simulation before the next message
\* (SimulationActor.increaseTime).
THEOREM ClockNeverRestsAtItsEnd == Spec => []ClockExpires
<1>1. StopInv => ClockExpires
  BY DEF StopInv, TimeIsLeft, ClockExpires, LeaderIdle
<1> QED  BY <1>1, StopAlways, PTL

\* When a stop is over every region is empty, but for those whose registration
\* is still in the leader's mailbox (SimulationActor.stopAgentsAndRegions).
THEOREM StopsEmptyRegions == Spec => StopEmptiesRegions
<1> DEFINE Emptied ==
      (frames # <<>> /\ frames' = <<>>) =>
         \A r \in RegionIds : solutionList[r] # <<>> =>
            \E i \in DOMAIN regionMail[r] : regionMail[r][i].type = "RegionRegister"
<1>1. StopInv /\ [Next]_vars => [Emptied]_vars
  <2> SUFFICES ASSUME StopInv, [Next]_vars, frames # <<>>, frames' = <<>>,
                      NEW r \in RegionIds, solutionList[r] # <<>>
               PROVE  Announced(r)
    BY DEF Announced, NoneIn
  <2>1. StopCompletes
    BY StepKeepsTime DEF StopInv
  <2>2. registered = {}
    BY <2>1 DEF StopCompletes, AllReleased
  <2>3. regionStarted[r]
    BY DEF StopInv, PoolInv, IdsOwned, Owns
  <2> QED  BY <2>2, <2>3 DEF StopInv, StartedIsKnown
<1>2. Spec => [][Emptied]_vars
  <2> HIDE DEF Emptied
  <2> QED  BY <1>1, StopAlways, PTL DEF Spec
<1> QED  BY <1>2 DEF StopEmptiesRegions

=============================================================================
