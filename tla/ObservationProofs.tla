-------------------------- MODULE ObservationProofs --------------------------
(***************************************************************************)
(* Proofs about Observation: the numbers of events, the consent behind     *)
(* each stored event, and how far a pause takes hold.                      *)
(***************************************************************************)
EXTENDS Observation, TLAPS

USE DEF vars

-----------------------------------------------------------------------------
(***************************************************************************)
(* Types.                                                                  *)
(***************************************************************************)

\* The daemon starts without resources, scopes and events.
LEMMA InitTypeOK ==
    ASSUME Init
    PROVE  TypeOK
BY DEF Init, TypeOK

\* The upsert keeps the types of both tables.
LEMMA StoreTyped ==
    ASSUME TypeOK, NEW event \in Event, StoreEvent(event)
    PROVE  /\ events' \in SUBSET Event
           /\ lastSeq' \in [Instances -> SequenceNumbers \cup {0}]
<1>1. event.instance \in Instances /\ event.sequence_no \in SequenceNumbers
  BY DEF Event
<1>2. NewLastSeq(event) \in SequenceNumbers \cup {0}
  BY <1>1 DEF NewLastSeq, TypeOK
<1> QED
  BY <1>1, <1>2 DEF StoreEvent, TypeOK

\* Every request keeps the types; one step per action.
LEMMA StepTypeOK ==
    ASSUME TypeOK, [Next]_vars
    PROVE  TypeOK'
<1>1. ASSUME NEW l \in Locators, NEW kind \in Kinds, CreateResource(l, kind)
      PROVE  TypeOK'
  BY <1>1 DEF CreateResource, TypeOK
<1>2. ASSUME NEW k \in Clients, NEW l \in Locators, NEW source \in Sources,
             EnableResource(k, l, source)
      PROVE  TypeOK'
  <2>1. ExpectedKind(source) \in Kinds /\ <<source, l>> \in Scopes
    BY DEF ExpectedKind, Kinds, Scopes
  <2> QED
    BY <1>2, <2>1 DEF EnableResource, TypeOK
<1>3. ASSUME NEW k \in Clients, EnsureObservationScope(k)
      PROVE  TypeOK'
  <2>1. enabling[k] \in Scopes
    BY <1>3 DEF EnsureObservationScope, TypeOK
  <2>2. late' \in [Sockets -> [Scopes -> Nat]]
    BY <1>3, <2>1 DEF EnsureObservationScope, TypeOK
  <2> QED
    BY <1>3, <2>1, <2>2 DEF EnsureObservationScope, TypeOK
<1>4. ASSUME NEW sc \in Scopes, PauseObservationScope(sc)
      PROVE  TypeOK'
  BY <1>4 DEF PauseObservationScope, TypeOK
<1>5. ASSUME NEW s \in Sockets, NEW type \in EventCapabilities, NEW l \in Locators,
             NEW n \in SequenceNumbers, CheckEvent(s, type, l, n)
      PROVE  TypeOK'
  <2> DEFINE event == [instance |-> InstanceOf[s], sequence_no |-> n,
                       source |-> ExpectedSource(HelloOf[s]), resource |-> l]
  <2>1. event \in Event
    BY DEF Event, Instances, ExpectedSource, Sources
  <2>2. ingesting' = [ingesting EXCEPT ![s] = event]
    BY <1>5 DEF CheckEvent
  <2> HIDE DEF event
  <2> QED
    BY <1>5, <2>1, <2>2 DEF CheckEvent, TypeOK
<1>6. ASSUME NEW s \in Sockets, InsertEvent(s)
      PROVE  TypeOK'
  <2>1. ingesting[s] \in Event /\ StoreEvent(ingesting[s])
    BY <1>6 DEF InsertEvent, TypeOK
  <2> DEFINE sc     == <<ingesting[s].source, ingesting[s].resource>>
             counts == [late[s] EXCEPT ![sc] = @ + 1]
  <2>2. counts \in [Scopes -> Nat]
    <3>1. late[s] \in [Scopes -> Nat]
      BY DEF TypeOK
    <3>2. ASSUME NEW x \in Scopes
          PROVE  counts[x] \in Nat
      <4>1. counts[x] = IF x = sc THEN late[s][x] + 1 ELSE late[s][x]
        BY <3>1
      <4>2. late[s][x] \in Nat
        BY <3>1
      <4> HIDE DEF sc, counts
      <4> QED
        BY <4>1, <4>2
    <3>3. counts = [x \in Scopes |-> counts[x]]
      BY <3>1
    <3> HIDE DEF sc, counts
    <3> QED
      BY <3>2, <3>3
  <2>3. late' = late \/ late' = [late EXCEPT ![s] = counts]
    BY <1>6 DEF InsertEvent
  <2> HIDE DEF counts
  <2>4. late' \in [Sockets -> [Scopes -> Nat]]
    BY <2>2, <2>3 DEF TypeOK
  <2> QED
    BY <1>6, <2>1, <2>4, StoreTyped DEF InsertEvent, TypeOK
<1>7. ASSUME NEW i \in Instances, NEW n \in SequenceNumbers, IngestSynthetic(i, n)
      PROVE  TypeOK'
  <2>1. [instance |-> i, sequence_no |-> n, source |-> None, resource |-> None] \in Event
    BY DEF Event
  <2> QED
    BY <1>7, <2>1, StoreTyped DEF IngestSynthetic, TypeOK
<1>8. ASSUME NEW k \in Clients, DropEnable(k)
      PROVE  TypeOK'
  BY <1>8 DEF DropEnable, TypeOK
<1>9. ASSUME NEW s \in Sockets, DropEvent(s)
      PROVE  TypeOK'
  BY <1>9 DEF DropEvent, TypeOK
<1>10. CASE UNCHANGED vars
  BY <1>10 DEF TypeOK
<1> QED
  BY <1>1, <1>2, <1>3, <1>4, <1>5, <1>6, <1>7, <1>8, <1>9, <1>10 DEF Next

\* Every variable keeps its type: the tables, and what handlers hold between requests.
THEOREM TypeCorrect == Spec => []TypeOK
<1>1. Init => TypeOK
  BY InitTypeOK
<1>2. TypeOK /\ [Next]_vars => TypeOK'
  BY StepTypeOK
<1> QED
  BY <1>1, <1>2, PTL DEF Spec

-----------------------------------------------------------------------------
(***************************************************************************)
(* The numbers of an instance.  SequencesExact is inductive with the types;*)
(* Numbers states it without sets of numbers.                              *)
(***************************************************************************)

\* The adapters row of an instance holds its greatest number.
Greatest(i) ==
    /\ \A e \in events : e.instance = i => e.sequence_no <= lastSeq[i]
    /\ \/ lastSeq[i] = 0
       \/ \E e \in events : e.instance = i /\ e.sequence_no = lastSeq[i]

Numbers ==
    /\ \A e, f \in events :
          e.instance = f.instance /\ e.sequence_no = f.sequence_no => e = f
    /\ \A i \in Instances : Greatest(i)

\* Only insert_event writes the two tables.
LEMMA OnlyStoreWrites ==
    ASSUME TypeOK, [Next]_vars
    PROVE  UNCHANGED <<events, lastSeq>> \/ \E event \in Event : StoreEvent(event)
<1>1. ASSUME NEW s \in Sockets, InsertEvent(s)
      PROVE  \E event \in Event : StoreEvent(event)
  BY <1>1 DEF InsertEvent, TypeOK
<1>2. ASSUME NEW i \in Instances, NEW n \in SequenceNumbers, IngestSynthetic(i, n)
      PROVE  \E event \in Event : StoreEvent(event)
  BY <1>2 DEF IngestSynthetic, Event
<1> QED
  BY <1>1, <1>2
     DEF Next, CreateResource, EnableResource, EnsureObservationScope, DropEnable,
         PauseObservationScope, CheckEvent, DropEvent

\* A number that is new joins the others, and the upsert takes the greater one.
LEMMA StoreKeepsNumbers ==
    ASSUME TypeOK, Numbers, NEW event \in Event, StoreEvent(event), ~Duplicate(event)
    PROVE  Numbers'
<1> DEFINE j == event.instance
           n == event.sequence_no
<1>1. /\ events' = events \cup {event}
      /\ lastSeq' = [lastSeq EXCEPT ![j] = NewLastSeq(event)]
  BY DEF StoreEvent
<1>2. /\ j \in Instances /\ n \in Nat /\ lastSeq \in [Instances -> Nat]
      /\ events \subseteq Event
      /\ \A e \in events : e.sequence_no \in Nat
  <2>1. SequenceNumbers \cup {0} \subseteq Nat
    BY ConstantsAssumption
  <2> QED
    BY <2>1 DEF TypeOK, Event
<1>3. \A e \in events : ~(e.instance = j /\ e.sequence_no = n)
  BY DEF Duplicate
<1>4. \A e, f \in events' :
        e.instance = f.instance /\ e.sequence_no = f.sequence_no => e = f
  BY <1>1, <1>3 DEF Numbers
<1>5. ASSUME NEW i \in Instances \ {j}
      PROVE  Greatest(i)'
  BY <1>1, <1>2 DEF Numbers, Greatest
<1>6. Greatest(j)'
  <2>1. /\ lastSeq'[j] = IF lastSeq[j] > n THEN lastSeq[j] ELSE n
        /\ lastSeq[j] \in Nat
    BY <1>1, <1>2 DEF NewLastSeq
  <2>2. Greatest(j)
    BY <1>2 DEF Numbers
  <2>3. \A e \in events' : e.instance = j => e.sequence_no <= lastSeq'[j]
    BY <1>1, <1>2, <2>1, <2>2 DEF Greatest
  <2>4. lastSeq'[j] = 0 \/ \E e \in events' : e.instance = j /\ e.sequence_no = lastSeq'[j]
    <3>1. CASE lastSeq[j] > n
      BY <1>1, <2>1, <2>2, <3>1 DEF Greatest
    <3>2. CASE ~(lastSeq[j] > n)
      BY <1>1, <2>1, <3>2
    <3> QED
      BY <3>1, <3>2
  <2> QED
    BY <2>3, <2>4 DEF Greatest
<1> QED
  BY <1>4, <1>5, <1>6 DEF Numbers

\* The invariant of numbers is inductive with the types.
LEMMA StepNumbers ==
    ASSUME TypeOK, Numbers, [Next]_vars
    PROVE  Numbers'
<1>1. CASE UNCHANGED <<events, lastSeq>>
  BY <1>1 DEF Numbers, Greatest
<1>2. ASSUME NEW event \in Event, StoreEvent(event)
      PROVE  Numbers'
  <2>1. CASE Duplicate(event)
    BY <1>1, <1>2, <2>1 DEF StoreEvent
  <2>2. CASE ~Duplicate(event)
    BY <1>2, <2>2, StoreKeepsNumbers
  <2> QED
    BY <2>1, <2>2
<1> QED
  BY <1>1, <1>2, OnlyStoreWrites

\* Whichever sockets, retransmissions and synthetic clients use the numbers of an
\* instance, and in whatever order they are stored, insert_event stores each once and
\* its upsert leaves the greatest in the adapters row.
THEOREM NumbersExact == Spec => []SequencesExact
<1>1. Init => TypeOK /\ Numbers
  BY InitTypeOK DEF Init, Numbers, Greatest
<1>2. TypeOK /\ Numbers /\ [Next]_vars => TypeOK' /\ Numbers'
  BY StepTypeOK, StepNumbers
<1>3. Numbers => SequencesExact
  BY DEF Numbers, Greatest, SequencesExact
<1> QED
  BY <1>1, <1>2, <1>3, PTL DEF Spec

-----------------------------------------------------------------------------
(***************************************************************************)
(* Consent.  The checks of an event and its insertion are two requests, so *)
(* what was checked must still hold for an event that a handler carries:   *)
(* it does because scopes and resources are never deleted and a resource   *)
(* never changes its kind.                                                 *)
(***************************************************************************)

Consented(e) ==
    /\ scopes[<<e.source, e.resource>>] # None
    /\ resources[e.resource] = ExpectedKind(e.source)
    /\ \E s \in Sockets : /\ InstanceOf[s] = e.instance
                          /\ ExpectedSource(HelloOf[s]) = e.source
                          /\ MayEmit(HelloOf[s], ExpectedCapability(HelloOf[s]), e.resource)

\* An event about a known source and a resource.
Semantic(e) == e.source \in Sources /\ e.resource \in Locators

ConsentInv ==
    /\ \A e \in events : e.source # None => Semantic(e) /\ Consented(e)
    /\ \A s \in Sockets :
          ingesting[s] # None => Semantic(ingesting[s]) /\ Consented(ingesting[s])

\* A resource keeps its kind, and a scope that exists is paused or set active again.
LEMMA ConsentKept ==
    ASSUME TypeOK, [Next]_vars
    PROVE  /\ \A l \in Locators : resources[l] # None => resources'[l] = resources[l]
           /\ \A sc \in Scopes : scopes[sc] # None => scopes'[sc] # None
<1> USE DEF TypeOK
<1>1. ASSUME NEW l \in Locators, NEW kind \in Kinds, CreateResource(l, kind)
      PROVE  /\ \A m \in Locators : resources[m] # None => resources'[m] = resources[m]
             /\ UNCHANGED scopes
  BY <1>1 DEF CreateResource
<1>2. ASSUME NEW k \in Clients, NEW l \in Locators, NEW source \in Sources,
             EnableResource(k, l, source)
      PROVE  /\ \A m \in Locators : resources[m] # None => resources'[m] = resources[m]
             /\ UNCHANGED scopes
  BY <1>2 DEF EnableResource
<1>3. ASSUME NEW k \in Clients, EnsureObservationScope(k)
      PROVE  /\ UNCHANGED resources
             /\ \A sc \in Scopes : scopes[sc] # None => scopes'[sc] # None
  BY <1>3, ConstantsAssumption DEF EnsureObservationScope
<1>4. ASSUME NEW sc \in Scopes, PauseObservationScope(sc)
      PROVE  /\ UNCHANGED resources
             /\ \A m \in Scopes : scopes[m] # None => scopes'[m] # None
  BY <1>4, ConstantsAssumption DEF PauseObservationScope
<1>5. CASE UNCHANGED <<resources, scopes>>
  BY <1>5
<1> QED
  BY <1>1, <1>2, <1>3, <1>4, <1>5
     DEF Next, DropEnable, CheckEvent, InsertEvent, DropEvent, IngestSynthetic

\* What a handler has checked stays true.
LEMMA ConsentedKept ==
    ASSUME TypeOK, [Next]_vars, NEW e, Semantic(e), Consented(e)
    PROVE  Consented(e)'
<1>1. /\ <<e.source, e.resource>> \in Scopes
      /\ e.resource \in Locators
  BY DEF Semantic, Scopes
<1>2. \A source : ExpectedKind(source) # None
  BY ConstantsAssumption DEF ExpectedKind, Kinds
<1>3. scopes'[<<e.source, e.resource>>] # None
  BY <1>1, ConsentKept DEF Consented
<1>4. resources'[e.resource] = resources[e.resource]
  BY <1>1, <1>2, ConsentKept DEF Consented
<1> QED
  BY <1>3, <1>4 DEF Consented, MayEmit

\* The checks of ingest_adapter_event establish what is claimed of a semantic event.
LEMMA CheckedIsConsented ==
    ASSUME TypeOK, NEW s \in Sockets, NEW l \in Locators, NEW n, NEW event,
           MayEmit(HelloOf[s], ExpectedCapability(HelloOf[s]), l),
           ScopeActive(HelloOf[s], l),
           event = [instance |-> InstanceOf[s], sequence_no |-> n,
                    source |-> ExpectedSource(HelloOf[s]), resource |-> l]
    PROVE  Semantic(event) /\ Consented(event)
<1>1. Semantic(event)
  BY DEF Semantic, ExpectedSource, Sources
<1>2. "active" # None
  BY ConstantsAssumption
<1>3. scopes[<<event.source, event.resource>>] # None
  BY <1>2 DEF ScopeActive
<1>4. resources[event.resource] = ExpectedKind(event.source)
  BY DEF MayEmit
<1>5. /\ InstanceOf[s] = event.instance
      /\ ExpectedSource(HelloOf[s]) = event.source
      /\ event.resource = l
  OBVIOUS
<1> QED
  BY <1>1, <1>3, <1>4, <1>5 DEF Consented

\* A semantic event is stored by the handler that has checked it, or by none.
LEMMA WhatIsStored ==
    ASSUME TypeOK, [Next]_vars, NEW e \in events', e \notin events, e.source # None
    PROVE  \E s \in Sockets : ingesting[s] # None /\ e = ingesting[s]
<1>1. ASSUME NEW s \in Sockets, InsertEvent(s)
      PROVE  ingesting[s] # None /\ e = ingesting[s]
  BY <1>1 DEF InsertEvent, StoreEvent
<1>2. ASSUME NEW i \in Instances, NEW n \in SequenceNumbers, IngestSynthetic(i, n)
      PROVE  FALSE
  BY <1>2 DEF IngestSynthetic, StoreEvent
<1> QED
  BY <1>1, <1>2
     DEF Next, CreateResource, EnableResource, EnsureObservationScope, DropEnable,
         PauseObservationScope, CheckEvent, DropEvent

\* Stored events and those in a handler's hands stay consented.
LEMMA StepConsent ==
    ASSUME TypeOK, ConsentInv, [Next]_vars
    PROVE  ConsentInv'
<1>1. ASSUME NEW e \in events', e.source # None
      PROVE  Semantic(e) /\ Consented(e)'
  <2>1. Semantic(e) /\ Consented(e)
    BY <1>1, WhatIsStored DEF ConsentInv
  <2> QED
    BY <2>1, ConsentedKept
<1>2. ASSUME NEW s \in Sockets, NEW e, e = ingesting'[s], e # None
      PROVE  Semantic(e) /\ Consented(e)'
  <2>1. Semantic(e) /\ Consented(e)
    <3>1. CASE e = ingesting[s]
      BY <1>2, <3>1 DEF ConsentInv
    <3>2. CASE e # ingesting[s]
      <4>1. PICK c \in Sockets, type \in EventCapabilities, l \in Locators,
                 n \in SequenceNumbers : CheckEvent(c, type, l, n)
        BY <1>2, <3>2
           DEF Next, CreateResource, EnableResource, EnsureObservationScope, DropEnable,
               PauseObservationScope, InsertEvent, DropEvent, IngestSynthetic, TypeOK
      <4>2. /\ s = c
            /\ e = [instance |-> InstanceOf[s], sequence_no |-> n,
                    source |-> ExpectedSource(HelloOf[s]), resource |-> l]
        BY <1>2, <3>2, <4>1 DEF CheckEvent, TypeOK
      <4>3. /\ MayEmit(HelloOf[s], ExpectedCapability(HelloOf[s]), l)
            /\ ScopeActive(HelloOf[s], l)
        BY <4>1, <4>2 DEF CheckEvent, MayEmit
      <4> QED
        BY <4>2, <4>3, CheckedIsConsented
    <3> QED
      BY <3>1, <3>2
  <2> QED
    BY <2>1, ConsentedKept
<1>3. \A e \in events' : e.source # None => Semantic(e) /\ Consented(e)'
  BY <1>1
<1>4. \A s \in Sockets : \A e :
        e = ingesting'[s] /\ e # None => Semantic(e) /\ Consented(e)'
  BY <1>2
<1> QED
  BY <1>3, <1>4 DEF ConsentInv, Semantic, Consented, MayEmit

\* No handler can store a semantic event without a scope its user has enabled, a resource
\* of the right kind and an instance that declared the capability and the permission,
\* although the checks of ingest_adapter_event and insert_event are separate requests.
THEOREM ConsentBehindEvents == Spec => []EventsConsented
<1>1. Init => TypeOK /\ ConsentInv
  BY InitTypeOK DEF Init, ConsentInv
<1>2. TypeOK /\ ConsentInv /\ [Next]_vars => TypeOK' /\ ConsentInv'
  BY StepTypeOK, StepConsent
<1>3. ConsentInv => EventsConsented
  BY DEF ConsentInv, Consented, EventsConsented
<1> QED
  BY <1>1, <1>2, <1>3, PTL DEF Spec

-----------------------------------------------------------------------------
(***************************************************************************)
(* Pauses.  PauseTakesHold counts the events of a connection that came     *)
(* late.  That the count cannot go to two needs that the connection's next *)
(* event in the scope would have to find it active.                        *)
(***************************************************************************)

ScopeOf(event) == <<event.source, event.resource>>

\* A connection that has stored a late event carries no other one for that scope.
Paused(s, sc) ==
    /\ late[s][sc] <= 1
    /\ late[s][sc] # 0 => /\ scopes[sc] # "active"
                          /\ ingesting[s] # None => ScopeOf(ingesting[s]) # sc

PauseInv == \A s \in Sockets : \A sc \in Scopes : Paused(s, sc)

\* insert_event counts an event that comes late, the first since the scope was enabled.
LEMMA InsertKeepsPause ==
    ASSUME TypeOK, PauseInv, NEW c \in Sockets, InsertEvent(c),
           NEW s \in Sockets, NEW sc \in Scopes
    PROVE  Paused(s, sc)'
<1>1. /\ ingesting[c] # None
      /\ UNCHANGED scopes
      /\ ingesting' = [ingesting EXCEPT ![c] = None]
      /\ \/ late' = late
         \/ /\ scopes[ScopeOf(ingesting[c])] # "active"
            /\ late' = [late EXCEPT ![c][ScopeOf(ingesting[c])] = @ + 1]
  BY DEF InsertEvent, ScopeOf
<1>2. Paused(s, sc) /\ late[s][sc] \in Nat
  BY DEF PauseInv, TypeOK
<1>3. CASE s = c /\ sc = ScopeOf(ingesting[c])
  <2>1. late[s][sc] = 0
    <3>1. ingesting[s] # None /\ ScopeOf(ingesting[s]) = sc
      BY <1>1, <1>3
    <3> QED
      BY <1>2, <3>1 DEF Paused
  <2>2. /\ late'[s][sc] = 0 \/ (late'[s][sc] = 1 /\ scopes'[sc] # "active")
        /\ ingesting'[s] = None
    BY <1>1, <1>3, <2>1 DEF TypeOK
  <2> QED
    BY <2>2 DEF Paused
<1>4. CASE ~(s = c /\ sc = ScopeOf(ingesting[c]))
  <2>1. late'[s][sc] = late[s][sc]
    BY <1>1, <1>4 DEF TypeOK
  <2>2. ingesting'[s] \in {ingesting[s], None}
    BY <1>1 DEF TypeOK
  <2> QED
    BY <1>1, <1>2, <2>1, <2>2 DEF Paused
<1> QED
  BY <1>3, <1>4

\* Only an enabling request resets the count, and only a check sets an event to be stored.
LEMMA StepPause ==
    ASSUME TypeOK, PauseInv, [Next]_vars
    PROVE  PauseInv'
<1> SUFFICES ASSUME NEW s \in Sockets, NEW sc \in Scopes
             PROVE  Paused(s, sc)'
  BY DEF PauseInv
<1>0. Paused(s, sc) /\ late[s][sc] \in Nat
  BY DEF PauseInv, TypeOK
<1>1. CASE UNCHANGED <<scopes, ingesting, late>>
  BY <1>0, <1>1 DEF Paused
<1>2. ASSUME NEW k \in Clients, EnsureObservationScope(k)
      PROVE  Paused(s, sc)'
  <2>1. /\ UNCHANGED ingesting
        /\ late'[s] = [late[s] EXCEPT ![enabling[k]] = 0]
        /\ scopes' = [scopes EXCEPT ![enabling[k]] = "active"]
    BY <1>2 DEF EnsureObservationScope
  <2>2. CASE sc = enabling[k]
    <3>1. late'[s][sc] = 0
      BY <2>1, <2>2 DEF TypeOK
    <3> QED
      BY <3>1 DEF Paused
  <2>3. CASE sc # enabling[k]
    <3>1. late'[s][sc] = late[s][sc] /\ scopes'[sc] = scopes[sc]
      BY <2>1, <2>3 DEF TypeOK
    <3> QED
      BY <1>0, <2>1, <3>1 DEF Paused
  <2> QED
    BY <2>2, <2>3
<1>3. ASSUME NEW p \in Scopes, PauseObservationScope(p)
      PROVE  Paused(s, sc)'
  <2>1. /\ ingesting'[s] = ingesting[s] /\ late'[s][sc] = late[s][sc]
        /\ scopes'[sc] = scopes[sc] \/ scopes'[sc] # "active"
    BY <1>3 DEF PauseObservationScope, TypeOK
  <2> QED
    BY <1>0, <2>1 DEF Paused, ScopeOf
<1>4. ASSUME NEW c \in Sockets, NEW type \in EventCapabilities, NEW l \in Locators,
             NEW n \in SequenceNumbers, CheckEvent(c, type, l, n)
      PROVE  Paused(s, sc)'
  <2>1. UNCHANGED <<scopes, late>>
    BY <1>4 DEF CheckEvent
  <2>2. CASE s = c
    <3>1. ingesting'[s] = [instance |-> InstanceOf[s], sequence_no |-> n,
                           source |-> ExpectedSource(HelloOf[s]), resource |-> l]
      BY <1>4, <2>2 DEF CheckEvent, TypeOK
    <3>2. ScopeOf(ingesting[s])' = <<ExpectedSource(HelloOf[s]), l>>
      BY <3>1 DEF ScopeOf
    <3>3. scopes[<<ExpectedSource(HelloOf[s]), l>>] = "active"
      BY <1>4, <2>2 DEF CheckEvent, ScopeActive
    <3> QED
      BY <1>0, <2>1, <3>2, <3>3 DEF Paused
  <2>3. CASE s # c
    <3>1. ingesting'[s] = ingesting[s]
      BY <1>4, <2>3 DEF CheckEvent, TypeOK
    <3> QED
      BY <1>0, <2>1, <3>1 DEF Paused, ScopeOf
  <2> QED
    BY <2>2, <2>3
<1>5. ASSUME NEW c \in Sockets, InsertEvent(c)
      PROVE  Paused(s, sc)'
  BY <1>5, InsertKeepsPause
<1>6. ASSUME NEW c \in Sockets, DropEvent(c)
      PROVE  Paused(s, sc)'
  <2>1. UNCHANGED <<scopes, late>> /\ ingesting'[s] \in {ingesting[s], None}
    BY <1>6 DEF DropEvent, TypeOK
  <2> QED
    BY <1>0, <2>1 DEF Paused
<1> QED
  BY <1>1, <1>2, <1>3, <1>4, <1>5, <1>6
     DEF Next, CreateResource, EnableResource, DropEnable, IngestSynthetic

\* observation.scope.pause takes hold: whatever handlers are under way when the scope is
\* paused, a connection stores at most the one event it was already handling.
THEOREM PausesTakeHold == Spec => []PauseTakesHold
<1>1. Init => TypeOK /\ PauseInv
  BY InitTypeOK DEF Init, PauseInv, Paused
<1>2. TypeOK /\ PauseInv /\ [Next]_vars => TypeOK' /\ PauseInv'
  BY StepTypeOK, StepPause
<1>3. PauseInv => PauseTakesHold
  BY DEF PauseInv, Paused, PauseTakesHold
<1> QED
  BY <1>1, <1>2, <1>3, PTL DEF Spec
=============================================================================
