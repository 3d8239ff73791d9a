------------------------ MODULE SharedEngine_proofs ------------------------
(***************************************************************************)
(* The safety of shared_engine() for any threads and any addresses.        *)
(***************************************************************************)
EXTENDS SharedEngine, TLAPS

\* Before it has seen the published pointer a thread holds nothing; once it
\* has, everything it holds or returns is that pointer, and visible to it.
ThreadsAgree ==
    \A c \in Caller :
      /\ pc[c] \in {"build", "exchange"} => held[c] = {}
      /\ observed[c] => engine_ptr # null /\ engine_ptr \in visible[c]
      /\ pc[c] \in {"drop", "return"} => observed[c] /\ result[c] = engine_ptr
      /\ held[c] # {} => observed[c] /\ held[c] = {engine_ptr}

\* What is published carries its own contents along.
PublishedIsReleased == engine_ptr # null => engine_ptr \in released

\* What a thread has built, it sees.
OwnIsVisible == \A c \in Caller : pc[c] = "exchange" => raw[c] \in visible[c]

\* A thread that builds has not seen the pointer, so holds nothing.
BuildersHaveNotSeen ==
    \A c \in Caller : pc[c] \in {"build", "exchange"} => ~observed[c]

\* A pointer is owned by the published engine or by one call.
IInv ==
    /\ TypeOK
    /\ EveryBoxIsOwned
    /\ ThreadsAgree
    /\ PublishedIsReleased
    /\ OwnIsVisible
    /\ BuildersHaveNotSeen

-----------------------------------------------------------------------------
LEMMA InitIInv == Init => IInv
<1> SUFFICES ASSUME Init PROVE IInv
  OBVIOUS
<1> USE SharedEngineAssumption DEF Init
<1>1. TypeOK
  BY DEF TypeOK
<1>2. EveryBoxIsOwned
  BY DEF EveryBoxIsOwned
<1>3. ThreadsAgree /\ PublishedIsReleased /\ OwnIsVisible /\ BuildersHaveNotSeen
  BY DEF ThreadsAgree, PublishedIsReleased, OwnIsVisible, BuildersHaveNotSeen
<1> QED
  BY <1>1, <1>2, <1>3 DEF IInv

\* An Acquire read makes the published engine visible.
LEMMA StepLoadFound ==
    ASSUME IInv, NEW c \in Caller, LoadFound(c)
    PROVE  IInv'
<1> USE SharedEngineAssumption DEF IInv, LoadFound, Acquire, Goto, Readable, TypeOK
<1>1. engine_ptr # null /\ result' = [result EXCEPT ![c] = engine_ptr]
  OBVIOUS
<1>2. TypeOK'
  BY <1>1
<1>3. EveryBoxIsOwned'
  BY DEF EveryBoxIsOwned
<1>4. ThreadsAgree'
  BY <1>1 DEF ThreadsAgree, PublishedIsReleased
<1>5. PublishedIsReleased' /\ OwnIsVisible' /\ BuildersHaveNotSeen'
  BY DEF PublishedIsReleased, OwnIsVisible, BuildersHaveNotSeen
<1> QED
  BY <1>2, <1>3, <1>4, <1>5

\* A thread that reads null has not seen the pointer, or there is none.
LEMMA StepLoadNull ==
    ASSUME IInv, NEW c \in Caller, LoadNull(c)
    PROVE  IInv'
<1> USE SharedEngineAssumption DEF IInv, LoadNull, Goto, Readable, TypeOK
<1>1. ~observed[c]
  BY DEF ThreadsAgree
<1>2. TypeOK'
  OBVIOUS
<1>3. EveryBoxIsOwned'
  BY DEF EveryBoxIsOwned
<1>4. ThreadsAgree'
  BY <1>1 DEF ThreadsAgree
<1>5. PublishedIsReleased' /\ OwnIsVisible' /\ BuildersHaveNotSeen'
  BY <1>1 DEF PublishedIsReleased, OwnIsVisible, BuildersHaveNotSeen
<1> QED
  BY <1>2, <1>3, <1>4, <1>5

\* A new box is no one else's, so its contents are lost to no one that holds it.
LEMMA StepBuild ==
    ASSUME IInv, NEW c \in Caller, Build(c)
    PROVE  IInv'
<1> USE SharedEngineAssumption DEF IInv, Goto, TypeOK
<1> PICK b \in Box \ allocated :
      /\ allocated' = allocated \cup {b}
      /\ raw' = [raw EXCEPT ![c] = b]
      /\ visible' = [d \in Caller |->
                       IF d = c THEN visible[d] \cup {b} ELSE visible[d] \ {b}]
      /\ released' = released \ {b}
  BY DEF Build
<1>0. /\ pc[c] = "build" /\ pc' = [pc EXCEPT ![c] = "exchange"]
      /\ UNCHANGED <<engine_ptr, result, observed, held>>
  BY DEF Build
<1>1. b # engine_ptr /\ \A d \in Caller : b # raw[d]
  BY DEF EveryBoxIsOwned
<1>2. TypeOK'
  BY <1>0
<1>3. EveryBoxIsOwned'
  <2>1. raw[c] = null
    BY <1>0
  <2>2. {raw'[d] : d \in Caller} \cup {null} = {raw[d] : d \in Caller} \cup {b, null}
    BY <2>1
  <2>3. (allocated = ({engine_ptr} \cup {raw[d] : d \in Caller}) \ {null})'
    BY <1>0, <2>2 DEF EveryBoxIsOwned
  <2> QED
    BY <1>0, <1>1, <2>3 DEF EveryBoxIsOwned
<1>4. ThreadsAgree'
  BY <1>0, <1>1 DEF ThreadsAgree
<1>5. PublishedIsReleased' /\ OwnIsVisible' /\ BuildersHaveNotSeen'
  BY <1>0, <1>1 DEF PublishedIsReleased, OwnIsVisible, BuildersHaveNotSeen
<1> QED
  BY <1>2, <1>3, <1>4, <1>5

\* The winner's box passes from the call to the pointer; no one held anything.
LEMMA StepExchangeWon ==
    ASSUME IInv, NEW c \in Caller, ExchangeWon(c)
    PROVE  IInv'
<1> USE SharedEngineAssumption DEF IInv, ExchangeWon, Goto, TypeOK
<1>1. raw[c] \in Box /\ raw[c] \in visible[c]
  BY DEF OwnIsVisible
<1>2. \A d \in Caller : ~observed[d] /\ held[d] = {}
  BY DEF ThreadsAgree
<1>3. TypeOK'
  BY <1>1
<1>4. EveryBoxIsOwned'
  <2>1. {raw'[d] : d \in Caller} \cup {raw[c], null} = {raw[d] : d \in Caller} \cup {null}
    OBVIOUS
  <2>2. (allocated = ({engine_ptr} \cup {raw[d] : d \in Caller}) \ {null})'
    BY <2>1 DEF EveryBoxIsOwned
  <2> QED
    BY <2>2 DEF EveryBoxIsOwned
<1>5. ThreadsAgree'
  BY <1>1, <1>2 DEF ThreadsAgree
<1>6. PublishedIsReleased' /\ OwnIsVisible' /\ BuildersHaveNotSeen'
  BY <1>1, <1>2 DEF PublishedIsReleased, OwnIsVisible, BuildersHaveNotSeen
<1> QED
  BY <1>3, <1>4, <1>5, <1>6

LEMMA StepExchangeLost ==
    ASSUME IInv, NEW c \in Caller, ExchangeLost(c)
    PROVE  IInv'
<1> USE SharedEngineAssumption DEF IInv, ExchangeLost, Acquire, Goto, TypeOK
<1>1. TypeOK'
  OBVIOUS
<1>2. EveryBoxIsOwned'
  BY DEF EveryBoxIsOwned
<1>3. ThreadsAgree'
  BY DEF ThreadsAgree, PublishedIsReleased
<1>4. PublishedIsReleased' /\ OwnIsVisible' /\ BuildersHaveNotSeen'
  BY DEF PublishedIsReleased, OwnIsVisible, BuildersHaveNotSeen
<1> QED
  BY <1>1, <1>2, <1>3, <1>4

\* What the loser frees is its own box, not the published one.
LEMMA StepDrop ==
    ASSUME IInv, NEW c \in Caller, Drop(c)
    PROVE  IInv'
<1> USE SharedEngineAssumption DEF IInv, Drop, Goto, TypeOK
<1>1. TypeOK'
  OBVIOUS
<1>2. EveryBoxIsOwned'
  <2>1. raw[c] # null /\ raw[c] # engine_ptr
    BY DEF EveryBoxIsOwned
  <2>2. {raw'[d] : d \in Caller} \cup {null}
          = ({raw[d] : d \in Caller} \ {raw[c]}) \cup {null}
    BY <2>1 DEF EveryBoxIsOwned
  <2>3. (allocated = ({engine_ptr} \cup {raw[d] : d \in Caller}) \ {null})'
    BY <2>1, <2>2 DEF EveryBoxIsOwned
  <2> QED
    BY <2>3 DEF EveryBoxIsOwned
<1>3. ThreadsAgree'
  BY DEF ThreadsAgree
<1>4. PublishedIsReleased' /\ OwnIsVisible' /\ BuildersHaveNotSeen'
  BY DEF PublishedIsReleased, OwnIsVisible, BuildersHaveNotSeen
<1> QED
  BY <1>1, <1>2, <1>3, <1>4

LEMMA StepReturn ==
    ASSUME IInv, NEW c \in Caller, Return(c)
    PROVE  IInv'
<1> USE SharedEngineAssumption DEF IInv, Return, Goto, TypeOK
<1>1. result[c] = engine_ptr /\ engine_ptr # null /\ observed[c]
  BY DEF ThreadsAgree
<1>2. TypeOK'
  BY <1>1
<1>3. EveryBoxIsOwned'
  BY DEF EveryBoxIsOwned
<1>4. ThreadsAgree'
  BY <1>1 DEF ThreadsAgree
<1>5. PublishedIsReleased' /\ OwnIsVisible' /\ BuildersHaveNotSeen'
  BY DEF PublishedIsReleased, OwnIsVisible, BuildersHaveNotSeen
<1> QED
  BY <1>2, <1>3, <1>4, <1>5

LEMMA StepIInv == IInv /\ [Next]_vars => IInv'
<1> SUFFICES ASSUME IInv, [Next]_vars PROVE IInv'
  OBVIOUS
<1>1. CASE UNCHANGED vars
  BY <1>1 DEF IInv, vars, locals, TypeOK, EveryBoxIsOwned, ThreadsAgree,
              PublishedIsReleased, OwnIsVisible, BuildersHaveNotSeen
<1>2. CASE Next
  <2> PICK c \in Caller : LoadFound(c) \/ LoadNull(c) \/ Continue(c)
    BY <1>2 DEF Next
  <2> QED
    BY StepLoadFound, StepLoadNull, StepBuild, StepExchangeWon, StepExchangeLost,
       StepDrop, StepReturn DEF Continue
<1> QED
  BY <1>1, <1>2

-----------------------------------------------------------------------------
\* The inductive invariant holds throughout every behaviour.
THEOREM Invariance == Spec => []IInv
BY InitIInv, StepIInv, PTL DEF Spec

\* A pointer variable of shared_engine is null exactly where the code has none.
THEOREM TypeCorrect == Spec => []TypeOK
<1>1. IInv => TypeOK
  BY DEF IInv
<1> QED
  BY <1>1, Invariance, PTL

\* No caller ever has a reference to a freed engine, nor to one whose
\* construction it is not bound to see.
THEOREM NoDanglingReference == Spec => []ReferencesAreValid
<1>1. IInv => ReferencesAreValid
  <2> SUFFICES ASSUME IInv, NEW c \in Caller, held[c] # {}
               PROVE  held[c] \subseteq allocated \cap visible[c]
    BY DEF ReferencesAreValid
  <2>1. engine_ptr # null /\ held[c] = {engine_ptr} /\ engine_ptr \in visible[c]
    BY DEF IInv, ThreadsAgree
  <2>2. engine_ptr \in allocated
    BY <2>1 DEF IInv, EveryBoxIsOwned
  <2> QED
    BY <2>1, <2>2
<1> QED
  BY <1>1, Invariance, PTL

\* All threads are given one engine.
THEOREM Singleton == Spec => []OneEngine
<1>1. IInv => OneEngine
  BY DEF IInv, ThreadsAgree, OneEngine
<1> QED
  BY <1>1, Invariance, PTL

\* No box leaks and none has two owners.
THEOREM NoLeak == Spec => []EveryBoxIsOwned
<1>1. IInv => EveryBoxIsOwned
  BY DEF IInv
<1> QED
  BY <1>1, Invariance, PTL

\* A thread that has the engine never builds another.
THEOREM BuildsOnlyWithoutEngine == Spec => BuildsBeforeFirstReturn
<1>1. IInv => \A c \in Caller : Build(c) => held[c] = {}
  BY DEF IInv, ThreadsAgree, Build
<1> QED
  BY <1>1, Invariance, PTL DEF BuildsBeforeFirstReturn

\* shared_engine implements a value settled once: ENGINE_PTR is the value, the
\* exchange that wins settles it, and every return hands it out.
THEOREM Refinement == Spec => ImplementsOnceValue
<1>1. Init => Once!Init
  BY DEF Init, Once!Init
<1>2. IInv /\ [Next]_vars => [Once!Next]_<<engine_ptr, held>>
  <2> SUFFICES ASSUME IInv, [Next]_vars PROVE [Once!Next]_<<engine_ptr, held>>
    OBVIOUS
  <2>1. CASE UNCHANGED vars
    BY <2>1 DEF vars
  <2>2. CASE Next
    <3> PICK c \in Caller : LoadFound(c) \/ LoadNull(c) \/ Continue(c)
      BY <2>2 DEF Next
    <3>1. CASE LoadFound(c) \/ LoadNull(c) \/ Build(c) \/ ExchangeLost(c) \/ Drop(c)
      BY <3>1 DEF LoadFound, LoadNull, Build, ExchangeLost, Drop
    <3>2. CASE ExchangeWon(c)
      <4>1. raw[c] \in Box
        BY <3>2 DEF IInv, TypeOK, ExchangeWon
      <4>2. Once!Settle
        BY <3>2, <4>1 DEF ExchangeWon, Once!Settle
      <4> QED
        BY <4>2 DEF Once!Next
    <3>3. CASE Return(c)
      <4>1. result[c] = engine_ptr /\ engine_ptr # null
        BY <3>3 DEF IInv, ThreadsAgree, Return
      <4>2. Once!Get(c)
        BY <3>3, <4>1 DEF Return, Once!Get
      <4> QED
        BY <4>2 DEF Once!Next
    <3> QED
      BY <3>1, <3>2, <3>3 DEF Continue
  <2> QED
    BY <2>1, <2>2
<1> QED
  BY <1>1, <1>2, Invariance, PTL DEF Spec, ImplementsOnceValue, Once!Spec
=============================================================================
