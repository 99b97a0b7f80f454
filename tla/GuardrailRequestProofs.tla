----------------------- MODULE GuardrailRequestProofs -----------------------
(***************************************************************************)
(* Proofs about GuardrailRequest, for any calls, spans and bounds.         *)
(***************************************************************************)
EXTENDS GuardrailRequest, FiniteSetTheorems, TLAPS

(* What a call's payload, verdicts and claims have to do with each other.  *)
ScanInv(c) ==
    /\ pc[c] = "new" => attempt[c] = 0
    /\ sent[c] \subseteq acquitted[c] \cap Ambiguous
    /\ sent[c] # {} => pc[c] = "sent"
    /\ pc[c] = "scanned" /\ attempt[c] > 0 => work[c] \subseteq acquitted[c] \cap Ambiguous
    /\ pc[c] = "claiming" =>
          /\ Passes(c, decisions[c]) \subseteq acquitted[c]
          /\ claimed[c] = work[c] \ Passes(c, decisions[c])
    /\ pc[c] # "claiming" => claimed[c] = {}

(* What was waited comes out of the one deadline.                          *)
WaitInv(c) ==
    /\ armed[c] => waited[c] + left[c] <= WaitBudget
    /\ ~armed[c] => waited[c] = 0
    /\ pc[c] = "waiting" => armed[c]

TellInv(c) ==
    /\ newCounts[c] <=> told[c] # 0
    /\ redacted[c] <=> c \in cleaned

(* The flag is set by the first stage that reports a span as new, and the  *)
(* notice is in that stage's payload and in those that start from it.      *)
NoticeInv(c) ==
    /\ noticed[c] <=> told[c] # 0
    /\ told[c] <= attempt[c] + 1
    /\ dataNotes[c] = IF told[c] = 1 THEN 1 ELSE 0
    /\ pc[c] = "new" => told[c] = 0 /\ attempt[c] = 0
    /\ pc[c] \in Scanning => told[c] <= attempt[c] /\ notes[c] = dataNotes[c]
    /\ pc[c] \in {"scanned", "sent"} =>
          notes[c] = IF told[c] \in {1, attempt[c] + 1} THEN 1 ELSE 0

CallInv(c) == ScanInv(c) /\ WaitInv(c) /\ TellInv(c) /\ NoticeInv(c)

Inv == TypeOK /\ \A c \in Calls : CallInv(c)

(* The step leaves call c as it is.                                        *)
Frame(c) ==
    /\ pc'[c] = pc[c] /\ attempt'[c] = attempt[c] /\ work'[c] = work[c]
    /\ decisions'[c] = decisions[c] /\ armed'[c] = armed[c] /\ left'[c] = left[c]
    /\ newCounts'[c] = newCounts[c] /\ redacted'[c] = redacted[c]
    /\ acquitted'[c] = acquitted[c] /\ claimed'[c] = claimed[c] /\ sent'[c] = sent[c]
    /\ told'[c] = told[c]
    /\ dataNotes'[c] = dataNotes[c] /\ notes'[c] = notes[c] /\ noticed'[c] = noticed[c]
    /\ c \in cleaned' <=> c \in cleaned
    /\ waited'[c] = waited[c]

PCs == Scanning \cup Responding \cup {"new", "scanned", "sent", "failed", "ended"}

(* The steps of a call up to its response, and those of a streamed one.    *)
Request(c) ==
    \/ \E S \in (SUBSET Spans) \ {{}} : PreCall(c, S)
    \/ Deploy(c)
    \/ AwaitJudge(c)
    \/ WaitOver(c)
    \/ \E new \in BOOLEAN : Claimed(c, new)
    \/ RedactFails(c)
    \/ ScanFails(c)
    \/ Cancel(c)
    \/ Send(c)
    \/ DeploymentFails(c)

Stream(c) ==
    \/ \E own \in {0, 1} : Chunk(c, own) \/ TextDelta(c, own) \/ Completed(c, own)
    \/ StreamEnds(c)

-----------------------------------------------------------------------------
(* Registering a call and dropping the oldest entry.                       *)
LEMMA RegisteredCapped ==
  ASSUME NEW s \in Seq(Calls), NEW c \in Calls
  PROVE  /\ Registered(s, c) \in Seq(Calls)
         /\ Capped(Registered(s, c)) \in Seq(Calls)
         /\ Len(Registered(s, c)) \in {Len(s), Len(s) + 1}
         /\ c \in Elems(s) => Registered(s, c) = s
         /\ Len(Capped(Registered(s, c))) <= Len(s) \/ Len(Capped(Registered(s, c))) <= StateCap
         /\ c \in Elems(s) =>
               \/ Len(Capped(Registered(s, c))) = Len(s) - 1
               \/ Len(Capped(Registered(s, c))) <= StateCap
<1>1. /\ Registered(s, c) \in Seq(Calls)
      /\ Len(Registered(s, c)) \in {Len(s), Len(s) + 1}
      /\ c \in Elems(s) => Registered(s, c) = s
  BY DEF Registered
<1>2. ASSUME NEW t \in Seq(Calls)
      PROVE  /\ Capped(t) \in Seq(Calls)
             /\ Len(t) > StateCap => Len(Capped(t)) = Len(t) - 1
             /\ Len(t) <= StateCap => Len(Capped(t)) = Len(t)
  <2>1. Len(t) \in Nat /\ StateCap \in Nat
    BY RequestConstants
  <2>2. CASE Len(t) > StateCap
    <3>1. Capped(t) = Tail(t)
      BY <2>2 DEF Capped
    <3>2. t # <<>>
      BY <2>1, <2>2
    <3>3. Tail(t) \in Seq(Calls) /\ Len(Tail(t)) = Len(t) - 1
      BY <3>2
    <3>4. Capped(t) \in Seq(Calls) /\ Len(Capped(t)) = Len(t) - 1
      BY <3>1, <3>3
    <3> QED
      BY <2>1, <2>2, <3>4
  <2>3. CASE ~(Len(t) > StateCap)
    <3>1. Capped(t) = t
      BY <2>3 DEF Capped
    <3> QED
      BY <2>3, <3>1
  <2> QED
    BY <2>2, <2>3
<1> DEFINE t == Registered(s, c)
<1>3. /\ Capped(t) \in Seq(Calls)
      /\ Len(t) > StateCap => Len(Capped(t)) = Len(t) - 1
      /\ Len(t) <= StateCap => Len(Capped(t)) = Len(t)
  BY <1>1, <1>2
<1>4. Len(s) \in Nat /\ Len(t) \in Nat /\ StateCap \in Nat
  BY <1>1, RequestConstants
<1> QED
  BY <1>1, <1>3, <1>4

(* Retaining the call state changes callStates and kept alone.             *)
LEMMA RetainType ==
  ASSUME TypeOK, NEW c \in Calls, Retain(c)
  PROVE  callStates' \in Seq(Calls) /\ kept' \subseteq Calls
  BY RegisteredCapped DEF TypeOK, Retain

(* _process keeps the types of what it changes.                            *)
LEMMA ProcessType ==
  ASSUME TypeOK, NEW c \in Calls, NEW dec, NEW new \in BOOLEAN, Process(c, dec, new)
  PROVE  /\ callStates' \in Seq(Calls) /\ kept' \subseteq Calls
         /\ pc' \in [Calls -> PCs]
         /\ work' \in [Calls -> SUBSET Spans]
         /\ data' \in [Calls -> SUBSET Spans]
         /\ decisions' \in [Calls -> [Ambiguous -> Verdicts]]
         /\ newCounts' \in [Calls -> BOOLEAN] /\ redacted' \in [Calls -> BOOLEAN]
         /\ claimed' \in [Calls -> SUBSET Spans]
         /\ told' \in [Calls -> Nat] /\ cleaned' \subseteq Calls
         /\ dataNotes' \in [Calls -> Nat] /\ notes' \in [Calls -> Nat]
         /\ noticed' \in [Calls -> BOOLEAN]
<1>1. Retain(c)
  BY DEF Process
<1>2. callStates' \in Seq(Calls) /\ kept' \subseteq Calls
  BY <1>1, RetainType
<1>3. Passes(c, dec) \in SUBSET Spans
  BY DEF Passes, Spans
<1>4. work' \in [Calls -> SUBSET Spans] /\ data' \in [Calls -> SUBSET Spans]
  BY <1>3 DEF Process, TypeOK
<1>5. /\ pc' \in [Calls -> PCs]
      /\ decisions' \in [Calls -> [Ambiguous -> Verdicts]]
      /\ claimed' \in [Calls -> SUBSET Spans]
  BY DEF Process, TypeOK, PCs, Nothing, Verdicts
<1>6. newCounts' \in [Calls -> BOOLEAN] /\ redacted' \in [Calls -> BOOLEAN]
  BY DEF Process, TypeOK, Counts
<1>7. told' \in [Calls -> Nat] /\ cleaned' \subseteq Calls
  BY DEF Process, TypeOK
<1>8. AddModelNotice(c, new)
  BY DEF Process
<1>9. notes' \in [Calls -> Nat] /\ noticed' \in [Calls -> BOOLEAN]
  BY <1>8 DEF AddModelNotice, TypeOK
<1>10. dataNotes' \in [Calls -> Nat]
  BY <1>8, <1>9 DEF AddModelNotice, TypeOK
<1> QED
  BY <1>2, <1>4, <1>5, <1>6, <1>7, <1>9, <1>10

(* The two ways to go on once the verdicts are pinned.                     *)
LEMMA DecideCases ==
  ASSUME TypeOK, NEW c \in Calls, Decide(c)
  PROVE  \E dec \in [Ambiguous -> Verdicts] :
            /\ acquitted' = [acquitted EXCEPT ![c] = Passes(c, dec)]
            /\ \/ /\ claimed' = [claimed EXCEPT ![c] = work[c] \ Passes(c, dec)]
                  /\ pc' = [pc EXCEPT ![c] = "claiming"]
                  /\ decisions' = [decisions EXCEPT ![c] = dec]
                  /\ UNCHANGED <<callStates, work, data, newCounts, redacted, notices, told,
                                 cleaned, kept>>
               \/ work[c] = Passes(c, dec) /\ Process(c, dec, FALSE)
<1> DEFINE dec == [d \in Ambiguous |-> IF d \in work[c] THEN verdict[d] ELSE "none"]
<1>1. dec \in [Ambiguous -> Verdicts]
  BY DEF TypeOK, Verdicts
<1>2. Passes(c, dec) = {d \in work[c] \cap Ambiguous : verdict[d] = "pass"}
  BY DEF Passes
<1>3. Passes(c, dec) \subseteq work[c]
  BY DEF Passes
<1> QED
  BY <1>1, <1>2, <1>3 DEF Decide

(* So does the decision before it.                                         *)
LEMMA DecideType ==
  ASSUME TypeOK, NEW c \in Calls, Decide(c)
  PROVE  /\ callStates' \in Seq(Calls) /\ kept' \subseteq Calls
         /\ pc' \in [Calls -> PCs]
         /\ work' \in [Calls -> SUBSET Spans]
         /\ data' \in [Calls -> SUBSET Spans]
         /\ decisions' \in [Calls -> [Ambiguous -> Verdicts]]
         /\ newCounts' \in [Calls -> BOOLEAN] /\ redacted' \in [Calls -> BOOLEAN]
         /\ acquitted' \in [Calls -> SUBSET Spans] /\ claimed' \in [Calls -> SUBSET Spans]
         /\ told' \in [Calls -> Nat] /\ cleaned' \subseteq Calls
         /\ dataNotes' \in [Calls -> Nat] /\ notes' \in [Calls -> Nat]
         /\ noticed' \in [Calls -> BOOLEAN]
<1>1. PICK dec \in [Ambiguous -> Verdicts] :
            /\ acquitted' = [acquitted EXCEPT ![c] = Passes(c, dec)]
            /\ \/ /\ claimed' = [claimed EXCEPT ![c] = work[c] \ Passes(c, dec)]
                  /\ pc' = [pc EXCEPT ![c] = "claiming"]
                  /\ decisions' = [decisions EXCEPT ![c] = dec]
                  /\ UNCHANGED <<callStates, work, data, newCounts, redacted, notices, told,
                                 cleaned, kept>>
               \/ work[c] = Passes(c, dec) /\ Process(c, dec, FALSE)
  BY DecideCases
<1>2. Passes(c, dec) \in SUBSET Spans
  BY DEF Passes, Spans
<1>3. acquitted' \in [Calls -> SUBSET Spans]
  BY <1>1, <1>2 DEF TypeOK
<1>4. CASE Process(c, dec, FALSE)
  BY <1>3, <1>4, ProcessType
<1>5. CASE /\ claimed' = [claimed EXCEPT ![c] = work[c] \ Passes(c, dec)]
           /\ pc' = [pc EXCEPT ![c] = "claiming"]
           /\ decisions' = [decisions EXCEPT ![c] = dec]
           /\ UNCHANGED <<callStates, work, data, newCounts, redacted, notices, told,
                          cleaned, kept>>
  <2>1. work[c] \ Passes(c, dec) \in SUBSET Spans
    BY DEF TypeOK
  <2>2. claimed' \in [Calls -> SUBSET Spans]
    BY <1>5, <2>1 DEF TypeOK
  <2>3. pc' \in [Calls -> PCs]
    BY <1>5 DEF TypeOK, PCs, Scanning
  <2>4. decisions' \in [Calls -> [Ambiguous -> Verdicts]]
    BY <1>5 DEF TypeOK
  <2>5. /\ callStates' \in Seq(Calls) /\ kept' \subseteq Calls
        /\ work' \in [Calls -> SUBSET Spans] /\ data' \in [Calls -> SUBSET Spans]
        /\ newCounts' \in [Calls -> BOOLEAN] /\ redacted' \in [Calls -> BOOLEAN]
        /\ told' \in [Calls -> Nat] /\ cleaned' \subseteq Calls
        /\ dataNotes' \in [Calls -> Nat] /\ notes' \in [Calls -> Nat]
        /\ noticed' \in [Calls -> BOOLEAN]
    BY <1>5 DEF TypeOK, notices
  <2> QED
    BY <1>3, <2>2, <2>3, <2>4, <2>5
<1> QED
  BY <1>1, <1>4, <1>5

(* A step of a streamed response changes the place of the call, and what   *)
(* its client has got.                                                     *)
LEMMA StreamCases ==
  ASSUME TypeOK, NEW c \in Calls, Stream(c)
  PROVE  /\ pc[c] \in {"chunks", "events"}
         /\ \E s \in Responding \cup {"ended"} : pc' = [pc EXCEPT ![c] = s]
         /\ UNCHANGED <<verdict, callStates, attempt, data, work, dataNotes, notes,
                        decisions, armed, left, newCounts, redacted, noticed, history>>
<1>1. pc = [pc EXCEPT ![c] = pc[c]]
  BY DEF TypeOK
<1>2. pc[c] \in {"chunks", "events"} /\ UNCHANGED callVars
  BY DEF Stream, Chunk, TextDelta, FirstText, Completed, StreamEnds
<1>3. \/ pc' = pc
      \/ pc' = [pc EXCEPT ![c] = "answered"]
      \/ pc' = [pc EXCEPT ![c] = "ended"]
  BY DEF Stream, Chunk, TextDelta, FirstText, Completed, StreamEnds
<1>4. \E s \in Responding \cup {"ended"} : pc' = [pc EXCEPT ![c] = s]
  BY <1>1, <1>2, <1>3 DEF Responding
<1> QED
  BY <1>2, <1>4 DEF callVars, stateVars

(* No stage of the request touches the response.                           *)
LEMMA RequestQuiet ==
  ASSUME NEW c \in Calls, Request(c)
  PROVE  UNCHANGED <<pending, body, reply>>
  BY DEF Request, PreCall, Deploy, AwaitJudge, WaitOver, Claimed, RedactFails, ScanFails,
         Cancel, CutShort, Abandon, Send, DeploymentFails, replyVars

(* Whatever a step does to what a client has got, it has got at most one   *)
(* notice.                                                                 *)
LEMMA ReplyStep == TypeOK /\ [Next]_vars => ReplyTypes'
<1> SUFFICES ASSUME TypeOK, [Next]_vars
             PROVE  ReplyTypes'
  OBVIOUS
<1>0. ReplyTypes
  BY DEF TypeOK
<1>1. CASE UNCHANGED <<pending, body, reply>>
  BY <1>0, <1>1 DEF ReplyTypes
<1>2. ASSUME NEW c \in Calls, NEW own \in {0, 1}, Delivered(c, own)
      PROVE  body' \in [Calls -> BOOLEAN] /\ reply' \in [Calls -> {0, 1}]
  BY <1>0, <1>2 DEF ReplyTypes, Delivered, Prepended
<1>3. ASSUME NEW c \in Calls, NEW own \in {0, 1}, Respond(c, own)
      PROVE  ReplyTypes'
  BY <1>0, <1>2, <1>3 DEF ReplyTypes, Respond
<1>4. ASSUME NEW c \in Calls, NEW s, StreamStarts(c, s), newCounts \in [Calls -> BOOLEAN]
      PROVE  ReplyTypes'
  BY <1>0, <1>4 DEF ReplyTypes, StreamStarts, ResponseNotice
<1>5. ASSUME NEW c \in Calls, NEW own \in {0, 1}, FirstText(c, own)
      PROVE  ReplyTypes'
  BY <1>0, <1>5 DEF ReplyTypes, FirstText, Prepended
<1>6. ASSUME NEW c \in Calls, NEW own \in {0, 1}, Completed(c, own)
      PROVE  ReplyTypes'
  BY <1>0, <1>2, <1>6 DEF ReplyTypes, Completed
<1>7. ASSUME NEW c \in Calls, StreamEnds(c)
      PROVE  ReplyTypes'
  BY <1>0, <1>7 DEF ReplyTypes, StreamEnds
<1>8. ASSUME NEW c \in Calls, Stream(c)
      PROVE  ReplyTypes'
  BY <1>5, <1>6, <1>7, <1>8 DEF Stream, Chunk, TextDelta
<1>9. CASE Tick \/ UNCHANGED vars \/ \E d \in Ambiguous, v \in Verdicts : Judge(d, v)
  BY <1>1, <1>9 DEF Tick, Judge, vars, replyVars
<1>10. newCounts \in [Calls -> BOOLEAN]
  BY DEF TypeOK
<1> QED
  BY <1>1, <1>3, <1>4, <1>8, <1>9, <1>10, RequestQuiet DEF Next, Request, Stream

(* Every step preserves the type invariant.                                *)
LEMMA TypeStep == Inv /\ [Next]_vars => TypeOK'
<1> SUFFICES ASSUME Inv, [Next]_vars
             PROVE  TypeOK'
  OBVIOUS
<1>0. TypeOK /\ ReplyTypes'
  BY ReplyStep DEF Inv
<1>1. ASSUME NEW c \in Calls, NEW S \in (SUBSET Spans) \ {{}}, PreCall(c, S)
      PROVE  TypeOK'
  <2>1. callStates' \in Seq(Calls)
    <3>1. /\ Registered(callStates, c) \in Seq(Calls)
          /\ Capped(Registered(callStates, c)) \in Seq(Calls)
      BY <1>0, RegisteredCapped DEF TypeOK
    <3> QED
      BY <1>1, <3>1 DEF PreCall
  <2>2. S \in SUBSET Spans /\ data' = [data EXCEPT ![c] = S] /\ work' = [work EXCEPT ![c] = S]
    BY <1>1 DEF PreCall, Start
  <2>3. pc' \in [Calls -> PCs] /\ acquitted' = [acquitted EXCEPT ![c] = {}]
    BY <1>0, <1>1 DEF PreCall, Start, TypeOK, PCs, Scanning
  <2>4. UNCHANGED <<verdict, attempt, dataNotes, stateVars, claimed, sent, told, cleaned,
                    waited, kept>>
    BY <1>1 DEF PreCall
  <2>5. notes' \in [Calls -> Nat]
    <3>1. notes' = [notes EXCEPT ![c] = 0]
      BY <1>1 DEF PreCall, Start
    <3> QED
      BY <1>0, <3>1 DEF TypeOK
  <2>6. /\ data' \in [Calls -> SUBSET Spans] /\ work' \in [Calls -> SUBSET Spans]
        /\ acquitted' \in [Calls -> SUBSET Spans]
    BY <1>0, <2>2, <2>3 DEF TypeOK
  <2>7. /\ UNCHANGED <<verdict, attempt, dataNotes, claimed, sent, told, cleaned, waited, kept>>
        /\ UNCHANGED <<decisions, armed, left, newCounts, redacted, noticed>>
    BY <2>4 DEF stateVars
  <2> QED
    BY <1>0, <2>1, <2>3, <2>5, <2>6, <2>7 DEF TypeOK, PCs
<1>2. ASSUME NEW c \in Calls, Deploy(c)
      PROVE  TypeOK'
  <2>1. callStates \in Seq(Calls) /\ Capped(Registered(callStates, c)) \in Seq(Calls)
    BY <1>0, RegisteredCapped DEF TypeOK
  <2>2. callStates' \in Seq(Calls)
    BY <1>2, <2>1 DEF Deploy
  <2>3. attempt[c] \in Nat /\ Attempts[c] \in Nat /\ attempt[c] < Attempts[c]
        /\ attempt' = [attempt EXCEPT ![c] = attempt[c] + 1]
    BY <1>0, <1>2, RequestConstants DEF TypeOK, Deploy
  <2>4. attempt' \in [Calls -> Nat] /\ \A d \in Calls : attempt'[d] <= Attempts[d]
    BY <1>0, <2>3 DEF TypeOK
  <2>5. /\ work' = [work EXCEPT ![c] = data[c]] /\ data[c] \in SUBSET Spans
        /\ acquitted' = [acquitted EXCEPT ![c] = {}]
        /\ pc' = [pc EXCEPT ![c] = "loading"] \/ pc' = [pc EXCEPT ![c] = "sent"]
    BY <1>0, <1>2 DEF TypeOK, Deploy, Start
  <2>6. UNCHANGED <<verdict, data, dataNotes, stateVars, claimed, sent, told, cleaned,
                    waited, kept>>
    BY <1>2 DEF Deploy
  <2>7. notes' \in [Calls -> Nat]
    <3>1. notes' = [notes EXCEPT ![c] = dataNotes[c]]
      BY <1>2 DEF Deploy, Start
    <3>2. dataNotes[c] \in Nat
      BY <1>0 DEF TypeOK
    <3> QED
      BY <1>0, <3>1, <3>2 DEF TypeOK
  <2>8. /\ pc' \in [Calls -> PCs]
        /\ work' \in [Calls -> SUBSET Spans] /\ acquitted' \in [Calls -> SUBSET Spans]
    BY <1>0, <2>5 DEF TypeOK, PCs, Scanning
  <2>9. /\ UNCHANGED <<verdict, data, dataNotes, claimed, sent, told, cleaned, waited, kept>>
        /\ UNCHANGED <<decisions, armed, left, newCounts, redacted, noticed>>
    BY <2>6 DEF stateVars
  <2> QED
    BY <1>0, <2>2, <2>4, <2>7, <2>8, <2>9 DEF TypeOK, PCs
<1>3. ASSUME NEW c \in Calls, AwaitJudge(c)
      PROVE  TypeOK'
  <2>1. armed' \in [Calls -> BOOLEAN] /\ left' = left
    BY <1>0, <1>3 DEF TypeOK, AwaitJudge, Arm
  <2>2. CASE Decide(c)
    BY <1>0, <1>3, <2>1, <2>2, DecideType DEF TypeOK, AwaitJudge, PCs
  <2>3. CASE ~Decide(c)
    BY <1>0, <1>3, <2>1, <2>3 DEF TypeOK, AwaitJudge, Scanning, notices
  <2> QED
    BY <2>2, <2>3
<1>4. ASSUME NEW c \in Calls, WaitOver(c)
      PROVE  TypeOK'
  BY <1>0, <1>4, DecideType DEF TypeOK, WaitOver, PCs
<1>5. ASSUME NEW c \in Calls, NEW new \in BOOLEAN, Claimed(c, new)
      PROVE  TypeOK'
  <2>1. Process(c, decisions[c], new)
    BY <1>5 DEF Claimed
  <2>2. UNCHANGED <<verdict, attempt, armed, left, acquitted, sent, waited>>
    BY <1>5 DEF Claimed
  <2>3. /\ callStates' \in Seq(Calls) /\ kept' \subseteq Calls
        /\ pc' \in [Calls -> PCs]
        /\ work' \in [Calls -> SUBSET Spans]
        /\ data' \in [Calls -> SUBSET Spans]
        /\ decisions' \in [Calls -> [Ambiguous -> Verdicts]]
        /\ newCounts' \in [Calls -> BOOLEAN] /\ redacted' \in [Calls -> BOOLEAN]
        /\ claimed' \in [Calls -> SUBSET Spans]
        /\ told' \in [Calls -> Nat] /\ cleaned' \subseteq Calls
        /\ dataNotes' \in [Calls -> Nat] /\ notes' \in [Calls -> Nat]
        /\ noticed' \in [Calls -> BOOLEAN]
    BY <1>0, <2>1, ProcessType
  <2> QED
    BY <1>0, <2>2, <2>3 DEF TypeOK, PCs
<1>6. ASSUME NEW c \in Calls, RedactFails(c)
      PROVE  TypeOK'
  BY <1>0, <1>6, RetainType DEF TypeOK, RedactFails, Abandon, Nothing, Verdicts
<1>7. ASSUME NEW c \in Calls, NEW s \in {"failed", "ended"}, CutShort(c, s)
      PROVE  TypeOK'
  BY <1>0, <1>7 DEF TypeOK, CutShort, Abandon, Nothing, Verdicts
<1>8. ASSUME NEW c \in Calls, Send(c)
      PROVE  TypeOK'
  BY <1>0, <1>8 DEF TypeOK, Send, stateVars
<1>9. ASSUME NEW c \in Calls, NEW s \in Responding \cup {"failed"}, Outcome(c, s)
      PROVE  TypeOK'
  BY <1>0, <1>9 DEF TypeOK, Outcome, stateVars
<1>13. ASSUME NEW c \in Calls, Stream(c)
       PROVE  TypeOK'
  <2>1. PICK s \in Responding \cup {"ended"} : pc' = [pc EXCEPT ![c] = s]
    BY <1>0, <1>13, StreamCases
  <2>2. pc' \in [Calls -> PCs]
    BY <1>0, <2>1 DEF TypeOK, PCs
  <2>3. /\ UNCHANGED <<verdict, callStates, attempt, data, work, dataNotes, notes,
                       decisions, armed, left, newCounts, redacted, noticed>>
        /\ UNCHANGED <<acquitted, claimed, sent, told, cleaned, waited, kept>>
    BY <1>0, <1>13, StreamCases DEF history
  <2> QED
    BY <1>0, <2>2, <2>3 DEF TypeOK, PCs
<1>10. ASSUME NEW d \in Ambiguous, NEW v \in Verdicts, Judge(d, v)
       PROVE  TypeOK'
  BY <1>0, <1>10 DEF TypeOK, Judge, stateVars, history
<1>11. CASE Tick
  <2>1. left' \in [Calls -> 0..WaitBudget]
    BY <1>0, <1>11, RequestConstants DEF TypeOK, Tick, Remaining
  <2>2. waited' \in [Calls -> Nat]
    BY <1>0, <1>11 DEF TypeOK, Tick
  <2>3. UNCHANGED <<verdict, callStates, pc, attempt, data, work, decisions, armed, newCounts,
                    redacted, dataNotes, notes, noticed, acquitted, claimed, sent, told,
                    cleaned, kept>>
    BY <1>11 DEF Tick, notices
  <2> QED
    BY <1>0, <2>1, <2>2, <2>3 DEF TypeOK
<1>12. CASE UNCHANGED vars
  BY <1>0, <1>12 DEF TypeOK, vars, stateVars, history
<1> QED
  BY <1>1, <1>2, <1>3, <1>4, <1>5, <1>6, <1>7, <1>8, <1>9, <1>10, <1>11, <1>12, <1>13
     DEF Next, ScanFails, Cancel, DeploymentFails, Respond, StreamStarts, Stream, Responding

(* A step that is not about c keeps the invariant of c.                    *)
LEMMA FrameInv ==
  ASSUME NEW c \in Calls, CallInv(c), Frame(c)
  PROVE  CallInv(c)'
<1>1. Passes(c, decisions[c])' = Passes(c, decisions[c])
  BY DEF Frame, Passes
<1>2. ScanInv(c)'
  BY <1>1 DEF Frame, ScanInv, CallInv
<1>3. WaitInv(c)'
  BY DEF Frame, WaitInv, CallInv
<1>4. TellInv(c)'
  BY DEF Frame, TellInv, CallInv
<1>5. NoticeInv(c)'
  BY DEF Frame, NoticeInv, CallInv
<1> QED
  BY <1>2, <1>3, <1>4, <1>5 DEF CallInv

(* A step of call c keeps CallInv if it does so for c and leaves the       *)
(* others as they are.                                                     *)
LEMMA OneCall ==
  ASSUME Inv, NEW c \in Calls, CallInv(c)', \A e \in Calls \ {c} : Frame(e)
  PROVE  \A e \in Calls : CallInv(e)'
<1> SUFFICES ASSUME NEW e \in Calls
             PROVE  CallInv(e)'
  OBVIOUS
<1>1. CASE e = c
  BY <1>1
<1>2. CASE e # c
  BY <1>2, FrameInv DEF Inv
<1> QED
  BY <1>1, <1>2

(* A stage that ends on a redacted payload keeps the record of notices.    *)
LEMMA ProcessNotice ==
  ASSUME Inv, NEW c \in Calls, NEW dec, NEW new \in BOOLEAN, Process(c, dec, new),
         pc[c] \in Scanning, UNCHANGED attempt
  PROVE  /\ NoticeInv(c)'
         /\ \A e \in Calls \ {c} :
               /\ told'[e] = told[e] /\ dataNotes'[e] = dataNotes[e]
               /\ notes'[e] = notes[e] /\ noticed'[e] = noticed[e]
<1>1. TypeOK /\ NoticeInv(c) /\ AddModelNotice(c, new)
  BY DEF Inv, CallInv, Process
<1>2. /\ told[c] \in Nat /\ attempt[c] \in Nat /\ attempt'[c] = attempt[c]
      /\ notes[c] \in Nat /\ dataNotes[c] \in Nat
  BY <1>1 DEF TypeOK
<1>3. pc'[c] = "scanned" /\ "scanned" \notin Scanning
  BY <1>1 DEF Process, TypeOK, Scanning
<1>4. /\ told'[c] = IF new /\ told[c] = 0 THEN attempt[c] + 1 ELSE told[c]
      /\ noticed'[c] <=> noticed[c] \/ new
      /\ notes'[c] = IF new /\ ~noticed[c] THEN notes[c] + 1 ELSE notes[c]
  BY <1>1 DEF Process, AddModelNotice, Adds, TypeOK
<1>5. dataNotes'[c] = IF attempt[c] = 0 THEN notes'[c] ELSE dataNotes[c]
  BY <1>1 DEF AddModelNotice, TypeOK
<1>6. /\ noticed[c] <=> told[c] # 0
      /\ told[c] <= attempt[c]
      /\ notes[c] = dataNotes[c]
      /\ dataNotes[c] = IF told[c] = 1 THEN 1 ELSE 0
  BY <1>1 DEF NoticeInv
<1>7. /\ noticed'[c] <=> told'[c] # 0
      /\ told'[c] <= attempt'[c] + 1
  BY <1>2, <1>4, <1>6
<1>8. notes'[c] = IF told'[c] \in {1, attempt'[c] + 1} THEN 1 ELSE 0
  BY <1>2, <1>4, <1>6
<1>9. dataNotes'[c] = IF told'[c] = 1 THEN 1 ELSE 0
  BY <1>2, <1>4, <1>5, <1>6
<1>10. NoticeInv(c)'
  BY <1>3, <1>7, <1>8, <1>9 DEF NoticeInv
<1>11. ASSUME NEW e \in Calls \ {c}
       PROVE  /\ told'[e] = told[e] /\ dataNotes'[e] = dataNotes[e]
              /\ notes'[e] = notes[e] /\ noticed'[e] = noticed[e]
  BY <1>1 DEF Process, AddModelNotice, TypeOK
<1> QED
  BY <1>10, <1>11

(* Redacting keeps the record of what was redacted and reported, and if    *)
(* the verdicts were pinned before, the payload is acquitted.              *)
LEMMA ProcessCall ==
  ASSUME Inv, NEW c \in Calls, NEW dec, NEW new \in BOOLEAN, Process(c, dec, new),
         pc[c] \in Scanning, UNCHANGED attempt
  PROVE  /\ pc'[c] = "scanned" /\ work'[c] = Passes(c, dec) /\ claimed'[c] = {}
         /\ TellInv(c)' /\ NoticeInv(c)'
         /\ \A e \in Calls \ {c} :
               /\ pc'[e] = pc[e] /\ work'[e] = work[e] /\ decisions'[e] = decisions[e]
               /\ newCounts'[e] = newCounts[e] /\ redacted'[e] = redacted[e]
               /\ claimed'[e] = claimed[e]
               /\ told'[e] = told[e] /\ dataNotes'[e] = dataNotes[e]
               /\ notes'[e] = notes[e] /\ noticed'[e] = noticed[e]
               /\ e \in cleaned' <=> e \in cleaned
<1>1. pc'[c] = "scanned" /\ work'[c] = Passes(c, dec) /\ claimed'[c] = {}
  BY DEF Inv, TypeOK, Process
<1>2. /\ newCounts'[c] <=> new \/ newCounts[c]
      /\ told'[c] # 0 <=> new \/ told[c] # 0
  <2>1. TypeOK /\ attempt[c] \in Nat /\ told[c] \in Nat
    BY DEF Inv, TypeOK
  <2>2. told'[c] = IF new /\ told[c] = 0 THEN attempt[c] + 1 ELSE told[c]
    BY <2>1 DEF TypeOK, Process
  <2> QED
    BY <2>1, <2>2 DEF TypeOK, Process, Counts
<1>3. /\ redacted'[c] <=> redacted[c] \/ work[c] # Passes(c, dec)
      /\ c \in cleaned' <=> c \in cleaned \/ work[c] # Passes(c, dec)
  BY DEF Inv, TypeOK, Process
<1>4. TellInv(c)'
  BY <1>2, <1>3 DEF Inv, CallInv, TellInv
<1> QED
  BY <1>1, <1>4, ProcessNotice DEF Inv, TypeOK, Process

(* A decision keeps the invariant of every call.                           *)
LEMMA DecideCall ==
  ASSUME Inv, NEW c \in Calls, Decide(c), UNCHANGED <<attempt, sent, waited>>,
         pc[c] \in {"loading", "waiting"}, WaitInv(c)',
         \A e \in Calls \ {c} : armed'[e] = armed[e] /\ left'[e] = left[e]
  PROVE  \A e \in Calls : CallInv(e)'
<1>1. PICK dec \in [Ambiguous -> Verdicts] :
            /\ acquitted' = [acquitted EXCEPT ![c] = Passes(c, dec)]
            /\ \/ /\ claimed' = [claimed EXCEPT ![c] = work[c] \ Passes(c, dec)]
                  /\ pc' = [pc EXCEPT ![c] = "claiming"]
                  /\ decisions' = [decisions EXCEPT ![c] = dec]
                  /\ UNCHANGED <<callStates, work, data, newCounts, redacted, notices, told,
                                 cleaned, kept>>
               \/ work[c] = Passes(c, dec) /\ Process(c, dec, FALSE)
  BY DecideCases DEF Inv
<1>2. Passes(c, dec) \subseteq Ambiguous
  BY DEF Passes
<1>3. /\ acquitted'[c] = Passes(c, dec)
      /\ \A e \in Calls \ {c} : acquitted'[e] = acquitted[e]
  BY <1>1 DEF Inv, TypeOK
<1>4. sent[c] = {} /\ sent'[c] = {}
  BY DEF Inv, CallInv, ScanInv
<1>5. CASE Process(c, dec, FALSE)
  <2>1. /\ pc'[c] = "scanned" /\ work'[c] = Passes(c, dec) /\ claimed'[c] = {}
        /\ TellInv(c)' /\ NoticeInv(c)'
        /\ \A e \in Calls \ {c} :
              /\ pc'[e] = pc[e] /\ work'[e] = work[e] /\ decisions'[e] = decisions[e]
              /\ newCounts'[e] = newCounts[e] /\ redacted'[e] = redacted[e]
              /\ claimed'[e] = claimed[e]
              /\ told'[e] = told[e] /\ dataNotes'[e] = dataNotes[e]
              /\ notes'[e] = notes[e] /\ noticed'[e] = noticed[e]
              /\ e \in cleaned' <=> e \in cleaned
    BY <1>5, ProcessCall DEF Scanning
  <2>2. ScanInv(c)'
    BY <1>2, <1>3, <1>4, <2>1 DEF ScanInv
  <2>3. \A e \in Calls \ {c} : Frame(e)
    BY <1>3, <2>1 DEF Frame
  <2>4. CallInv(c)'
    BY <2>1, <2>2 DEF CallInv
  <2> QED
    BY <2>3, <2>4, OneCall
<1>6. CASE /\ claimed' = [claimed EXCEPT ![c] = work[c] \ Passes(c, dec)]
           /\ pc' = [pc EXCEPT ![c] = "claiming"]
           /\ decisions' = [decisions EXCEPT ![c] = dec]
           /\ UNCHANGED <<callStates, work, data, newCounts, redacted, notices, told,
                          cleaned, kept>>
  <2>1. /\ pc'[c] = "claiming" /\ decisions'[c] = dec /\ work'[c] = work[c]
        /\ claimed'[c] = work[c] \ Passes(c, dec)
    BY <1>6 DEF Inv, TypeOK
  <2>2. Passes(c, decisions[c])' = Passes(c, dec)
    BY <2>1 DEF Passes
  <2>3. ScanInv(c)'
    BY <1>2, <1>3, <1>4, <2>1, <2>2 DEF ScanInv
  <2>4. TellInv(c)'
    BY <1>6 DEF Inv, CallInv, TellInv
  <2>7. NoticeInv(c)'
    BY <1>6, <2>1 DEF Inv, CallInv, NoticeInv, notices, Scanning
  <2>5. \A e \in Calls \ {c} : Frame(e)
    BY <1>3, <1>6 DEF Frame, Inv, TypeOK, notices
  <2>6. CallInv(c)'
    BY <2>3, <2>4, <2>7 DEF CallInv
  <2> QED
    BY <2>5, <2>6, OneCall
<1> QED
  BY <1>1, <1>5, <1>6

(* Every step keeps the invariant of every call.                           *)
LEMMA CallStep == Inv /\ [Next]_vars => \A c \in Calls : CallInv(c)'
<1> SUFFICES ASSUME Inv, [Next]_vars
             PROVE  \A c \in Calls : CallInv(c)'
  OBVIOUS
<1>0. TypeOK /\ \A c \in Calls : CallInv(c)
  BY DEF Inv
<1>1. ASSUME NEW c \in Calls, NEW S \in (SUBSET Spans) \ {{}}, PreCall(c, S)
      PROVE  \A e \in Calls : CallInv(e)'
  <2>1. /\ pc[c] = "new" /\ pc'[c] \in {"loading", "scanned"}
        /\ attempt'[c] = attempt[c] /\ sent'[c] = sent[c] /\ claimed'[c] = claimed[c]
    BY <1>0, <1>1 DEF TypeOK, PreCall, Start
  <2>2. ScanInv(c)'
    <3>1. attempt'[c] = 0 /\ sent'[c] = {} /\ claimed'[c] = {}
      BY <1>0, <2>1 DEF CallInv, ScanInv
    <3>2. ~(attempt'[c] > 0)
      BY <3>1
    <3> QED
      BY <2>1, <3>1, <3>2 DEF ScanInv
  <2>3. WaitInv(c)' /\ TellInv(c)'
    BY <1>0, <1>1, <2>1 DEF CallInv, WaitInv, TellInv, PreCall, stateVars
  <2>6. NoticeInv(c)'
    <3>1. /\ told'[c] = told[c] /\ dataNotes'[c] = dataNotes[c] /\ noticed'[c] = noticed[c]
          /\ notes'[c] = 0
      BY <1>0, <1>1 DEF TypeOK, PreCall, Start, stateVars
    <3>2. told[c] = 0 /\ attempt[c] = 0 /\ dataNotes[c] = 0
      BY <1>0, <2>1 DEF CallInv, NoticeInv
    <3>3. pc'[c] # "new"
      BY <2>1
    <3> QED
      BY <1>0, <2>1, <3>1, <3>2, <3>3 DEF CallInv, NoticeInv
  <2>4. \A e \in Calls \ {c} : Frame(e)
    BY <1>0, <1>1 DEF TypeOK, PreCall, Start, Frame, stateVars
  <2>5. CallInv(c)'
    BY <2>2, <2>3, <2>6 DEF CallInv
  <2> QED
    BY <2>4, <2>5, OneCall
<1>2. ASSUME NEW c \in Calls, Deploy(c)
      PROVE  \A e \in Calls : CallInv(e)'
  <2>1. /\ pc[c] \in {"scanned", "failed"} /\ pc'[c] \in {"loading", "sent"}
        /\ sent'[c] = sent[c] /\ claimed'[c] = claimed[c]
    BY <1>0, <1>2 DEF TypeOK, Deploy, Start
  <2>2. ScanInv(c)'
    BY <1>0, <2>1 DEF CallInv, ScanInv
  <2>3. WaitInv(c)' /\ TellInv(c)'
    BY <1>0, <1>2, <2>1 DEF CallInv, WaitInv, TellInv, Deploy, stateVars
  <2>6. NoticeInv(c)'
    <3>1. /\ told'[c] = told[c] /\ dataNotes'[c] = dataNotes[c] /\ noticed'[c] = noticed[c]
          /\ notes'[c] = dataNotes[c] /\ attempt'[c] = attempt[c] + 1
      BY <1>0, <1>2 DEF TypeOK, Deploy, Start, stateVars
    <3>2. told[c] \in Nat /\ attempt[c] \in Nat /\ told[c] <= attempt[c] + 1
      BY <1>0 DEF TypeOK, CallInv, NoticeInv
    <3>3. told[c] <= attempt'[c] /\ told[c] <= attempt'[c] + 1 /\ told[c] # attempt'[c] + 1
      BY <3>1, <3>2
    <3>4. pc'[c] # "new" /\ pc'[c] \in Scanning \cup {"sent"}
      BY <2>1 DEF Scanning
    <3> QED
      BY <1>0, <3>1, <3>3, <3>4 DEF CallInv, NoticeInv
  <2>4. \A e \in Calls \ {c} : Frame(e)
    BY <1>0, <1>2 DEF TypeOK, Deploy, Start, Frame, stateVars
  <2>5. CallInv(c)'
    BY <2>2, <2>3, <2>6 DEF CallInv
  <2> QED
    BY <2>4, <2>5, OneCall
<1>3. ASSUME NEW c \in Calls, Decide(c)
      PROVE  pc'[c] \in {"claiming", "scanned"}
  BY <1>0, <1>3 DEF TypeOK, Decide, Process
<1>4. ASSUME NEW c \in Calls, AwaitJudge(c)
      PROVE  \A e \in Calls : CallInv(e)'
  <2>1. pc[c] = "loading" /\ UNCHANGED <<attempt, sent, waited>> /\ left' = left
    BY <1>4 DEF AwaitJudge, Arm
  <2>2. armed' = armed \/ armed' = [armed EXCEPT ![c] = TRUE]
    BY <1>4 DEF AwaitJudge, Arm
  <2>3. /\ armed'[c] => waited'[c] + left'[c] <= WaitBudget
        /\ ~armed'[c] => waited'[c] = 0
        /\ \A e \in Calls \ {c} : armed'[e] = armed[e] /\ left'[e] = left[e]
    BY <1>0, <2>1, <2>2, RequestConstants DEF TypeOK, CallInv, WaitInv
  <2>4. CASE Decide(c)
    <3>1. WaitInv(c)'
      BY <1>3, <2>3, <2>4 DEF WaitInv
    <3> QED
      BY <2>1, <2>3, <2>4, <3>1, DecideCall
  <2>5. CASE /\ Arm(c)
             /\ pc' = [pc EXCEPT ![c] = "waiting"]
             /\ UNCHANGED <<callStates, data, work, decisions, newCounts, redacted,
                            notices, acquitted, claimed, told, cleaned, kept>>
    <3>1. pc'[c] = "waiting" /\ armed'[c]
      BY <1>0, <2>5 DEF TypeOK, Arm
    <3>2. WaitInv(c)'
      BY <2>3, <3>1 DEF WaitInv
    <3>3. ScanInv(c)'
      BY <1>0, <2>1, <2>5, <3>1 DEF CallInv, ScanInv
    <3>4. TellInv(c)'
      BY <1>0, <2>5 DEF CallInv, TellInv
    <3>5. \A e \in Calls \ {c} : Frame(e)
      BY <1>0, <2>1, <2>3, <2>5 DEF TypeOK, Frame, notices
    <3>7. NoticeInv(c)'
      BY <1>0, <2>1, <2>5, <3>1 DEF CallInv, NoticeInv, notices, Scanning
    <3>6. CallInv(c)'
      BY <3>2, <3>3, <3>4, <3>7 DEF CallInv
    <3> QED
      BY <3>5, <3>6, OneCall
  <2> QED
    BY <1>4, <2>4, <2>5 DEF AwaitJudge
<1>5. ASSUME NEW c \in Calls, WaitOver(c)
      PROVE  \A e \in Calls : CallInv(e)'
  <2>1. /\ pc[c] = "waiting" /\ Decide(c)
        /\ UNCHANGED <<attempt, armed, left, sent, waited>>
    BY <1>5 DEF WaitOver
  <2>2. WaitInv(c)'
    BY <1>0, <1>3, <2>1 DEF CallInv, WaitInv
  <2> QED
    BY <2>1, <2>2, DecideCall
<1>6. ASSUME NEW c \in Calls, NEW new \in BOOLEAN, Claimed(c, new)
      PROVE  \A e \in Calls : CallInv(e)'
  <2>1. /\ pc[c] = "claiming" /\ Process(c, decisions[c], new)
        /\ UNCHANGED <<attempt, armed, left, acquitted, sent, waited>>
    BY <1>6 DEF Claimed
  <2>2. /\ pc'[c] = "scanned" /\ work'[c] = Passes(c, decisions[c]) /\ claimed'[c] = {}
        /\ TellInv(c)' /\ NoticeInv(c)'
        /\ \A e \in Calls \ {c} :
              /\ pc'[e] = pc[e] /\ work'[e] = work[e] /\ decisions'[e] = decisions[e]
              /\ newCounts'[e] = newCounts[e] /\ redacted'[e] = redacted[e]
              /\ claimed'[e] = claimed[e]
              /\ told'[e] = told[e] /\ dataNotes'[e] = dataNotes[e]
              /\ notes'[e] = notes[e] /\ noticed'[e] = noticed[e]
              /\ e \in cleaned' <=> e \in cleaned
    BY <2>1, ProcessCall DEF Scanning
  <2>3. Passes(c, decisions[c]) \subseteq acquitted[c] \cap Ambiguous
    BY <1>0, <2>1 DEF CallInv, ScanInv, Passes
  <2>4. ScanInv(c)'
    BY <1>0, <2>1, <2>2, <2>3 DEF CallInv, ScanInv
  <2>5. WaitInv(c)'
    BY <1>0, <2>1, <2>2 DEF CallInv, WaitInv
  <2>6. \A e \in Calls \ {c} : Frame(e)
    BY <2>1, <2>2 DEF Frame
  <2>7. CallInv(c)'
    BY <2>2, <2>4, <2>5 DEF CallInv
  <2> QED
    BY <2>6, <2>7, OneCall
<1>7. ASSUME NEW c \in Calls, NEW s \in {"failed", "ended"}, pc[c] \in Scanning, Abandon(c, s)
      PROVE  \A e \in Calls : CallInv(e)'
  <2>1. /\ pc'[c] = s /\ pc[c] # "new" /\ pc[c] # "sent" /\ claimed'[c] = {}
        /\ sent'[c] = sent[c]
    BY <1>0, <1>7 DEF TypeOK, Abandon, Scanning
  <2>2. ScanInv(c)'
    BY <1>0, <2>1 DEF CallInv, ScanInv
  <2>3. WaitInv(c)' /\ TellInv(c)'
    BY <1>0, <1>7, <2>1 DEF CallInv, WaitInv, TellInv, Abandon
  <2>6. NoticeInv(c)'
    <3>1. /\ told'[c] = told[c] /\ dataNotes'[c] = dataNotes[c] /\ noticed'[c] = noticed[c]
          /\ attempt'[c] = attempt[c]
      BY <1>7 DEF Abandon
    <3>2. pc'[c] \notin Scanning \cup {"new", "scanned", "sent"}
      BY <2>1 DEF Scanning
    <3> QED
      BY <1>0, <3>1, <3>2 DEF CallInv, NoticeInv
  <2>4. \A e \in Calls \ {c} : Frame(e)
    BY <1>0, <1>7 DEF TypeOK, Abandon, Frame
  <2>5. CallInv(c)'
    BY <2>2, <2>3, <2>6 DEF CallInv
  <2> QED
    BY <2>4, <2>5, OneCall
<1>8. ASSUME NEW c \in Calls, Send(c)
      PROVE  \A e \in Calls : CallInv(e)'
  <2>1. /\ pc[c] = "scanned" /\ attempt[c] > 0 /\ pc'[c] = "sent" /\ sent'[c] = work[c]
        /\ acquitted'[c] = acquitted[c] /\ claimed'[c] = claimed[c]
    BY <1>0, <1>8 DEF TypeOK, Send
  <2>2. ScanInv(c)'
    BY <1>0, <2>1 DEF CallInv, ScanInv
  <2>3. WaitInv(c)' /\ TellInv(c)'
    BY <1>0, <1>8, <2>1 DEF CallInv, WaitInv, TellInv, Send, stateVars
  <2>6. NoticeInv(c)'
    BY <1>0, <1>8, <2>1 DEF CallInv, NoticeInv, Send, stateVars, Scanning
  <2>4. \A e \in Calls \ {c} : Frame(e)
    BY <1>0, <1>8 DEF TypeOK, Send, Frame, stateVars
  <2>5. CallInv(c)'
    BY <2>2, <2>3, <2>6 DEF CallInv
  <2> QED
    BY <2>4, <2>5, OneCall
<1>9. ASSUME NEW c \in Calls, NEW s \in Responding \cup {"failed"}, Outcome(c, s)
      PROVE  \A e \in Calls : CallInv(e)'
  <2>1. pc[c] = "sent" /\ pc'[c] = s /\ sent'[c] = {} /\ claimed'[c] = claimed[c]
    BY <1>0, <1>9 DEF TypeOK, Outcome
  <2>2. ScanInv(c)'
    BY <1>0, <2>1 DEF CallInv, ScanInv, Responding
  <2>3. WaitInv(c)' /\ TellInv(c)'
    BY <1>0, <1>9, <2>1 DEF CallInv, WaitInv, TellInv, Outcome, stateVars, Responding
  <2>6. NoticeInv(c)'
    BY <1>0, <1>9, <2>1 DEF CallInv, NoticeInv, Outcome, stateVars, Scanning, Responding
  <2>4. \A e \in Calls \ {c} : Frame(e)
    BY <1>0, <1>9 DEF TypeOK, Outcome, Frame, stateVars
  <2>5. CallInv(c)'
    BY <2>2, <2>3, <2>6 DEF CallInv
  <2> QED
    BY <2>4, <2>5, OneCall
<1>12. ASSUME NEW c \in Calls, Stream(c)
       PROVE  \A e \in Calls : CallInv(e)'
  <2>1. PICK s \in Responding \cup {"ended"} : pc' = [pc EXCEPT ![c] = s]
    BY <1>0, <1>12, StreamCases
  <2>2. /\ pc[c] \in {"chunks", "events"} /\ pc'[c] = s
        /\ \A e \in Calls \ {c} : pc'[e] = pc[e]
    BY <1>0, <1>12, <2>1, StreamCases DEF TypeOK
  <2>3. /\ UNCHANGED <<attempt, work, decisions, armed, left, newCounts, redacted, acquitted,
                       claimed, sent, told>>
        /\ UNCHANGED <<dataNotes, notes, noticed, cleaned, waited>>
    BY <1>0, <1>12, StreamCases DEF history
  <2>4. ScanInv(c)'
    BY <1>0, <2>2, <2>3 DEF CallInv, ScanInv, Responding
  <2>5. WaitInv(c)' /\ TellInv(c)'
    BY <1>0, <2>2, <2>3 DEF CallInv, WaitInv, TellInv, Responding
  <2>6. NoticeInv(c)'
    BY <1>0, <2>2, <2>3 DEF CallInv, NoticeInv, Scanning, Responding
  <2>7. \A e \in Calls \ {c} : Frame(e)
    BY <2>2, <2>3 DEF Frame
  <2>8. CallInv(c)'
    BY <2>4, <2>5, <2>6 DEF CallInv
  <2> QED
    BY <2>7, <2>8, OneCall
<1>10. CASE UNCHANGED vars \/ \E d \in Ambiguous, v \in Verdicts : Judge(d, v)
  <2>1. \A e \in Calls : Frame(e)
    BY <1>10 DEF Frame, Judge, vars, stateVars, history
  <2> QED
    BY <1>0, <2>1, FrameInv
<1>11. CASE Tick
  <2> SUFFICES ASSUME NEW c \in Calls
               PROVE  CallInv(c)'
    OBVIOUS
  <2>1. /\ UNCHANGED <<pc, attempt, work, decisions, armed, newCounts, redacted, acquitted,
                       claimed, sent, told, notices, cleaned>>
        /\ left'[c] \in {left[c], Remaining(c)}
        /\ pc[c] = "waiting" => left[c] > 0 /\ left'[c] = Remaining(c)
        /\ waited'[c] = IF pc[c] = "waiting" THEN waited[c] + 1 ELSE waited[c]
    BY <1>11 DEF Tick, Responding
  <2>2. Passes(c, decisions[c])' = Passes(c, decisions[c])
    BY <2>1 DEF Passes
  <2>3. ScanInv(c)' /\ TellInv(c)'
    BY <1>0, <2>1, <2>2 DEF CallInv, ScanInv, TellInv
  <2>6. NoticeInv(c)'
    BY <1>0, <2>1 DEF CallInv, NoticeInv, notices
  <2>4. left[c] \in Nat /\ waited[c] \in Nat
    BY <1>0, RequestConstants DEF TypeOK
  <2>5. WaitInv(c)'
    BY <1>0, <2>1, <2>4, RequestConstants DEF CallInv, WaitInv, Remaining
  <2> QED
    BY <2>3, <2>5, <2>6 DEF CallInv
<1> QED
  BY <1>1, <1>2, <1>4, <1>5, <1>6, <1>7, <1>8, <1>9, <1>10, <1>11, <1>12
     DEF Next, ScanFails, Cancel, CutShort, RedactFails, Scanning, DeploymentFails, Respond,
         StreamStarts, Stream, Responding
-----------------------------------------------------------------------------
(* The invariant holds initially.                                          *)
LEMMA InitInv == Init => Inv
  BY RequestConstants DEF Init, Inv, TypeOK, CallInv, ScanInv, WaitInv, TellInv, NoticeInv,
                          Nothing, Verdicts, Scanning, ReplyTypes

(* The invariant of every call holds in every reachable state.             *)
THEOREM Invariant == Spec => []Inv
<1>1. Inv /\ [Next]_vars => Inv'
  BY TypeStep, CallStep DEF Inv
<1> QED
  BY InitInv, <1>1, PTL DEF Spec

(* Every variable stays in its domain.                                     *)
THEOREM TypeCorrect == Spec => []TypeOK
<1>1. Inv => TypeOK
  BY DEF Inv
<1> QED
  BY <1>1, Invariant, PTL

(* An attempt at a remote deployment is sent no span but those the judge   *)
(* passed when this attempt was scanned.                                   *)
THEOREM NeverFailsOpen == Spec => []FailClosed
<1>1. Inv => FailClosed
  BY DEF Inv, CallInv, ScanInv, FailClosed
<1> QED
  BY <1>1, Invariant, PTL

(* All stages of a call together wait no longer than the budget.           *)
THEOREM WaitsOnce == Spec => []OneWaitBudget
<1>1. Inv => OneWaitBudget
  <2> SUFFICES ASSUME Inv, NEW c \in Calls
               PROVE  waited[c] <= WaitBudget /\ (~armed[c] => waited[c] = 0)
    BY DEF OneWaitBudget
  <2>1. left[c] \in Nat /\ waited[c] \in Nat /\ armed[c] \in BOOLEAN /\ WaitInv(c)
    BY RequestConstants DEF Inv, TypeOK, CallInv
  <2> QED
    BY <2>1, RequestConstants DEF WaitInv
<1> QED
  BY <1>1, Invariant, PTL

-----------------------------------------------------------------------------
(* Before and after a response nothing of one is there; in one, the first  *)
(* text has taken the notice, if any.                                      *)
ReplyInv(c) ==
    /\ pc[c] \notin Responding => ~pending[c] /\ ~body[c] /\ reply[c] = 0
    /\ pc[c] \in {"chunks", "events"} => (pending[c] <=> newCounts[c] /\ ~body[c])
    /\ pc[c] \in Responding => reply[c] = IF body[c] /\ newCounts[c] THEN 1 ELSE 0

RInv == \A c \in Calls : ReplyInv(c)

(* The step does not touch what the client of c has got.                   *)
Unanswered(c) ==
    /\ pending'[c] = pending[c] /\ body'[c] = body[c] /\ reply'[c] = reply[c]
    /\ \/ pc'[c] = pc[c] /\ newCounts'[c] = newCounts[c]
       \/ pc[c] \notin Responding /\ pc'[c] \notin Responding

(* The step takes c to s, and may count new spans for c.                   *)
Moves(c, s) ==
    /\ pc' = [pc EXCEPT ![c] = s]
    /\ newCounts' = newCounts \/ \E n \in BOOLEAN : newCounts' = [newCounts EXCEPT ![c] = n]

(* A decision ends in a claim or in a scanned payload.                     *)
LEMMA DecideMoves ==
  ASSUME TypeOK, NEW c \in Calls, Decide(c)
  PROVE  \E s \in {"claiming", "scanned"} : Moves(c, s)
<1>1. Counts(c, FALSE) \in BOOLEAN
  BY DEF TypeOK, Counts
<1> QED
  BY <1>1 DEF Decide, Process, Moves

(* The stages of a request come before every response, and lead to none.   *)
LEMMA RequestMoves ==
  ASSUME TypeOK, NEW c \in Calls, Request(c)
  PROVE  pc[c] \notin Responding /\ \E s \in PCs \ Responding : Moves(c, s)
<1>1. ASSUME NEW new \in BOOLEAN, Claimed(c, new)
      PROVE  pc[c] = "claiming" /\ Moves(c, "scanned")
  <2>1. Counts(c, new) \in BOOLEAN
    BY DEF TypeOK, Counts
  <2> QED
    BY <1>1, <2>1 DEF Claimed, Process, Moves
<1>2. CASE AwaitJudge(c) \/ WaitOver(c)
  <2>1. pc[c] \in {"loading", "waiting"}
    BY <1>2 DEF AwaitJudge, WaitOver
  <2>2. \E s \in {"waiting", "claiming", "scanned"} : Moves(c, s)
    BY <1>2, DecideMoves DEF AwaitJudge, WaitOver, Moves
  <2> QED
    BY <2>1, <2>2 DEF PCs, Scanning, Responding
<1>3. CASE (\E S \in (SUBSET Spans) \ {{}} : PreCall(c, S)) \/ Deploy(c)
  <2>1. pc[c] \in {"new", "scanned", "failed"}
    BY <1>3 DEF PreCall, Deploy
  <2>2. \E s \in {"loading", "scanned", "sent"} : Moves(c, s)
    BY <1>3 DEF PreCall, Deploy, Start, Moves, stateVars
  <2> QED
    BY <2>1, <2>2 DEF PCs, Scanning, Responding
<1>4. CASE RedactFails(c) \/ ScanFails(c) \/ Cancel(c)
  <2>1. pc[c] \in Scanning
    BY <1>4 DEF RedactFails, ScanFails, Cancel, CutShort, Scanning
  <2>2. \E s \in {"failed", "ended"} : Moves(c, s)
    BY <1>4 DEF RedactFails, ScanFails, Cancel, CutShort, Abandon, Moves
  <2> QED
    BY <2>1, <2>2 DEF PCs, Scanning, Responding
<1>5. CASE Send(c) \/ DeploymentFails(c)
  <2>1. pc[c] \in {"scanned", "sent"}
    BY <1>5 DEF Send, DeploymentFails, Outcome
  <2>2. \E s \in {"sent", "failed"} : Moves(c, s)
    BY <1>5 DEF Send, DeploymentFails, Outcome, Moves, stateVars
  <2> QED
    BY <2>1, <2>2 DEF PCs, Scanning, Responding
<1>6. "claiming" \notin Responding /\ "scanned" \in PCs \ Responding
  BY DEF PCs, Scanning, Responding
<1> QED
  BY <1>1, <1>2, <1>3, <1>4, <1>5, <1>6 DEF Request

(* So they leave the responses of all calls alone.                         *)
LEMMA RequestUnanswered ==
  ASSUME TypeOK, NEW c \in Calls, Request(c), NEW e \in Calls
  PROVE  Unanswered(e)
<1>1. PICK s \in PCs \ Responding : Moves(c, s)
  BY RequestMoves
<1>2. pc[c] \notin Responding /\ UNCHANGED <<pending, body, reply>>
  BY RequestMoves, RequestQuiet
<1>3. pc'[c] \notin Responding
  BY <1>1 DEF Moves, TypeOK
<1>4. e # c => pc'[e] = pc[e] /\ newCounts'[e] = newCounts[e]
  BY <1>1 DEF Moves, TypeOK
<1> QED
  BY <1>2, <1>3, <1>4 DEF Unanswered

(* A step that leaves the response of c alone keeps its invariant.         *)
LEMMA UnansweredInv ==
  ASSUME NEW c \in Calls, ReplyInv(c), Unanswered(c)
  PROVE  ReplyInv(c)'
<1>1. CASE pc'[c] = pc[c] /\ newCounts'[c] = newCounts[c]
  BY <1>1 DEF ReplyInv, Unanswered
<1>2. CASE pc[c] \notin Responding /\ pc'[c] \notin Responding
  BY <1>2 DEF ReplyInv, Unanswered, Responding
<1> QED
  BY <1>1, <1>2 DEF Unanswered

(* Every step keeps the invariant of responses.                            *)
LEMMA RepliesStep == TypeOK /\ RInv /\ [Next]_vars => RInv'
<1> SUFFICES ASSUME TypeOK, RInv, [Next]_vars
             PROVE  RInv'
  OBVIOUS
<1>0. ReplyTypes /\ (\A c \in Calls : ReplyInv(c)) /\ newCounts \in [Calls -> BOOLEAN]
  BY DEF TypeOK, RInv
<1>1. ASSUME \A c \in Calls : Unanswered(c)
      PROVE  RInv'
  BY <1>1, UnansweredInv DEF RInv
<1>2. ASSUME NEW c \in Calls, ReplyInv(c)', \A e \in Calls \ {c} : Unanswered(e)
      PROVE  RInv'
  BY <1>0, <1>2, UnansweredInv DEF RInv
<1>3. ASSUME NEW c \in Calls, NEW s \in Responding, Outcome(c, s)
      PROVE  /\ pc[c] = "sent" /\ pc'[c] = s /\ newCounts' = newCounts
             /\ ~pending[c] /\ ~body[c] /\ reply[c] = 0
             /\ \A e \in Calls \ {c} : pc'[e] = pc[e]
  BY <1>0, <1>3 DEF Outcome, TypeOK, ReplyInv, Responding, stateVars
<1>4. ASSUME NEW c \in Calls, NEW own \in {0, 1}, Delivered(c, own)
      PROVE  /\ body'[c] /\ reply'[c] = IF newCounts[c] THEN 1 ELSE 0
             /\ \A e \in Calls \ {c} : body'[e] = body[e] /\ reply'[e] = reply[e]
  BY <1>0, <1>4 DEF Delivered, ResponseNotice, Prepended, ReplyTypes
<1>5. ASSUME NEW c \in Calls, NEW own \in {0, 1}, Respond(c, own)
      PROVE  RInv'
  <2>1. Outcome(c, "answered") /\ UNCHANGED pending
    BY <1>5 DEF Respond
  <2>2. /\ pc'[c] = "answered" /\ newCounts' = newCounts
        /\ ~pending[c] /\ ~body[c] /\ reply[c] = 0
        /\ \A e \in Calls \ {c} : pc'[e] = pc[e]
    BY <1>3, <2>1 DEF Responding
  <2>3. /\ reply'[c] = IF body'[c] /\ newCounts[c] THEN 1 ELSE 0
        /\ \A e \in Calls \ {c} : body'[e] = body[e] /\ reply'[e] = reply[e]
    BY <1>4, <1>5, <2>2 DEF Respond
  <2>4. ReplyInv(c)'
    BY <2>2, <2>3 DEF ReplyInv, Responding
  <2>5. \A e \in Calls \ {c} : Unanswered(e)
    BY <2>1, <2>2, <2>3 DEF Unanswered
  <2> QED
    BY <1>2, <2>4, <2>5
<1>6. ASSUME NEW c \in Calls, NEW s \in {"chunks", "events"}, StreamStarts(c, s)
      PROVE  RInv'
  <2>1. /\ pc'[c] = s /\ newCounts' = newCounts
        /\ ~body[c] /\ reply[c] = 0
        /\ \A e \in Calls \ {c} : pc'[e] = pc[e]
    BY <1>3, <1>6 DEF StreamStarts, Responding
  <2>2. /\ UNCHANGED <<body, reply>> /\ pending'[c] = newCounts[c]
        /\ \A e \in Calls \ {c} : pending'[e] = pending[e]
    BY <1>0, <1>6 DEF StreamStarts, ResponseNotice, ReplyTypes
  <2>3. ReplyInv(c)'
    BY <2>1, <2>2 DEF ReplyInv, Responding
  <2>4. \A e \in Calls \ {c} : Unanswered(e)
    BY <2>1, <2>2 DEF Unanswered
  <2> QED
    BY <1>2, <2>3, <2>4
<1>7. ASSUME NEW c \in Calls, NEW own \in {0, 1}, Chunk(c, own) \/ TextDelta(c, own)
      PROVE  RInv'
  <2>1. pc[c] \in {"chunks", "events"} /\ UNCHANGED <<pc, newCounts>> /\ FirstText(c, own)
    BY <1>7 DEF Chunk, TextDelta, FirstText, callVars, stateVars
  <2>2. /\ body'[c] /\ ~pending'[c]
        /\ reply'[c] = IF pending[c] THEN 1 ELSE reply[c]
        /\ \A e \in Calls \ {c} :
              pending'[e] = pending[e] /\ body'[e] = body[e] /\ reply'[e] = reply[e]
    BY <1>0, <2>1 DEF FirstText, Prepended, ReplyTypes
  <2>3. /\ pending[c] <=> newCounts[c] /\ ~body[c]
        /\ reply[c] = IF body[c] /\ newCounts[c] THEN 1 ELSE 0
    BY <1>0, <2>1 DEF ReplyInv, Responding
  <2>4. ReplyInv(c)'
    BY <2>1, <2>2, <2>3 DEF ReplyInv, Responding
  <2>5. \A e \in Calls \ {c} : Unanswered(e)
    BY <2>1, <2>2 DEF Unanswered
  <2> QED
    BY <1>2, <2>4, <2>5
<1>8. ASSUME NEW c \in Calls, NEW own \in {0, 1}, Completed(c, own)
      PROVE  RInv'
  <2>1. /\ pc'[c] = "answered" /\ newCounts' = newCounts /\ pending' = pending
        /\ Delivered(c, own) /\ \A e \in Calls \ {c} : pc'[e] = pc[e]
    BY <1>8 DEF Completed, callVars, stateVars, TypeOK
  <2>2. ReplyInv(c)'
    BY <1>4, <2>1 DEF ReplyInv, Responding
  <2>3. \A e \in Calls \ {c} : Unanswered(e)
    BY <1>4, <2>1 DEF Unanswered
  <2> QED
    BY <1>2, <2>2, <2>3
<1>9. ASSUME NEW c \in Calls, StreamEnds(c)
      PROVE  RInv'
  <2>1. /\ pc'[c] = "ended" /\ ~pending'[c] /\ ~body'[c] /\ reply'[c] = 0
        /\ newCounts' = newCounts
        /\ \A e \in Calls \ {c} :
              /\ pc'[e] = pc[e] /\ pending'[e] = pending[e]
              /\ body'[e] = body[e] /\ reply'[e] = reply[e]
    BY <1>0, <1>9 DEF StreamEnds, callVars, stateVars, TypeOK, ReplyTypes
  <2>2. ReplyInv(c)'
    BY <2>1 DEF ReplyInv, Responding
  <2>3. \A e \in Calls \ {c} : Unanswered(e)
    BY <2>1 DEF Unanswered
  <2> QED
    BY <1>2, <2>2, <2>3
<1>10. CASE \E c \in Calls : Request(c)
  BY <1>1, <1>10, RequestUnanswered
<1>11. CASE Tick \/ UNCHANGED vars \/ \E d \in Ambiguous, v \in Verdicts : Judge(d, v)
  <2>1. UNCHANGED <<pc, pending, body, reply, newCounts>>
    BY <1>11 DEF Tick, vars, Judge, stateVars, replyVars
  <2> QED
    BY <1>1, <2>1 DEF Unanswered
<1> QED
  BY <1>5, <1>6, <1>7, <1>8, <1>9, <1>10, <1>11 DEF Next, Request

(* While a response is on its way the notice of its call is pending, or in *)
(* the text once, as the counts of the call say.                           *)
THEOREM Replies == Spec => []RInv
<1>1. Init => RInv
  BY DEF Init, RInv, ReplyInv, Responding
<1> QED
  BY <1>1, RepliesStep, TypeCorrect, PTL DEF Spec

(* A client that has got text of a response has got one notice of the new  *)
(* spans, if there are any, and the header says what was redacted.         *)
THEOREM ResponseTruthful == Spec => []ResponseTells
<1>1. Inv /\ RInv => ResponseTells
  BY DEF Inv, CallInv, TellInv, RInv, ReplyInv, ResponseTells, Headers, WasRedacted
<1> QED
  BY <1>1, Invariant, Replies, PTL
-----------------------------------------------------------------------------

(* A payload carries at most one model notice, and it carries one if the   *)
(* ingress stage or the scan of this attempt was the first to report a     *)
(* span as new.                                                            *)
THEOREM NoticedOnce == Spec => []ModelNotice
<1>1. Inv => ModelNotice
  BY DEF Inv, CallInv, NoticeInv, ModelNotice
<1> QED
  BY <1>1, Invariant, PTL

(* A stage redacts exactly the spans whose first reports it claimed.       *)
THEOREM ClaimsAreRedactions == Spec => ClaimsMatchRedaction
<1>1. ASSUME Inv, [Next]_vars, NEW c \in Calls, pc[c] \in Scanning, pc'[c] = "scanned"
      PROVE  work[c] \ work'[c] = claimed[c]
  <2>0. TypeOK /\ CallInv(c)
    BY <1>1 DEF Inv
  <2>1. ASSUME NEW dec, NEW new \in BOOLEAN, Process(c, dec, new)
        PROVE  work'[c] = Passes(c, dec)
    BY <2>0, <2>1 DEF TypeOK, Process
  <2>2. ASSUME Decide(c), pc[c] # "claiming"
        PROVE  work[c] \ work'[c] = claimed[c]
    <3>1. PICK dec \in [Ambiguous -> Verdicts] :
             \/ pc' = [pc EXCEPT ![c] = "claiming"]
             \/ work[c] = Passes(c, dec) /\ Process(c, dec, FALSE)
      BY <2>0, <2>2, DecideCases
    <3>2. work[c] = Passes(c, dec) /\ Process(c, dec, FALSE)
      BY <1>1, <2>0, <3>1 DEF TypeOK
    <3>3. work'[c] = work[c] /\ claimed[c] = {}
      BY <2>0, <2>1, <2>2, <3>2 DEF CallInv, ScanInv
    <3> QED
      BY <3>3
  <2>3. ASSUME NEW new \in BOOLEAN, Claimed(c, new)
        PROVE  work[c] \ work'[c] = claimed[c]
    <3>1. pc[c] = "claiming" /\ work'[c] = Passes(c, decisions[c])
      BY <2>1, <2>3 DEF Claimed
    <3>2. claimed[c] = work[c] \ Passes(c, decisions[c])
      BY <2>0, <3>1 DEF CallInv, ScanInv
    <3> QED
      BY <3>1, <3>2
  <2>4. ASSUME NEW e \in Calls, NEW s, e # c \/ s # "scanned", pc' = [pc EXCEPT ![e] = s]
        PROVE  FALSE
    BY <1>1, <2>0, <2>4 DEF TypeOK, Scanning
  <2>5. ASSUME UNCHANGED pc
        PROVE  FALSE
    BY <1>1, <2>5 DEF Scanning
  <2>6. ASSUME NEW e \in Calls, e # c, NEW dec, NEW new \in BOOLEAN, Process(e, dec, new)
        PROVE  FALSE
    BY <2>4, <2>6 DEF Process
  <2>7. ASSUME NEW e \in Calls, e # c, Decide(e)
        PROVE  FALSE
    BY <2>4, <2>6, <2>7 DEF Decide
  <2>8. CASE \E e \in Calls : AwaitJudge(e) \/ WaitOver(e)
    <3>1. PICK e \in Calls : AwaitJudge(e) \/ WaitOver(e)
      BY <2>8
    <3>2. Decide(e) \/ pc' = [pc EXCEPT ![e] = "waiting"]
      BY <3>1 DEF AwaitJudge, WaitOver
    <3>3. e = c /\ Decide(c)
      BY <2>4, <2>7, <3>2
    <3> QED
      BY <2>2, <3>1, <3>3 DEF AwaitJudge, WaitOver
  <2>9. CASE \E e \in Calls, new \in BOOLEAN : Claimed(e, new)
    BY <2>3, <2>6, <2>9 DEF Claimed
  <2>10. CASE \E e \in Calls : \E S \in (SUBSET Spans) \ {{}} : PreCall(e, S)
    <3>1. PICK e \in Calls : \E S \in (SUBSET Spans) \ {{}} : PreCall(e, S)
      BY <2>10
    <3>2. pc[e] = "new" /\ \E s \in {"loading", "scanned"} : pc' = [pc EXCEPT ![e] = s]
      BY <3>1 DEF PreCall, Start
    <3>3. e # c
      BY <1>1, <3>2 DEF Scanning
    <3> QED
      BY <2>4, <3>2, <3>3
  <2>11. CASE \E e \in Calls : Deploy(e)
    BY <2>4, <2>11 DEF Deploy, Start
  <2>12. CASE \E e \in Calls : RedactFails(e) \/ ScanFails(e) \/ Cancel(e)
    BY <2>4, <2>12 DEF RedactFails, ScanFails, Cancel, CutShort, Abandon
  <2>13. CASE \E e \in Calls : Send(e) \/ \E s \in Responding \cup {"failed"} : Outcome(e, s)
    BY <2>4, <2>13 DEF Send, Outcome, Responding
  <2>15. CASE \E e \in Calls : Stream(e)
    BY <2>0, <2>4, <2>15, StreamCases DEF Responding
  <2>14. CASE Tick \/ UNCHANGED vars \/ \E d \in Ambiguous, v \in Verdicts : Judge(d, v)
    BY <2>5, <2>14 DEF Tick, vars, Judge
  <2> QED
    BY <1>1, <2>8, <2>9, <2>10, <2>11, <2>12, <2>13, <2>14, <2>15
       DEF Next, DeploymentFails, Respond, StreamStarts, Stream, Responding
<1>2. Inv /\ [Next]_vars =>
        [\A c \in Calls : pc[c] \in Scanning /\ pc'[c] = "scanned" =>
             work[c] \ work'[c] = claimed[c]]_vars
  BY <1>1
<1> QED
  BY <1>2, Invariant, PTL DEF Spec, ClaimsMatchRedaction
-----------------------------------------------------------------------------
(* A call whose ingress made no room is past it.                           *)
RoomInv ==
    /\ CallStatesBounded
    /\ \A c \in kept : pc[c] # "new" /\ c \notin Pending

(* The sets that are counted are finite.                                   *)
LEMMA RoomFinite ==
  ASSUME TypeOK
  PROVE  /\ IsFiniteSet(Pending) /\ Cardinality(Pending) \in Nat
         /\ IsFiniteSet(kept) /\ Cardinality(kept) \in Nat
         /\ Len(callStates) \in Nat /\ StateCap \in Nat
<1>1. Pending \subseteq Calls /\ kept \subseteq Calls
  BY DEF Pending, TypeOK
<1>2. IsFiniteSet(Pending) /\ IsFiniteSet(kept)
  BY <1>1, FS_Subset, RequestConstants
<1>3. Len(callStates) \in Nat /\ StateCap \in Nat
  BY RequestConstants DEF TypeOK
<1> QED
  BY <1>2, <1>3, FS_CardinalityType

(* A step that leaves Pending and kept as they are, and lets callStates    *)
(* grow up to the cap at most.                                             *)
LEMMA QuietRoom ==
  ASSUME TypeOK, RoomInv, Pending' = Pending, UNCHANGED kept,
         \A c \in kept : pc'[c] # "new",
         Len(callStates') \in Nat,
         Len(callStates') <= Len(callStates) \/ Len(callStates') <= StateCap
  PROVE  RoomInv'
<1>1. CallStatesBounded'
  BY RoomFinite DEF RoomInv, CallStatesBounded
<1> QED
  BY <1>1 DEF RoomInv

(* The ingress stage of c ends without making room.                        *)
LEMMA KeptRoom ==
  ASSUME TypeOK, RoomInv, NEW c \in Pending, Pending' = Pending \ {c},
         kept' = kept \cup {c}, Len(callStates') \in Nat,
         \A e \in kept \cup {c} : pc'[e] # "new",
         Len(callStates') <= Len(callStates) \/ Len(callStates') <= StateCap
  PROVE  RoomInv'
<1>1. c \notin kept
  BY DEF RoomInv
<1>2. /\ Cardinality(Pending') = Cardinality(Pending) - 1
      /\ Cardinality(kept') = Cardinality(kept) + 1
  BY <1>1, RoomFinite, FS_RemoveElement, FS_AddElement
<1>3. CallStatesBounded'
  BY <1>2, RoomFinite DEF RoomInv, CallStatesBounded
<1> QED
  BY <1>3 DEF RoomInv

(* The ingress stage of c ends and makes room.                             *)
LEMMA FreedRoom ==
  ASSUME TypeOK, RoomInv, NEW c \in Pending, Pending' = Pending \ {c},
         UNCHANGED kept, Len(callStates') \in Nat,
         \A e \in kept : pc'[e] # "new",
         Len(callStates') = Len(callStates) - 1 \/ Len(callStates') <= StateCap
  PROVE  RoomInv'
<1>1. Cardinality(Pending') = Cardinality(Pending) - 1 /\ Cardinality(Pending') \in Nat
  BY RoomFinite, FS_RemoveElement, FS_CardinalityType
<1>2. CallStatesBounded'
  BY <1>1, RoomFinite DEF RoomInv, CallStatesBounded
<1> QED
  BY <1>2 DEF RoomInv

(* A scanning call goes from its scan to s.                                *)
LEMMA LeavePending ==
  ASSUME TypeOK, NEW c \in Calls, NEW s \in {"scanned", "failed", "ended"},
         pc[c] \in Scanning, pc' = [pc EXCEPT ![c] = s], UNCHANGED attempt
  PROVE  /\ Pending' = Pending \ {c}
         /\ c \in Pending <=> attempt[c] = 0
         /\ \A e \in Calls : pc[e] # "new" => pc'[e] # "new"
<1>1. pc'[c] = s /\ \A e \in Calls \ {c} : pc'[e] = pc[e]
  BY DEF TypeOK
<1> QED
  BY <1>1 DEF Pending, Scanning

(* A stage that ends in _process pays for the entry it has.                *)
LEMMA RetainRoom ==
  ASSUME TypeOK, RoomInv, NEW c \in Calls, NEW s \in {"scanned", "failed"},
         pc[c] \in Scanning, pc' = [pc EXCEPT ![c] = s], UNCHANGED attempt, Retain(c)
  PROVE  RoomInv'
<1> DEFINE n == Len(callStates')
<1>1. /\ Pending' = Pending \ {c}
      /\ c \in Pending <=> attempt[c] = 0
      /\ \A e \in Calls : pc[e] # "new" => pc'[e] # "new"
  BY LeavePending
<1>2. /\ callStates \in Seq(Calls) /\ callStates' \in Seq(Calls)
      /\ n <= Len(callStates) \/ n <= StateCap
      /\ c \in Elems(callStates) => n = Len(callStates) - 1 \/ n <= StateCap
  BY RegisteredCapped DEF TypeOK, Retain
<1>3. n \in Nat
  BY <1>2
<1>4. kept \subseteq Calls /\ \A e \in kept : pc[e] # "new"
  BY DEF TypeOK, RoomInv
<1>5. pc[c] # "new"
  BY DEF Scanning
<1>6. CASE attempt[c] # 0
  BY <1>1, <1>2, <1>3, <1>4, <1>6, QuietRoom DEF Retain
<1>7. CASE attempt[c] = 0 /\ c \in Elems(callStates)
  <2>1. kept' = kept /\ c \in Pending
    BY <1>1, <1>7 DEF Retain
  <2> QED
    BY <1>1, <1>2, <1>3, <1>4, <1>7, <2>1, FreedRoom
<1>8. CASE attempt[c] = 0 /\ c \notin Elems(callStates)
  <2>1. kept' = kept \cup {c} /\ c \in Pending
    BY <1>1, <1>8 DEF Retain
  <2> QED
    BY <1>1, <1>2, <1>3, <1>4, <1>5, <2>1, KeptRoom
<1> QED
  BY <1>6, <1>7, <1>8
(* A step that moves no call into or out of its ingress scan.              *)
LEMMA SamePending ==
  ASSUME TypeOK, RoomInv, NEW c \in Calls, NEW s, pc' = [pc EXCEPT ![c] = s],
         UNCHANGED <<attempt, kept>>, s # "new",
         attempt[c] # 0 \/ (pc[c] \in Scanning <=> s \in Scanning),
         Len(callStates') \in Nat,
         Len(callStates') <= Len(callStates) \/ Len(callStates') <= StateCap
  PROVE  RoomInv'
<1>1. \A e \in Calls : e # c => pc'[e] = pc[e]
  BY DEF TypeOK
<1>2. pc'[c] = s
  BY DEF TypeOK
<1>3. Pending' = Pending
  BY <1>1, <1>2 DEF Pending
<1>4. \A e \in kept : pc'[e] # "new"
  BY <1>1, <1>2 DEF RoomInv, TypeOK
<1> QED
  BY <1>3, <1>4, QuietRoom

(* So does a decision, if it ends the stage.                               *)
LEMMA DecideRoom ==
  ASSUME TypeOK, RoomInv, NEW c \in Calls, Decide(c), UNCHANGED attempt,
         pc[c] \in Scanning
  PROVE  RoomInv'
<1>1. \/ /\ pc' = [pc EXCEPT ![c] = "claiming"]
         /\ UNCHANGED <<callStates, kept>>
      \/ pc' = [pc EXCEPT ![c] = "scanned"] /\ Retain(c)
  BY DEF Decide, Process
<1>2. CASE pc' = [pc EXCEPT ![c] = "scanned"] /\ Retain(c)
  BY <1>2, RetainRoom
<1>3. CASE /\ pc' = [pc EXCEPT ![c] = "claiming"]
           /\ UNCHANGED <<callStates, kept>>
  <2>1. Len(callStates') \in Nat /\ Len(callStates') <= Len(callStates)
    BY <1>3, RoomFinite
  <2>2. pc[c] \in Scanning <=> "claiming" \in Scanning
    BY DEF Scanning
  <2>3. UNCHANGED <<attempt, kept>> /\ pc' = [pc EXCEPT ![c] = "claiming"]
    BY <1>3
  <2> QED
    BY <2>1, <2>2, <2>3, SamePending
<1> QED
  BY <1>1, <1>2, <1>3

(* Every step keeps the bound on call states.                              *)
LEMMA RoomStep == Inv /\ RoomInv /\ [Next]_vars => RoomInv'
<1> SUFFICES ASSUME Inv, RoomInv, [Next]_vars
             PROVE  RoomInv'
  OBVIOUS
<1>0. TypeOK /\ \A c \in Calls : pc[c] = "new" => attempt[c] = 0
  BY DEF Inv, CallInv, ScanInv
<1>a. Len(callStates) \in Nat /\ StateCap \in Nat
  BY <1>0, RoomFinite
<1>b. ASSUME NEW c \in Calls
      PROVE  /\ Len(Registered(callStates, c)) \in {Len(callStates), Len(callStates) + 1}
             /\ Len(Capped(Registered(callStates, c))) \in Nat
             /\ \/ Len(Capped(Registered(callStates, c))) <= Len(callStates)
                \/ Len(Capped(Registered(callStates, c))) <= StateCap
  <2>1. callStates \in Seq(Calls)
    BY <1>0 DEF TypeOK
  <2> QED
    BY <2>1, RegisteredCapped
<1>1. ASSUME NEW c \in Calls, NEW S \in (SUBSET Spans) \ {{}}, PreCall(c, S)
      PROVE  RoomInv'
  <2>1. pc[c] = "new" /\ attempt[c] = 0 /\ c \notin kept /\ UNCHANGED <<attempt, kept>>
    BY <1>0, <1>1 DEF PreCall, RoomInv
  <2>2. CASE /\ pc' = [pc EXCEPT ![c] = "loading"]
             /\ callStates' = Registered(callStates, c)
    <3>1. pc'[c] = "loading" /\ \A e \in Calls : e # c => pc'[e] = pc[e]
      BY <1>0, <2>2 DEF TypeOK
    <3>2. Pending' = Pending \cup {c} /\ c \notin Pending
      BY <2>1, <3>1 DEF Pending, Scanning
    <3>3. Cardinality(Pending') = Cardinality(Pending) + 1
      BY <1>0, <3>2, RoomFinite, FS_AddElement
    <3>4. Len(callStates') <= Len(callStates) + 1 /\ Len(callStates') \in Nat
      BY <1>a, <1>b, <2>2
    <3>5. Cardinality(Pending) \in Nat /\ Cardinality(kept) \in Nat
      BY <1>0, RoomFinite
    <3>6. CallStatesBounded'
      BY <1>a, <2>1, <3>3, <3>4, <3>5 DEF RoomInv, CallStatesBounded
    <3>7. \A e \in kept : pc'[e] # "new" /\ e \notin Pending'
      BY <1>0, <2>1, <3>1, <3>2 DEF RoomInv, TypeOK
    <3> QED
      BY <2>1, <3>6, <3>7 DEF RoomInv
  <2>3. CASE /\ pc' = [pc EXCEPT ![c] = "scanned"]
             /\ callStates' = Capped(Registered(callStates, c))
    <3>1. pc[c] \notin Scanning /\ "scanned" \notin Scanning
      BY <2>1 DEF Scanning
    <3> QED
      BY <1>0, <1>b, <2>1, <2>3, <3>1, SamePending
  <2> QED
    BY <1>1, <2>2, <2>3 DEF PreCall, Start
<1>2. ASSUME NEW c \in Calls, Deploy(c)
      PROVE  RoomInv'
  <2>1. /\ pc[c] \in {"scanned", "failed"} /\ kept' = kept
        /\ attempt' = [attempt EXCEPT ![c] = @ + 1]
        /\ \/ pc' = [pc EXCEPT ![c] = "loading"] /\ callStates' = callStates
           \/ pc' = [pc EXCEPT ![c] = "sent"] /\ callStates' = Capped(Registered(callStates, c))
    BY <1>2 DEF Deploy, Start
  <2>2. /\ pc'[c] # "new" /\ attempt'[c] # 0
        /\ \A e \in Calls : e # c => pc'[e] = pc[e] /\ attempt'[e] = attempt[e]
    BY <1>0, <2>1 DEF TypeOK
  <2>3. Pending' = Pending
    BY <2>1, <2>2 DEF Pending, Scanning
  <2>4. \A e \in kept : pc'[e] # "new"
    BY <1>0, <2>2 DEF RoomInv, TypeOK
  <2>5. /\ Len(callStates') \in Nat
        /\ Len(callStates') <= Len(callStates) \/ Len(callStates') <= StateCap
    BY <1>a, <1>b, <2>1
  <2> QED
    BY <1>0, <2>1, <2>3, <2>4, <2>5, QuietRoom
<1>3. ASSUME NEW c \in Calls, AwaitJudge(c) \/ WaitOver(c)
      PROVE  RoomInv'
  <2>1. pc[c] \in Scanning /\ UNCHANGED attempt
    BY <1>3 DEF AwaitJudge, WaitOver, Scanning
  <2>2. CASE Decide(c)
    BY <1>0, <2>1, <2>2, DecideRoom
  <2>3. CASE pc' = [pc EXCEPT ![c] = "waiting"] /\ UNCHANGED <<callStates, kept>>
    <3>1. pc[c] \in Scanning <=> "waiting" \in Scanning
      BY <2>1 DEF Scanning
    <3>2. Len(callStates') \in Nat /\ Len(callStates') <= Len(callStates)
      BY <1>a, <2>3
    <3>3. UNCHANGED <<attempt, kept>> /\ pc' = [pc EXCEPT ![c] = "waiting"]
      BY <2>1, <2>3
    <3> QED
      BY <1>0, <3>1, <3>2, <3>3, SamePending
  <2> QED
    BY <1>3, <2>2, <2>3 DEF AwaitJudge, WaitOver
<1>4. ASSUME NEW c \in Calls, NEW s \in {"scanned", "failed"}, Retain(c), UNCHANGED attempt,
             pc[c] = "claiming", pc' = [pc EXCEPT ![c] = s]
      PROVE  RoomInv'
  BY <1>0, <1>4, RetainRoom DEF Scanning
<1>5. ASSUME NEW c \in Calls, NEW s \in {"failed", "ended"}, CutShort(c, s)
      PROVE  RoomInv'
  <2>1. /\ pc[c] \in Scanning /\ pc' = [pc EXCEPT ![c] = s] /\ UNCHANGED <<attempt, callStates>>
        /\ kept' = IF attempt[c] = 0 THEN kept \cup {c} ELSE kept
    BY <1>5 DEF CutShort, Abandon
  <2>2. /\ Pending' = Pending \ {c}
        /\ c \in Pending <=> attempt[c] = 0
        /\ \A e \in Calls : pc[e] # "new" => pc'[e] # "new"
    BY <1>0, <2>1, LeavePending
  <2>3. kept \subseteq Calls /\ (\A e \in kept : pc[e] # "new") /\ pc[c] # "new"
    BY <1>0, <2>1 DEF TypeOK, RoomInv, Scanning
  <2>4. CASE attempt[c] = 0
    BY <1>0, <1>a, <2>1, <2>2, <2>3, <2>4, KeptRoom
  <2>5. CASE attempt[c] # 0
    BY <1>0, <1>a, <2>1, <2>2, <2>3, <2>5, QuietRoom
  <2> QED
    BY <2>4, <2>5
<1>6. ASSUME NEW c \in Calls, NEW s \in Responding \cup {"sent", "failed", "ended"},
             pc[c] \in {"scanned", "sent", "chunks", "events"}, pc' = [pc EXCEPT ![c] = s],
             UNCHANGED <<callStates, attempt, kept>>
      PROVE  RoomInv'
  <2>1. (pc[c] \in Scanning <=> s \in Scanning) /\ s # "new"
    BY <1>6 DEF Scanning, Responding
  <2>2. Len(callStates') \in Nat /\ Len(callStates') <= Len(callStates)
    BY <1>a, <1>6
  <2>3. UNCHANGED <<attempt, kept>> /\ pc' = [pc EXCEPT ![c] = s]
    BY <1>6
  <2> QED
    BY <1>0, <2>1, <2>2, <2>3, SamePending
<1>7. CASE UNCHANGED <<callStates, pc, attempt, kept>>
  <2>1. Pending' = Pending
    BY <1>7 DEF Pending
  <2> QED
    BY <1>0, <1>a, <1>7, <2>1, QuietRoom DEF RoomInv
<1>8. ASSUME NEW c \in Calls, NEW new \in BOOLEAN, Claimed(c, new)
      PROVE  RoomInv'
  BY <1>4, <1>8 DEF Claimed, Process
<1>9. ASSUME NEW c \in Calls, RedactFails(c)
      PROVE  RoomInv'
  BY <1>4, <1>9 DEF RedactFails, Abandon
<1>10. ASSUME NEW c \in Calls,
              Send(c) \/ \E s \in Responding \cup {"failed"} : Outcome(c, s)
       PROVE  RoomInv'
  BY <1>6, <1>10 DEF Send, Outcome
<1>12. ASSUME NEW c \in Calls, Stream(c)
       PROVE  RoomInv'
  BY <1>0, <1>6, <1>12, StreamCases DEF history
<1>11. CASE \/ Tick \/ UNCHANGED vars
            \/ \E d \in Ambiguous, v \in Verdicts : Judge(d, v)
  BY <1>7, <1>11 DEF Tick, Judge, vars, history
<1> QED
  BY <1>1, <1>2, <1>3, <1>5, <1>8, <1>9, <1>10, <1>11, <1>12
     DEF Next, ScanFails, Cancel, DeploymentFails, Respond, StreamStarts, Stream, Responding

(* _CALL_STATES exceeds its cap only by the calls in their ingress stage   *)
(* and by those whose ingress stage made no room.                          *)
THEOREM StatesBounded == Spec => []CallStatesBounded
<1>1. Init => RoomInv
  <2> SUFFICES ASSUME Init
               PROVE  RoomInv
    OBVIOUS
  <2>1. Pending = {} /\ kept = {} /\ Len(callStates) = 0
    BY DEF Init, Pending, Scanning
  <2>2. StateCap \in Nat /\ Cardinality({}) = 0
    BY RequestConstants, FS_EmptySet
  <2> QED
    BY <2>1, <2>2 DEF RoomInv, CallStatesBounded
<1>2. RoomInv => CallStatesBounded
  BY DEF RoomInv
<1> QED
  BY <1>1, <1>2, RoomStep, Invariant, PTL DEF Spec
=============================================================================
