--------------------------- MODULE DispatchProofs ---------------------------
(***************************************************************************)
(* Theorems about Dispatch for any tree of groups, any routes, middlewares *)
(* and requests.  Those on the order of execution take a chain for whatever*)
(* BuildHandlers returned; the last one, on what is in it, follows the     *)
(* recursive ChainMiddlewares up the tree.                                 *)
(***************************************************************************)
EXTENDS Dispatch, SequenceTheorems, TLAPS

(***************************************************************************)
(* The types the proofs need.                                              *)
(***************************************************************************)
Frames == Seq([pos : Nat, nexts : Nat])

Types ==
  /\ pc \in [Requests -> {"idle", "check", "build", "run", "done"}]
  /\ chain = [q \in Requests |-> chain[q]]
  /\ index \in [Requests -> Nat]
  /\ stack \in [Requests -> Frames]
  /\ handled \in [Requests -> Nat]

\* Before its chain is built, a request has entered nothing.
Fresh(q) ==
  pc[q] \in {"idle", "check", "build"} =>
    index[q] = 0 /\ handled[q] = 0 /\ stack[q] = <<>>

\* Once the handler was entered, the chain is exhausted.
Exhausted(q) ==
  /\ handled[q] \in {0, 1}
  /\ handled[q] = 1 => index[q] = Len(chain[q])

\* With one call of Next each, the elements being executed are the first ones
\* of the chain, each but the last has made its call, and the last one has
\* too unless it was the last to be entered.
Nested(q) ==
  /\ \A i \in 1..Len(stack[q]) :
       stack[q][i].pos = i /\ ~(i > Len(chain[q]))
  /\ \A i \in 1..Len(stack[q]) :
       stack[q][i].nexts = 0 => i = Len(stack[q]) /\ index[q] = i

-----------------------------------------------------------------------------
(* What one step does to a request: nothing that matters here, or one of   *)
(* four things.                                                            *)

Quiet(q) ==
  /\ UNCHANGED <<chain[q], index[q], stack[q], handled[q]>>
  /\ \/ pc'[q] = pc[q]
     \/ pc[q] \in {"idle", "check"} /\ pc'[q] \in {"check", "build", "done"}

Entering(q, c, st) ==
  /\ chain'[q] = c
  /\ LET i == index[q] + 1 IN
     \/ /\ i > Len(c)
        /\ stack'[q] = st /\ index'[q] = index[q] /\ handled'[q] = handled[q]
     \/ /\ ~(i > Len(c))
        /\ index'[q] = i
        /\ stack'[q] = Append(st, [pos |-> i, nexts |-> 0])
        /\ handled'[q] = IF i = Len(c) THEN handled[q] + 1 ELSE handled[q]

Building(q) ==
  /\ pc[q] = "build" /\ pc'[q] = "run"
  /\ \E c : Entering(q, c, <<>>)

Counted(st) == [st EXCEPT ![Len(st)].nexts = @ + 1]

Calling(q) ==
  /\ stack[q] # <<>> /\ pc'[q] = pc[q]
  /\ Top(q).nexts < MaxNext
  /\ Entering(q, chain[q],
              Counted(stack[q]))

Popping(q) ==
  /\ stack[q] # <<>>
  /\ pc'[q] = IF Len(stack[q]) = 1 THEN "done" ELSE pc[q]
  /\ stack'[q] = SubSeq(stack[q], 1, Len(stack[q]) - 1)
  /\ UNCHANGED <<chain[q], index[q], handled[q]>>

LEMMA StepEffect ==
  ASSUME Types, [Next]_vars, NEW q \in Requests
  PROVE  Quiet(q) \/ Building(q) \/ Calling(q) \/ Popping(q)
<1> USE DEF Types, config, response, history
<1>1. CASE UNCHANGED <<pc, chain, index, stack, handled>>
  BY <1>1 DEF Quiet
<1>2. ASSUME NEW r \in Requests, Arrive(r) PROVE Quiet(q)
  BY <1>2 DEF Arrive, Quiet
<1>3. ASSUME NEW r \in Requests, CheckDisabled(r) PROVE Quiet(q)
  BY <1>3 DEF CheckDisabled, Quiet
<1>4. ASSUME NEW r \in Requests, BuildChain(r)
      PROVE  Quiet(q) \/ Building(q)
  <2>1. CASE r = q
    BY <1>4, <2>1 DEF BuildChain, Building, Entering, ContextNext
  <2>2. CASE r # q
    BY <1>4, <2>2 DEF BuildChain, ContextNext, Quiet
  <2>3. QED
    BY <2>1, <2>2
<1>5. ASSUME NEW r \in Requests, CallNext(r)
      PROVE  Quiet(q) \/ Calling(q)
  <2>1. CASE r = q
    BY <1>5, <2>1 DEF CallNext, Calling, Counted, Entering, ContextNext
  <2>2. CASE r # q
    BY <1>5, <2>2 DEF CallNext, ContextNext, Quiet
  <2>3. QED
    BY <2>1, <2>2
<1>6. ASSUME NEW r \in Requests, NEW e \in BOOLEAN, Return(r, e)
      PROVE  Quiet(q) \/ Popping(q)
  <2>1. CASE r = q
    BY <1>6, <2>1 DEF Return, Popping
  <2>2. CASE r # q
    BY <1>6, <2>2 DEF Return, Quiet
  <2>3. QED
    BY <2>1, <2>2
<1>7. QED
  BY <1>1, <1>2, <1>3, <1>4, <1>5, <1>6
     DEF Next, RequestStep, vars, Use, Disable, Enable, WriteResponse,
         RawWrite

\* What counting a call of Next, entering and returning make of a stack.

LEMMA CountedFrames ==
  ASSUME NEW st \in Frames, st # <<>>
  PROVE  /\ Counted(st) \in Frames /\ Len(Counted(st)) = Len(st)
         /\ \A i \in 1..Len(st) :
              Counted(st)[i] = IF i = Len(st)
                THEN [pos |-> st[i].pos, nexts |-> st[i].nexts + 1]
                ELSE st[i]
<1> DEFINE n == Len(st)
           e == [pos |-> st[n].pos, nexts |-> st[n].nexts + 1]
<1>1. n \in 1..Len(st)
  BY DEF Frames
<1>2. st[n] \in [pos : Nat, nexts : Nat]
  BY <1>1, ElementOfSeq DEF Frames
<1>3. e \in [pos : Nat, nexts : Nat]
  BY <1>2
<1>4. [st[n] EXCEPT !.nexts = @ + 1] = e
  BY <1>2
<1>5. Counted(st) = [st EXCEPT ![n] = e]
  BY <1>4 DEF Counted
<1> HIDE DEF e
<1>6. /\ [st EXCEPT ![n] = e] \in Frames /\ Len([st EXCEPT ![n] = e]) = n
      /\ \A i \in 1..n : [st EXCEPT ![n] = e][i] = IF i = n THEN e ELSE st[i]
  BY <1>1, <1>3, ExceptSeq DEF Frames
<1>7. QED
  BY <1>5, <1>6 DEF e

LEMMA PushedFrames ==
  ASSUME NEW st \in Frames, NEW i \in Nat
  PROVE  LET t == Append(st, [pos |-> i, nexts |-> 0]) IN
         /\ t \in Frames /\ Len(t) = Len(st) + 1
         /\ t[Len(st) + 1] = [pos |-> i, nexts |-> 0]
         /\ \A j \in 1..Len(st) : t[j] = st[j]
BY DEF Frames

LEMMA PoppedFrames ==
  ASSUME NEW st \in Frames, st # <<>>
  PROVE  LET t == SubSeq(st, 1, Len(st) - 1) IN
         /\ t \in Frames
         /\ Len(t) = Len(st) - 1
         /\ \A j \in 1..Len(t) : t[j] = st[j]
<1> DEFINE m == Len(st) - 1
           R == [pos : Nat, nexts : Nat]
<1>1. m \in Nat /\ Len(st) = m + 1
  BY DEF Frames
<1>2. \A i \in 1..m : i \in 1..Len(st)
  BY <1>1
<1> HIDE DEF R
<1>3. st \in Seq(R)
  BY DEF Frames, R
<1>4. \A i \in 1..m : st[i] \in R
  BY <1>2, <1>3, ElementOfSeq
<1> HIDE DEF m
<1>5. /\ SubSeq(st, 1, m) \in Seq(R)
      /\ Len(SubSeq(st, 1, m)) = IF 1 <= m THEN m - 1 + 1 ELSE 0
      /\ \A i \in 1..(m - 1 + 1) : SubSeq(st, 1, m)[i] = st[1 + i - 1]
  BY <1>1, <1>4, SubSeqProperties
<1>6. Len(SubSeq(st, 1, m)) = m /\ \A i \in 1..m : SubSeq(st, 1, m)[i] = st[i]
  BY <1>1, <1>5
<1>7. QED
  BY <1>5, <1>6 DEF Frames, R, m

LEMMA TypesInit == Init => Types
BY DEF Init, Types, Frames

LEMMA TypesStep == Types /\ [Next]_vars => Types'
<1> SUFFICES ASSUME Types, [Next]_vars PROVE Types'
  OBVIOUS
<1>1. CASE UNCHANGED <<pc, chain, index, stack, handled>>
  BY <1>1 DEF Types
<1>2. ASSUME NEW r \in Requests, Arrive(r) PROVE Types'
  BY <1>2 DEF Arrive, Types
<1>3. ASSUME NEW r \in Requests, CheckDisabled(r) PROVE Types'
  BY <1>3 DEF CheckDisabled, Types
<1>4. ASSUME NEW r \in Requests, NEW c, NEW st \in Frames,
             ContextNext(r, c, st)
      PROVE  /\ index' \in [Requests -> Nat]
             /\ stack' \in [Requests -> Frames]
             /\ handled' \in [Requests -> Nat]
  <2>1. index[r] + 1 \in Nat
    BY DEF Types
  <2>2. Append(st, [pos |-> index[r] + 1, nexts |-> 0]) \in Frames
    BY <2>1 DEF Frames
  <2>3. CASE UNCHANGED <<index, handled>> /\ stack' = [stack EXCEPT ![r] = st]
    BY <2>3 DEF Types
  <2>4. CASE /\ index' = [index EXCEPT ![r] = index[r] + 1]
             /\ stack' = [stack EXCEPT ![r] =
                   Append(st, [pos |-> index[r] + 1, nexts |-> 0])]
             /\ \/ handled' = [handled EXCEPT ![r] = @ + 1]
                \/ handled' = [handled EXCEPT ![r] = @]
    <3>1. index' \in [Requests -> Nat]
      BY <2>1, <2>4 DEF Types
    <3>2. stack' \in [Requests -> Frames]
      BY <2>2, <2>4 DEF Types
    <3>3. handled' \in [Requests -> Nat]
      BY <2>4 DEF Types
    <3>4. QED
      BY <3>1, <3>2, <3>3
  <2>5. QED
    BY <1>4, <2>3, <2>4 DEF ContextNext
<1>5. ASSUME NEW r \in Requests, BuildChain(r) PROVE Types'
  <2>1. <<>> \in Frames
    BY DEF Frames
  <2>2. /\ pc' = [pc EXCEPT ![r] = "run"]
        /\ chain' = [chain EXCEPT ![r] = BuildHandlers(RouteOf[r])]
        /\ ContextNext(r, BuildHandlers(RouteOf[r]), <<>>)
    BY <1>5 DEF BuildChain
  <2>3. /\ index' \in [Requests -> Nat] /\ stack' \in [Requests -> Frames]
        /\ handled' \in [Requests -> Nat]
    BY <1>4, <2>1, <2>2 DEF ContextNext
  <2>4. pc' \in [Requests -> {"idle", "check", "build", "run", "done"}]
    BY <2>2 DEF Types
  <2>5. chain' = [q \in Requests |-> chain'[q]]
    BY <2>2 DEF Types
  <2>6. QED
    BY <2>3, <2>4, <2>5 DEF Types
<1>6. ASSUME NEW r \in Requests, CallNext(r) PROVE Types'
  <2>1. Counted(stack[r]) \in Frames
    BY <1>6, CountedFrames DEF CallNext, Types
  <2>2. UNCHANGED <<pc, chain>>
    BY <1>6 DEF CallNext
  <2>3. /\ index' \in [Requests -> Nat] /\ stack' \in [Requests -> Frames]
        /\ handled' \in [Requests -> Nat]
    BY <1>4, <1>6, <2>1 DEF CallNext, ContextNext, Counted
  <2>4. QED
    BY <2>2, <2>3 DEF Types
<1>7. ASSUME NEW r \in Requests, NEW e \in BOOLEAN, Return(r, e)
      PROVE  Types'
  <2>1. SubSeq(stack[r], 1, Len(stack[r]) - 1) \in Frames
    BY <1>7, PoppedFrames DEF Return, Types
  <2>2. QED
    BY <1>7, <2>1 DEF Return, Types
<1>8. QED
  BY <1>1, <1>2, <1>3, <1>5, <1>6, <1>7
     DEF Next, RequestStep, vars, config, response, history, Use, Disable,
         Enable, WriteResponse, RawWrite

-----------------------------------------------------------------------------
(* Each request's part of the invariant is preserved.                      *)

LEMMA FreshStep ==
  ASSUME Types, NEW q \in Requests, [Next]_vars, Fresh(q)
  PROVE  Fresh(q)'
<1>1. CASE Quiet(q)
  BY <1>1 DEF Quiet, Fresh
<1>2. CASE Building(q)
  BY <1>2 DEF Building, Fresh
<1>3. CASE Calling(q)
  BY <1>3 DEF Calling, Fresh
<1>4. CASE Popping(q)
  BY <1>4 DEF Popping, Fresh
<1>5. QED
  BY <1>1, <1>2, <1>3, <1>4, StepEffect

LEMMA ExhaustedStep ==
  ASSUME Types, NEW q \in Requests, [Next]_vars, Fresh(q), Exhausted(q)
  PROVE  Exhausted(q)'
<1> USE DEF Exhausted
<1>1. CASE Quiet(q) \/ Popping(q)
  BY <1>1 DEF Quiet, Popping
<1>2. ASSUME NEW c, NEW st, Entering(q, c, st),
             c = chain[q] \/ handled[q] = 0
      PROVE  Exhausted(q)'
  <2>1. index[q] \in Nat
    BY DEF Types
  <2>2. handled[q] = 1 => c = chain[q] /\ Len(c) = index[q]
    BY <1>2
  <2>3. handled[q] = 1 => index[q] + 1 > Len(c)
    BY <2>1, <2>2
  <2>4. CASE index[q] + 1 > Len(c)
    BY <1>2, <2>2, <2>4 DEF Entering
  <2>5. CASE ~(index[q] + 1 > Len(c))
    BY <1>2, <2>3, <2>5 DEF Entering
  <2>6. QED
    BY <2>4, <2>5
<1>3. CASE Building(q)
  BY <1>2, <1>3 DEF Building, Fresh
<1>4. CASE Calling(q)
  BY <1>2, <1>4 DEF Calling
<1>5. QED
  BY <1>1, <1>3, <1>4, StepEffect

LEMMA NestedStep ==
  ASSUME MaxNext = 1, Types, NEW q \in Requests, [Next]_vars,
         Fresh(q), Nested(q)
  PROVE  Nested(q)'
<1>1. stack[q] \in Frames /\ index[q] \in Nat /\ Len(stack[q]) \in Nat
  BY DEF Types, Frames
<1>2. CASE Quiet(q)
  BY <1>2 DEF Quiet, Nested
<1>3. CASE Building(q)
  <2>1. PICK c : Entering(q, c, <<>>)
    BY <1>3 DEF Building
  <2>2. index[q] = 0 /\ Len(<<>>) = 0 /\ <<>> \in Frames
    BY <1>3 DEF Building, Fresh, Frames
  <2>3. CASE stack'[q] = <<>>
    BY <2>2, <2>3 DEF Nested
  <2>4. CASE /\ stack'[q] = Append(<<>>, [pos |-> 1, nexts |-> 0])
             /\ ~(1 > Len(c)) /\ index'[q] = 1 /\ chain'[q] = c
    <3>1. stack'[q] = <<[pos |-> 1, nexts |-> 0]>>
      BY <2>4
    <3>2. QED
      BY <2>4, <3>1 DEF Nested
  <2>5. QED
    BY <2>1, <2>2, <2>3, <2>4 DEF Entering
<1>4. CASE Calling(q)
  <2> DEFINE n == Len(stack[q])
             st == Counted(stack[q])
  <2>1. n \in Nat \ {0}
    BY <1>1, <1>4 DEF Calling, Frames
  <2>2. /\ st \in Frames /\ Len(st) = n
        /\ \A i \in 1..n : st[i] = IF i = n
             THEN [pos |-> stack[q][i].pos, nexts |-> stack[q][i].nexts + 1]
             ELSE stack[q][i]
    BY <1>1, <1>4, CountedFrames DEF Calling
  <2>3. stack[q][n].nexts = 0
    <3>1. n \in 1..Len(stack[q]) /\ stack[q] \in Seq([pos : Nat, nexts : Nat])
      BY <1>1, <2>1 DEF Frames
    <3>2. stack[q][n] \in [pos : Nat, nexts : Nat]
      BY <3>1, ElementOfSeq
    <3>3. stack[q][n].nexts < 1
      BY <1>4 DEF Calling, Top
    <3>4. QED
      BY <3>2, <3>3
  <2>4. index[q] = n
    BY <2>1, <2>3 DEF Nested
  <2>5. \A i \in 1..n : /\ st[i].pos = i /\ ~(i > Len(chain[q]))
                        /\ st[i].nexts # 0
    <3> SUFFICES ASSUME NEW i \in 1..n
                 PROVE  /\ st[i].pos = i /\ ~(i > Len(chain[q]))
                        /\ st[i].nexts # 0
      OBVIOUS
    <3>1. CASE i = n
      <4>1. st[i] = [pos |-> stack[q][i].pos, nexts |-> 1]
        BY <2>2, <2>3, <3>1
      <4>2. QED
        BY <4>1 DEF Nested
    <3>2. CASE i # n
      <4>1. st[i] = stack[q][i]
        BY <2>2, <3>2
      <4>2. QED
        BY <3>2, <4>1 DEF Nested
    <3>3. QED
      BY <3>1, <3>2
  <2>6. chain'[q] = chain[q]
    BY <1>4 DEF Calling, Entering
  <2>7. CASE stack'[q] = st
    BY <2>2, <2>5, <2>6, <2>7 DEF Nested
  <2>8. CASE /\ stack'[q] = Append(st, [pos |-> n + 1, nexts |-> 0])
             /\ ~(n + 1 > Len(chain[q])) /\ index'[q] = n + 1
    <3>1. /\ Len(stack'[q]) = n + 1
          /\ stack'[q][n + 1] = [pos |-> n + 1, nexts |-> 0]
          /\ \A i \in 1..n : stack'[q][i] = st[i]
      BY <2>1, <2>2, <2>8, PushedFrames
    <3>2. \A i \in 1..(n + 1) : i = n + 1 \/ i \in 1..n
      BY <2>1
    <3>3. QED
      BY <2>5, <2>6, <2>8, <3>1, <3>2 DEF Nested
  <2>9. QED
    BY <1>4, <2>4, <2>7, <2>8 DEF Calling, Entering
<1>5. CASE Popping(q)
  <2> DEFINE n == Len(stack[q]) - 1
  <2>1. /\ Len(stack'[q]) = n /\ n \in Nat
        /\ \A i \in 1..n : stack'[q][i] = stack[q][i]
    BY <1>1, <1>5, PoppedFrames DEF Popping, Frames
  <2>2. \A i \in 1..n : i \in 1..Len(stack[q]) /\ i # Len(stack[q])
    BY <1>1, <2>1
  <2>3. chain'[q] = chain[q]
    BY <1>5 DEF Popping
  <2>4. QED
    BY <2>1, <2>2, <2>3 DEF Nested
<1>6. QED
  BY <1>2, <1>3, <1>4, <1>5, StepEffect

-----------------------------------------------------------------------------
(* The handler of a request runs at most once, however often the elements  *)
(* of its chain call Next: c.index only grows.                             *)
THEOREM HandlerRunsOnce == Spec => []HandlerOnce
<1> DEFINE Inv == Types /\ \A q \in Requests : Fresh(q) /\ Exhausted(q)
<1>1. Init => Inv
  <2>1. Init => \A q \in Requests : Fresh(q) /\ Exhausted(q)
    BY DEF Init, Fresh, Exhausted
  <2>2. QED
    BY <2>1, TypesInit
<1>2. Inv /\ [Next]_vars => Inv'
  BY TypesStep, FreshStep, ExhaustedStep
<1>3. Inv => HandlerOnce
  BY DEF Exhausted, HandlerOnce
<1>4. QED
  BY <1>1, <1>2, <1>3, PTL DEF Spec

(* When no element calls Next twice, the handler runs inside every element *)
(* of its chain, in order.                                                 *)
THEOREM HandlerRunsGuarded == ASSUME MaxNext = 1 PROVE Spec => []HandlerGuarded
<1> DEFINE Inv == Types /\ \A q \in Requests : Fresh(q) /\ Nested(q)
<1>1. Init => Inv
  <2>1. Init => \A q \in Requests : Fresh(q) /\ Nested(q)
    BY DEF Init, Fresh, Nested
  <2>2. QED
    BY <2>1, TypesInit
<1>2. Inv /\ [Next]_vars => Inv'
  BY TypesStep, FreshStep, NestedStep
<1>3. Inv => HandlerGuarded
  <2> SUFFICES ASSUME Inv, NEW q \in Requests, Handling(q)
               PROVE  /\ Len(stack[q]) = Len(chain[q])
                      /\ \A i \in 1..Len(stack[q]) : stack[q][i].pos = i
    BY DEF HandlerGuarded
  <2>1. PICK i \in 1..Len(stack[q]) : stack[q][i].pos = Len(chain[q])
    BY DEF Handling
  <2>2. i = Len(chain[q]) /\ Len(stack[q]) \in Nat
    BY <2>1 DEF Nested, Types, Frames
  <2>3. ~(Len(stack[q]) > Len(chain[q]))
    BY <2>1, <2>2 DEF Nested
  <2>4. QED
    BY <2>1, <2>2, <2>3 DEF Nested
<1>4. QED
  BY <1>1, <1>2, <1>3, PTL DEF Spec

-----------------------------------------------------------------------------
(* Nothing is written before the chain runs.                               *)
ResponseInv ==
  /\ status = [q \in Requests |-> status[q]]
  /\ body = [q \in Requests |-> body[q]]
  /\ \A q \in Requests : pc[q] \in {"idle", "check"} => status[q] = "none"

\* A step that writes to r: its response was open, and r is past the check or
\* leaves it by this step.
Writes(r) ==
  /\ status[r] = "none" /\ (pc[r] = "check" \/ stack[r] # <<>>)
  /\ pc[r] = "check" => pc'[r] = "done"
  /\ \E v : status' = [status EXCEPT ![r] = v]
  /\ \E v : body' = [body EXCEPT ![r] = v]

\* The only steps that write are those on an open response.
LEMMA WritesOnlyOpen ==
  ASSUME Types, ResponseInv, \A q \in Requests : Fresh(q), [Next]_vars
  PROVE  UNCHANGED response \/ \E r \in Requests : Writes(r)
<1>1. ASSUME NEW r \in Requests, RequestStep(r)
      PROVE  UNCHANGED response \/ Writes(r)
  <2>1. CASE CheckDisabled(r)
    BY <2>1 DEF CheckDisabled, response, ResponseInv, Types, Writes
  <2>2. stack[r] # <<>> => pc[r] # "check"
    BY DEF Fresh
  <2>3. CASE WriteResponse(r)
    <3>1. /\ status[r] = "none" /\ stack[r] # <<>>
          /\ \E v : status' = [status EXCEPT ![r] = v]
          /\ \E v : body' = [body EXCEPT ![r] = v]
      BY <2>3 DEF WriteResponse
    <3>2. QED
      BY <2>2, <3>1 DEF Writes
  <2>4. CASE RawWrite(r)
    <3>1. /\ status[r] = "none" /\ stack[r] # <<>>
          /\ \E v : status' = [status EXCEPT ![r] = v]
          /\ body' = [body EXCEPT ![r] = body[r]]
      BY <2>4 DEF RawWrite, ResponseInv
    <3>2. QED
      BY <2>2, <3>1 DEF Writes
  <2>5. ASSUME NEW e \in BOOLEAN, Return(r, e)
        PROVE  UNCHANGED response \/ Writes(r)
    <3>1. \/ UNCHANGED response
          \/ /\ status[r] = "none" /\ stack[r] # <<>>
             /\ \E v : status' = [status EXCEPT ![r] = v]
             /\ \E v : body' = [body EXCEPT ![r] = v]
      BY <2>5 DEF Return, HandleChainError
    <3>2. QED
      BY <2>2, <3>1 DEF Writes
  <2>6. CASE Arrive(r) \/ BuildChain(r) \/ CallNext(r)
    BY <2>6 DEF Arrive, BuildChain, CallNext, response
  <2>7. QED
    BY <1>1, <2>1, <2>3, <2>4, <2>5, <2>6 DEF RequestStep
<1>2. ASSUME NEW h \in Holders, NEW m \in Mws, Use(h, m)
      PROVE  UNCHANGED response
  BY <1>2 DEF Use, response
<1>3. ASSUME NEW n \in Toggled, Disable(n) \/ Enable(n)
      PROVE  UNCHANGED response
  BY <1>3 DEF Disable, Enable, response
<1>4. CASE UNCHANGED vars
  BY <1>4 DEF vars, response
<1>5. QED
  BY <1>1, <1>2, <1>3, <1>4 DEF Next

LEMMA ResponseStep ==
  ASSUME Types, ResponseInv, \A q \in Requests : Fresh(q), [Next]_vars
  PROVE  /\ ResponseInv'
         /\ \A q \in Requests : status[q] # "none" =>
              status'[q] = status[q] /\ body'[q] = body[q]
<1>1. \A q \in Requests : pc'[q] \in {"idle", "check"} =>
                            pc[q] \in {"idle", "check"}
  BY StepEffect DEF Quiet, Building, Calling, Popping
<1>2. CASE UNCHANGED response
  BY <1>1, <1>2 DEF response, ResponseInv
<1>3. ASSUME NEW r \in Requests, NEW u, NEW v, status[r] = "none",
             pc[r] = "check" \/ stack[r] # <<>>,
             pc[r] = "check" => pc'[r] = "done",
             status' = [status EXCEPT ![r] = u],
             body' = [body EXCEPT ![r] = v]
      PROVE  /\ ResponseInv'
             /\ \A q \in Requests : status[q] # "none" =>
                  status'[q] = status[q] /\ body'[q] = body[q]
  <2>1. \A q \in Requests \ {r} : status'[q] = status[q] /\ body'[q] = body[q]
    BY <1>3 DEF ResponseInv
  <2>2. pc'[r] \notin {"idle", "check"}
    BY <1>1, <1>3 DEF Fresh
  <2>3. /\ status' = [q \in Requests |-> status'[q]]
        /\ body' = [q \in Requests |-> body'[q]]
    BY <1>3 DEF ResponseInv
  <2>4. QED
    BY <1>1, <1>3, <2>1, <2>2, <2>3 DEF ResponseInv
<1>4. QED
  BY <1>2, <1>3, WritesOnlyOpen DEF Writes

(* Once a response is committed its status stays and nothing is added.     *)
THEOREM CommittedStays == Spec => CommittedIsFinal
<1> DEFINE Inv == Types /\ ResponseInv /\ \A q \in Requests : Fresh(q)
<1>1. Init => Inv
  <2>1. Init => ResponseInv /\ \A q \in Requests : Fresh(q)
    BY DEF Init, Fresh, ResponseInv
  <2>2. QED
    BY <2>1, TypesInit
<1>2. Inv /\ [Next]_vars => Inv'
  BY TypesStep, FreshStep, ResponseStep
<1>3. Inv /\ [Next]_vars =>
        [\A q \in Requests : status[q] # "none" =>
           status'[q] = status[q] /\ body'[q] = body[q]]_response
  BY ResponseStep
<1>4. QED
  BY <1>1, <1>2, <1>3, PTL DEF Spec, CommittedIsFinal

-----------------------------------------------------------------------------
(* Failures.                                                               *)

FailedInv ==
  /\ failed = [q \in Requests |-> failed[q]]
  /\ \A q \in Requests : failed[q] => status[q] # "none"

\* The only step that makes a request fail is the return of an error nobody
\* passes on, and that step answers it.
LEMMA FailureAnswered ==
  ASSUME ResponseInv, FailedInv, [Next]_vars
  PROVE  \/ failed' = failed
         \/ \E r \in Requests : \E f :
              /\ failed' = [failed EXCEPT ![r] = f]
              /\ f => failed[r] \/ status'[r] # "none"
<1>1. ASSUME NEW r \in Requests, RequestStep(r)
      PROVE  \/ failed' = failed
             \/ \E f : /\ failed' = [failed EXCEPT ![r] = f]
                       /\ f => failed[r] \/ status'[r] # "none"
  <2>1. ASSUME NEW e \in BOOLEAN, Return(r, e)
        PROVE  \E f : /\ failed' = [failed EXCEPT ![r] = f]
                      /\ f => failed[r] \/ status'[r] # "none"
    <3>1. e /\ Uncaught(r) => status'[r] # "none"
      BY <2>1 DEF Return, HandleChainError, ResponseInv, response
    <3>2. failed' = [failed EXCEPT ![r] = failed[r] \/ (e /\ Uncaught(r))]
      BY <2>1 DEF Return
    <3>3. QED
      BY <3>1, <3>2
  <2>2. CASE Arrive(r) \/ CheckDisabled(r) \/ BuildChain(r) \/ CallNext(r)
    BY <2>2 DEF Arrive, CheckDisabled, BuildChain, CallNext
  <2>3. CASE WriteResponse(r) \/ RawWrite(r)
    BY <2>3 DEF WriteResponse, RawWrite
  <2>4. QED
    BY <1>1, <2>1, <2>2, <2>3 DEF RequestStep
<1>2. ASSUME NEW h \in Holders, NEW m \in Mws, Use(h, m) PROVE failed' = failed
  BY <1>2 DEF Use
<1>3. ASSUME NEW n \in Toggled, Disable(n) \/ Enable(n) PROVE failed' = failed
  BY <1>3 DEF Disable, Enable
<1>4. CASE UNCHANGED vars
  BY <1>4 DEF vars
<1>5. QED
  BY <1>1, <1>2, <1>3, <1>4 DEF Next

(* A chain that failed has a response: an error never falls through to     *)
(* net/http's implicit 200, whatever standard middlewares stand between.   *)
THEOREM FailuresAnswered == Spec => []ErrorAnswered
<1> DEFINE Inv == /\ Types /\ ResponseInv /\ FailedInv
                  /\ \A q \in Requests : Fresh(q)
<1>1. Init => Inv
  <2>1. Init => ResponseInv /\ \A q \in Requests : Fresh(q)
    BY DEF Init, Fresh, ResponseInv
  <2>2. Init => FailedInv
    BY DEF Init, FailedInv
  <2>3. QED
    BY <2>1, <2>2, TypesInit
<1>2. Inv /\ [Next]_vars => Inv'
  <2> SUFFICES ASSUME Inv, [Next]_vars PROVE Inv'
    OBVIOUS
  <2>1. \A q \in Requests : status[q] # "none" => status'[q] # "none"
    BY ResponseStep
  <2>2. FailedInv'
    <3>1. CASE failed' = failed
      BY <2>1, <3>1 DEF FailedInv
    <3>2. ASSUME NEW r \in Requests, NEW f,
                 failed' = [failed EXCEPT ![r] = f],
                 f => failed[r] \/ status'[r] # "none"
          PROVE  FailedInv'
      BY <2>1, <3>2 DEF FailedInv
    <3>3. QED
      BY <3>1, <3>2, FailureAnswered
  <2>3. QED
    BY <2>2, TypesStep, FreshStep, ResponseStep
<1>3. Inv => ErrorAnswered
  BY DEF FailedInv, ErrorAnswered
<1>4. QED
  BY <1>1, <1>2, <1>3, PTL DEF Spec

-----------------------------------------------------------------------------
(* Disabled routes and groups.                                             *)

Nodes == Groups \cup Routes

\* A path is its first node and the path of that node's group, if it has one.
LEMMA PathUp ==
  ASSUME NEW n \in Nodes
  PROVE  Path(n) \subseteq
           {n} \cup (IF Up[n] = App THEN {} ELSE Path(Up[n]))
<1> USE DispatchAssumption DEF Nodes
<1>1. ASSUME NEW m \in Path(n), m # n, Up[n] = App PROVE FALSE
  <2>1. {n} \in SUBSET Nodes /\ n \in {n}
        /\ \A x \in {n} : Up[x] \in {n} \cup {App}
    BY <1>1
  <2>2. m \in {n}
    BY <2>1, <1>1 DEF Path
  <2>3. QED
    BY <2>2, <1>1
<1>2. ASSUME NEW m \in Path(n), m # n, Up[n] # App PROVE m \in Path(Up[n])
  <2>1. m \in Nodes
    BY <1>2 DEF Path
  <2>2. SUFFICES ASSUME NEW S \in SUBSET Nodes, Up[n] \in S,
                        \A x \in S : Up[x] \in S \cup {App}
                 PROVE  m \in S
    BY <2>1, <2>2 DEF Path
  <2>3. /\ S \cup {n} \in SUBSET Nodes /\ n \in S \cup {n}
        /\ \A x \in S \cup {n} : Up[x] \in (S \cup {n}) \cup {App}
    BY <2>2
  <2>4. m \in S \cup {n}
    BY <2>3, <1>2 DEF Path
  <2>5. QED
    BY <2>4, <1>2
<1>3. QED
  BY <1>1, <1>2

\* What is left of a request's check: the nodes that were disabled all along
\* are disabled, and the walk has yet to read their flags.
CheckTypes ==
  /\ pc \in [Requests -> {"idle", "check", "build", "run", "done"}]
  /\ at \in [Requests -> Nodes]
  /\ blockers = [q \in Requests |-> blockers[q]]

Walk(q) ==
  /\ blockers[q] \subseteq disabled
  /\ pc[q] = "idle" => at[q] = RouteOf[q]
  /\ pc[q] = "check" => blockers[q] \subseteq Path(at[q])
  /\ pc[q] \in {"build", "run"} => blockers[q] = {}

\* One step of the walk: the flag it reads is clear, and the walk ends above.
LEMMA WalkUp ==
  ASSUME CheckTypes, NEW q \in Requests, Walk(q), pc[q] = "check",
         at[q] \notin disabled
  PROVE  IF Up[at[q]] = App THEN blockers[q] = {}
                            ELSE blockers[q] \subseteq Path(Up[at[q]])
<1>1. at[q] \in Nodes /\ at[q] \notin blockers[q]
  BY DEF CheckTypes, Walk
<1>2. Path(at[q]) \subseteq {at[q]} \cup
        (IF Up[at[q]] = App THEN {} ELSE Path(Up[at[q]]))
  BY <1>1, PathUp
<1>3. QED
  BY <1>1, <1>2 DEF Walk

LEMMA WalkStep ==
  ASSUME CheckTypes, \A q \in Requests : Walk(q), [Next]_vars
  PROVE  CheckTypes' /\ \A q \in Requests : Walk(q)'
<1> USE DispatchAssumption DEF CheckTypes, Nodes
<1>1. ASSUME NEW r \in Requests, Arrive(r)
      PROVE  CheckTypes' /\ \A q \in Requests : Walk(q)'
  BY <1>1, ZenonT(30) DEF Arrive, Walk, config
<1>2. ASSUME NEW r \in Requests, CheckDisabled(r)
      PROVE  CheckTypes' /\ \A q \in Requests : Walk(q)'
  <2>1. CASE at[r] \in disabled
    BY <1>2, <2>1 DEF CheckDisabled, Walk, config, history
  <2>2. CASE at[r] \notin disabled /\ Up[at[r]] = App
    BY <1>2, <2>2, WalkUp DEF CheckDisabled, Walk, config, history
  <2>3. CASE at[r] \notin disabled /\ Up[at[r]] # App
    BY <1>2, <2>3, WalkUp DEF CheckDisabled, Walk, config, history
  <2>4. QED
    BY <2>1, <2>2, <2>3
<1>3. ASSUME NEW r \in Requests, BuildChain(r)
      PROVE  CheckTypes' /\ \A q \in Requests : Walk(q)'
  BY <1>3 DEF BuildChain, Walk, config, history
<1>4. ASSUME NEW r \in Requests, CallNext(r) \/ WriteResponse(r) \/ RawWrite(r)
      PROVE  CheckTypes' /\ \A q \in Requests : Walk(q)'
  <2>1. UNCHANGED <<pc, at, blockers, disabled>>
    BY <1>4 DEF CallNext, WriteResponse, RawWrite, config, history
  <2>2. QED
    BY <2>1 DEF Walk
<1>5. ASSUME NEW r \in Requests, NEW e \in BOOLEAN, Return(r, e)
      PROVE  CheckTypes' /\ \A q \in Requests : Walk(q)'
  <2>1. /\ UNCHANGED <<at, blockers, disabled>>
        /\ \/ pc' = pc
           \/ pc' = [pc EXCEPT ![r] = "done"]
    BY <1>5 DEF Return, config, history
  <2>2. QED
    BY <2>1 DEF Walk
<1>6. ASSUME NEW n \in Toggled, Disable(n) \/ Enable(n)
      PROVE  CheckTypes' /\ \A q \in Requests : Walk(q)'
  <2>1. /\ UNCHANGED <<pc, at>>
        /\ blockers' = [q \in Requests |-> blockers[q] \cap disabled']
    BY <1>6 DEF Disable, Enable, Observe
  <2>2. QED
    BY <2>1 DEF Walk
<1>7. ASSUME NEW h \in Holders, NEW m \in Mws, Use(h, m)
      PROVE  CheckTypes' /\ \A q \in Requests : Walk(q)'
  BY <1>7 DEF Use, Walk, history
<1>8. CASE UNCHANGED vars
  BY <1>8 DEF vars, Walk, config, history
<1>9. QED
  BY <1>1, <1>2, <1>3, <1>4, <1>5, <1>6, <1>7, <1>8 DEF Next, RequestStep

(* In any tree of groups: a route that is disabled, or in a disabled group *)
(* at any depth, from a request's arrival on, does not run its chain,      *)
(* whatever other flags are toggled during the walk.                       *)
THEOREM DisabledClosed == Spec => []DisabledIs404
<1>1. Init => CheckTypes /\ \A q \in Requests : Walk(q)
  BY DispatchAssumption DEF Init, CheckTypes, Nodes, Walk
<1>2. CheckTypes /\ (\A q \in Requests : Walk(q)) /\ [Next]_vars
        => CheckTypes' /\ (\A q \in Requests : Walk(q))'
  BY WalkStep
<1>3. (\A q \in Requests : Walk(q)) => DisabledIs404
  BY DEF Walk, DisabledIs404
<1>4. QED
  BY <1>1, <1>2, <1>3, PTL DEF Spec

-----------------------------------------------------------------------------
(* Paths in a tree of groups.                                              *)

\* A path contains its first node and, with each node, that node's parent.
LEMMA PathClosed ==
  ASSUME NEW n \in Nodes
  PROVE  /\ n \in Path(n) /\ Path(n) \subseteq Nodes
         /\ \A m \in Path(n) : Up[m] \in Path(n) \cup {App}
<1>1. Path(n) \subseteq Nodes
  BY DEF Path, Nodes
<1>2. n \in Path(n)
  BY DEF Path, Nodes
<1>3. ASSUME NEW m \in Path(n), Up[m] # App PROVE Up[m] \in Path(n)
  <2>1. Up[m] \in Nodes
    BY <1>1, <1>3, DispatchAssumption DEF Nodes
  <2>2. ASSUME NEW S \in SUBSET Nodes, n \in S,
               \A x \in S : Up[x] \in S \cup {App}
        PROVE  Up[m] \in S
    BY <1>3, <2>2 DEF Path, Nodes
  <2>3. QED
    BY <2>1, <2>2 DEF Path, Nodes
<1>4. QED
  BY <1>1, <1>2, <1>3

\* The least set: what is closed and has the node has its path.
LEMMA PathLeast ==
  ASSUME NEW n \in Nodes, NEW S \in SUBSET Nodes, n \in S,
         \A x \in S : Up[x] \in S \cup {App}
  PROVE  Path(n) \subseteq S
BY DEF Path, Nodes

LEMMA PathTransitive ==
  ASSUME NEW n \in Nodes, NEW m \in Path(n)
  PROVE  m \in Nodes /\ Path(m) \subseteq Path(n)
<1>1. m \in Nodes
  BY PathClosed
<1>2. QED
  BY <1>1, PathClosed, PathLeast

\* Above a node there are only groups.
LEMMA PathOfGroups ==
  ASSUME NEW g \in Groups
  PROVE  Path(g) \subseteq Groups
BY PathLeast, DispatchAssumption DEF Nodes

\* The groups are a tree: none is above itself.
LEMMA NoCycle ==
  ASSUME NEW n \in Nodes, Up[n] # App
  PROVE  n \notin Path(Up[n])
<1> USE DispatchAssumption
<1> DEFINE C == {x \in Groups : Up[x] # App /\ x \in Path(Up[x])}
<1>1. ASSUME NEW x \in C PROVE Up[x] \in C
  <2>1. Up[x] \in Groups /\ Up[x] # App /\ x \in Path(Up[x])
    OBVIOUS
  <2>2. x \in {Up[x]} \cup (IF Up[Up[x]] = App THEN {} ELSE Path(Up[Up[x]]))
    BY <2>1, PathUp DEF Nodes
  <2>3. CASE x = Up[x]
    BY <2>3
  <2>4. CASE Up[Up[x]] # App /\ x \in Path(Up[Up[x]])
    <3>1. Up[Up[x]] \in Nodes
      BY <2>1, <2>4 DEF Nodes
    <3>2. Up[x] \in Path(Up[Up[x]])
      BY <2>1, <2>4, <3>1, PathClosed
    <3>3. QED
      BY <2>1, <2>4, <3>2
  <2>5. QED
    BY <2>2, <2>3, <2>4
<1>2. C = {}
  <2>1. C \in SUBSET Groups
    OBVIOUS
  <2> HIDE DEF C
  <2>2. QED
    BY <1>1, <2>1
<1>3. CASE n \in Groups
  BY <1>2, <1>3
<1>4. CASE n \in Routes
  <2>1. Up[n] \in Groups
    BY <1>4
  <2>2. QED
    BY <1>4, <2>1, PathOfGroups
<1>5. QED
  BY <1>3, <1>4 DEF Nodes

-----------------------------------------------------------------------------
(* The chain of a group, which chainMiddlewares computes along the parents.*)

\* What the recursion says of f on the set S of holders.
Chained(S, f) ==
  f = [g \in S |-> IF g = App THEN <<>> ELSE f[Up[g]] \o mws[g]]

\* A set that has the parent of each of its members.
Upward(S) ==
  /\ S \subseteq Holders /\ App \in S
  /\ \A x \in S : x # App => Up[x] \in S

\* What is closed upwards has one solution at most.
LEMMA ChainedUnique ==
  ASSUME NEW S, NEW T, Upward(S), Upward(T), NEW f, NEW h,
         Chained(S, f), Chained(T, h), NEW x \in S \cap T
  PROVE  f[x] = h[x]
<1> USE DispatchAssumption DEF Upward
<1> DEFINE D == {y \in Groups \cap S \cap T : f[y] # h[y]}
<1>1. ASSUME NEW y \in S \cap T
      PROVE  /\ f[y] = IF y = App THEN <<>> ELSE f[Up[y]] \o mws[y]
             /\ h[y] = IF y = App THEN <<>> ELSE h[Up[y]] \o mws[y]
             /\ y # App => Up[y] \in (S \cap T \cap Groups) \cup {App}
  <2>1. f[y] = IF y = App THEN <<>> ELSE f[Up[y]] \o mws[y]
    BY <1>1 DEF Chained
  <2>2. h[y] = IF y = App THEN <<>> ELSE h[Up[y]] \o mws[y]
    BY <1>1 DEF Chained
  <2>3. y # App => Up[y] \in (S \cap T \cap Groups) \cup {App}
    BY <1>1 DEF Holders
  <2>4. QED
    BY <2>1, <2>2, <2>3
<1>2. f[App] = h[App]
  BY <1>1
<1>3. D = {}
  <2>1. SUFFICES ASSUME D # {} PROVE FALSE
    OBVIOUS
  <2>2. PICK y \in D : Up[y] \notin D
    BY <2>1
  <2>3. f[Up[y]] = h[Up[y]]
    BY <1>1, <1>2, <2>2
  <2>4. QED
    BY <1>1, <2>2, <2>3
<1>4. \A y \in Groups \cap S \cap T : f[y] = h[y]
  BY <1>3
<1>5. CASE x = App
  BY <1>2, <1>5
<1>6. CASE x # App
  <2>1. f[Up[x]] = h[Up[x]]
    BY <1>1, <1>2, <1>4, <1>6
  <2>2. QED
    BY <1>1, <1>6, <2>1
<1>7. QED
  BY <1>5, <1>6

Solvable(x) == \E S \in SUBSET Holders : \E f :
                 Upward(S) /\ x \in S /\ Chained(S, f)

LEMMA SolvableDown ==
  ASSUME NEW x \in Nodes, Solvable(Up[x])
  PROVE  Solvable(x)
<1> USE DispatchAssumption
<1>1. PICK S \in SUBSET Holders : \E f :
             Upward(S) /\ Up[x] \in S /\ Chained(S, f)
  BY DEF Solvable
<1>2. PICK f : Upward(S) /\ Up[x] \in S /\ Chained(S, f)
  BY <1>1
<1>3. CASE x \in S
  BY <1>2, <1>3 DEF Solvable
<1>4. CASE x \notin S
  <2> DEFINE T == S \cup {x}
             h == [g \in T |-> IF g \in S THEN f[g] ELSE f[Up[x]] \o mws[x]]
  <2>1. x \in Holders /\ x # App
    BY DEF Holders, Nodes
  <2>2. Upward(T) /\ x \in T /\ T \in SUBSET Holders
    BY <1>2, <2>1 DEF Upward
  <2>3. ASSUME NEW g \in T
        PROVE  h[g] = IF g = App THEN <<>> ELSE h[Up[g]] \o mws[g]
    <3>1. CASE g = x
      BY <1>2, <1>4, <2>1, <3>1
    <3>2. CASE g \in S
      <4>1. f[g] = IF g = App THEN <<>> ELSE f[Up[g]] \o mws[g]
        BY <1>2, <3>2 DEF Chained
      <4>2. g # App => Up[g] \in S
        BY <1>2, <3>2 DEF Upward
      <4>3. QED
        BY <3>2, <4>1, <4>2
    <3>3. QED
      BY <3>1, <3>2
  <2>4. h = [g \in T |-> h[g]]
    OBVIOUS
  <2> HIDE DEF h
  <2>5. Chained(T, h)
    BY <2>3, <2>4 DEF Chained
  <2>6. QED
    BY <2>2, <2>5 DEF Solvable
<1>5. QED
  BY <1>3, <1>4

LEMMA AllSolvable == \A x \in Holders : Solvable(x)
<1> USE DispatchAssumption
<1>1. Solvable(App)
  <2> DEFINE h == [g \in {App} |-> <<>>]
  <2>1. Upward({App}) /\ {App} \in SUBSET Holders
    BY DEF Upward, Holders
  <2>2. h = [g \in {App} |-> IF g = App THEN <<>> ELSE h[Up[g]] \o mws[g]]
    OBVIOUS
  <2> HIDE DEF h
  <2>3. Chained({App}, h)
    BY <2>2 DEF Chained
  <2>4. QED
    BY <2>1, <2>3 DEF Solvable
<1>2. \A g \in Groups : Solvable(g)
  <2> DEFINE B == {g \in Groups : ~Solvable(g)}
  <2>1. SUFFICES ASSUME B # {} PROVE FALSE
    OBVIOUS
  <2>2. PICK g \in B : Up[g] \notin B
    BY <2>1
  <2>3. Solvable(Up[g])
    BY <1>1, <2>2
  <2>4. QED
    BY <2>2, <2>3, SolvableDown DEF Nodes
<1>3. \A r \in Routes : Solvable(r)
  BY <1>1, <1>2, SolvableDown DEF Nodes
<1>4. QED
  BY <1>1, <1>2, <1>3 DEF Holders

\* The recursion defines ChainMiddlewares.
LEMMA ChainUnfolds ==
  \A x \in Holders :
    ChainMiddlewares[x] =
      IF x = App THEN <<>> ELSE ChainMiddlewares[Up[x]] \o mws[x]
<1> USE DispatchAssumption
<1> DEFINE Value(x, v) == \E S \in SUBSET Holders : \E f :
                 Upward(S) /\ x \in S /\ Chained(S, f) /\ v = f[x]
           F == [x \in Holders |-> CHOOSE v : Value(x, v)]
<1>1. ASSUME NEW x \in Holders PROVE Value(x, F[x])
  <2>1. \E v : Value(x, v)
    BY AllSolvable DEF Solvable
  <2> HIDE DEF Value
  <2>2. Value(x, CHOOSE v : Value(x, v))
    BY <2>1
  <2>3. QED
    BY <2>2
<1>2. ASSUME NEW x \in Holders
      PROVE  F[x] = IF x = App THEN <<>> ELSE F[Up[x]] \o mws[x]
  <2> HIDE DEF F
  <2>1. PICK S \in SUBSET Holders : \E f :
             Upward(S) /\ x \in S /\ Chained(S, f) /\ F[x] = f[x]
    BY <1>1
  <2>2. PICK f : Upward(S) /\ x \in S /\ Chained(S, f) /\ F[x] = f[x]
    BY <2>1
  <2>3. f[x] = IF x = App THEN <<>> ELSE f[Up[x]] \o mws[x]
    BY <2>2 DEF Chained
  <2>4. CASE x = App
    BY <2>2, <2>3, <2>4
  <2>5. CASE x # App
    <3>1. Up[x] \in S /\ Up[x] \in Holders
      BY <2>2, <2>5 DEF Upward
    <3>2. PICK T \in SUBSET Holders : \E h :
             Upward(T) /\ Up[x] \in T /\ Chained(T, h) /\ F[Up[x]] = h[Up[x]]
      BY <1>1, <3>1
    <3>3. PICK h : Upward(T) /\ Up[x] \in T /\ Chained(T, h)
                   /\ F[Up[x]] = h[Up[x]]
      BY <3>2
    <3>4. f[Up[x]] = h[Up[x]]
      BY <2>2, <3>1, <3>3, ChainedUnique
    <3>5. QED
      BY <2>2, <2>3, <2>5, <3>3, <3>4
  <2>6. QED
    BY <2>4, <2>5
<1>3. F = [x \in Holders |-> F[x]]
  OBVIOUS
<1> HIDE DEF F
<1>4. F = [x \in Holders |-> IF x = App THEN <<>> ELSE F[Up[x]] \o mws[x]]
  BY <1>2, <1>3
<1> DEFINE E(f) == f = [x \in Holders |->
                         IF x = App THEN <<>> ELSE f[Up[x]] \o mws[x]]
<1>5. ChainMiddlewares = CHOOSE f : E(f)
  BY DEF ChainMiddlewares
<1>6. E(F)
  BY <1>4
<1> HIDE DEF E
<1>7. E(ChainMiddlewares)
  BY <1>5, <1>6
<1>8. ChainMiddlewares = [x \in Holders |-> IF x = App THEN <<>>
                            ELSE ChainMiddlewares[Up[x]] \o mws[x]]
  BY <1>7 DEF E
<1>9. QED
  BY <1>8

-----------------------------------------------------------------------------
(* What the lists of middlewares are at any moment, and what a chain built *)
(* from them holds.                                                        *)

\* Every middleware is in one list at most.
ListsOK ==
  /\ mws \in [Holders -> Seq(Mws)]
  /\ \A a, b \in Holders : a # b => Range(mws[a]) \cap Range(mws[b]) = {}

\* Outermost first: nothing stands before what belongs above it.
Ordered(c) ==
  \A i, j \in 1..Len(c) : \A g, h \in Holders :
     i < j /\ c[i] \in Range(mws[g]) /\ c[j] \in Range(mws[h]) => ~Above(h, g)

\* c holds the middlewares of the nodes in S, all of them and no others.
Holds(c, S) ==
  /\ c \in Seq(Mws)
  /\ \A h \in S : Range(mws[h]) \subseteq Range(c)
  /\ \A i \in 1..Len(c) : \E h \in S : c[i] \in Range(mws[h])

\* One list after another: those of the second go behind those of the first
\* unless they belong above them.
LEMMA Joined ==
  ASSUME ListsOK, NEW S \in SUBSET Holders, NEW T \in SUBSET Holders,
         NEW c, NEW e, Holds(c, S), Ordered(c), Holds(e, T), Ordered(e),
         \A s \in S, t \in T : ~Above(t, s)
  PROVE  Holds(c \o e, S \cup T) /\ Ordered(c \o e)
<1> DEFINE d == c \o e
           k == Len(c)
<1>1. c \in Seq(Mws) /\ e \in Seq(Mws)
  BY DEF Holds
<1>2. /\ d \in Seq(Mws) /\ k \in Nat /\ Len(e) \in Nat
      /\ Len(d) = k + Len(e)
      /\ \A i \in 1..Len(d) : d[i] = IF i <= k THEN c[i] ELSE e[i - k]
  BY <1>1
<1>3. /\ \A i \in 1..k : i \in 1..Len(d) /\ d[i] = c[i]
      /\ \A i \in 1..Len(e) : k + i \in 1..Len(d) /\ d[k + i] = e[i]
  BY <1>2
<1>4. /\ Range(c) = {c[i] : i \in 1..k}
      /\ Range(e) = {e[i] : i \in 1..Len(e)}
      /\ Range(d) = {d[i] : i \in 1..Len(d)}
  BY <1>1, <1>2, RangeEquality
<1>5. \A i \in 1..Len(d) :
        \/ i <= k /\ i \in 1..k /\ d[i] = c[i]
        \/ i > k /\ i - k \in 1..Len(e) /\ d[i] = e[i - k]
  BY <1>2
<1> HIDE DEF d, k
<1>6. Range(c) \subseteq Range(d) /\ Range(e) \subseteq Range(d)
  BY <1>3, <1>4
<1>7. Holds(d, S \cup T)
  <2>1. \A h \in S \cup T : Range(mws[h]) \subseteq Range(d)
    BY <1>6 DEF Holds
  <2>2. \A i \in 1..Len(d) : \E h \in S \cup T : d[i] \in Range(mws[h])
    BY <1>5 DEF Holds, k
  <2>3. QED
    BY <1>2, <2>1, <2>2 DEF Holds
<1>8. Ordered(d)
  <2> SUFFICES ASSUME NEW i \in 1..Len(d), NEW j \in 1..Len(d),
                      NEW g \in Holders, NEW h \in Holders, i < j,
                      d[i] \in Range(mws[g]), d[j] \in Range(mws[h])
               PROVE  ~Above(h, g)
    BY DEF Ordered
  <2>1. CASE j <= k
    <3>1. i \in 1..k /\ j \in 1..k /\ d[i] = c[i] /\ d[j] = c[j]
      BY <1>2, <1>5, <2>1
    <3>2. QED
      BY <3>1 DEF Ordered, k
  <2>2. CASE j > k /\ i <= k
    <3>1. i \in 1..k /\ d[i] = c[i] /\ j - k \in 1..Len(e) /\ d[j] = e[j - k]
      BY <1>2, <1>5, <2>2
    <3>2. PICK s \in S : c[i] \in Range(mws[s])
      BY <3>1 DEF Holds, k
    <3>3. PICK t \in T : e[j - k] \in Range(mws[t])
      BY <3>1 DEF Holds
    <3>4. s = g /\ t = h
      BY <3>1, <3>2, <3>3 DEF ListsOK
    <3>5. QED
      BY <3>4
  <2>3. CASE i > k
    <3>1. /\ i - k \in 1..Len(e) /\ j - k \in 1..Len(e)
          /\ d[i] = e[i - k] /\ d[j] = e[j - k] /\ i - k < j - k
      BY <1>2, <1>5, <2>3
    <3>2. QED
      BY <3>1 DEF Ordered
  <2>4. QED
    BY <1>2, <2>1, <2>2, <2>3
<1>9. QED
  BY <1>7, <1>8 DEF d

\* A list by itself.
LEMMA OwnList ==
  ASSUME ListsOK, NEW n \in Holders
  PROVE  Holds(mws[n], {n}) /\ Ordered(mws[n])
<1>1. mws[n] \in Seq(Mws)
  BY DEF ListsOK
<1>2. \A i \in 1..Len(mws[n]) : mws[n][i] \in Range(mws[n])
  BY <1>1 DEF Range
<1>3. Holds(mws[n], {n})
  BY <1>1, <1>2 DEF Holds
<1>4. ASSUME NEW i \in 1..Len(mws[n]), NEW h \in Holders,
             mws[n][i] \in Range(mws[h])
      PROVE  h = n
  BY <1>2, <1>4 DEF ListsOK
<1>5. QED
  BY <1>3, <1>4 DEF Ordered, Above

\* Nothing on a node's path but the node itself is below it.
LEMMA NotBelow ==
  ASSUME NEW n \in Nodes, Up[n] # App, NEW s \in Path(Up[n])
  PROVE  ~Above(n, s)
<1>1. Up[n] \in Nodes /\ App \notin Nodes
  BY DispatchAssumption DEF Nodes
<1>2. Path(s) \subseteq Path(Up[n])
  BY <1>1, PathTransitive
<1>3. n \notin Path(s)
  BY <1>2, NoCycle
<1>4. QED
  BY <1>1, <1>3 DEF Above

\* The nodes whose middlewares ChainMiddlewares collects.
Covered(x) == IF x = App THEN {} ELSE Path(x)

LEMMA PathIs ==
  ASSUME NEW n \in Nodes
  PROVE  Path(n) = Covered(Up[n]) \cup {n}
<1>1. Path(n) \subseteq Covered(Up[n]) \cup {n}
  BY PathUp DEF Covered
<1>2. n \in Path(n)
  BY PathClosed
<1>3. Up[n] # App => Up[n] \in Path(n)
  BY <1>2, PathClosed
<1>4. Up[n] # App => Path(Up[n]) \subseteq Path(n)
  BY <1>3, PathTransitive
<1>5. QED
  BY <1>1, <1>2, <1>4 DEF Covered

\* What chainMiddlewares returns: all of the group's and its ancestors'
\* middlewares, no others, an ancestor's before a descendant's.
ChainOK(x) ==
  /\ Holds(ChainMiddlewares[x], Covered(x))
  /\ Ordered(ChainMiddlewares[x])

LEMMA ChainDown ==
  ASSUME ListsOK, NEW n \in Groups, ChainOK(Up[n])
  PROVE  ChainOK(n)
<1> USE DispatchAssumption
<1>1. n \in Nodes /\ n \in Holders /\ n # App /\ Up[n] \in Holders
  BY DEF Nodes, Holders
<1>2. ChainMiddlewares[n] = ChainMiddlewares[Up[n]] \o mws[n]
  BY <1>1, ChainUnfolds
<1>3. Covered(n) = Covered(Up[n]) \cup {n}
  BY <1>1, PathIs DEF Covered
<1>4. Covered(Up[n]) \subseteq Holders
  <2>1. Up[n] # App => Up[n] \in Nodes
    BY <1>1 DEF Nodes
  <2>2. QED
    BY <2>1, PathClosed DEF Covered, Holders, Nodes
<1>5. \A s \in Covered(Up[n]) : ~Above(n, s)
  BY <1>1, NotBelow DEF Covered
<1> DEFINE c == ChainMiddlewares[Up[n]]
           S == Covered(Up[n])
<1>6. Holds(c, S) /\ Ordered(c) /\ Holds(mws[n], {n}) /\ Ordered(mws[n])
  BY <1>1, OwnList DEF ChainOK
<1> HIDE DEF c, S
<1>7. Holds(c \o mws[n], S \cup {n}) /\ Ordered(c \o mws[n])
  BY <1>1, <1>4, <1>5, <1>6, Joined DEF S
<1>8. QED
  BY <1>2, <1>3, <1>7 DEF ChainOK, c, S

LEMMA ChainsOK ==
  ASSUME ListsOK, NEW x \in Groups \cup {App}
  PROVE  ChainOK(x)
<1> USE DispatchAssumption
<1>1. ChainOK(App)
  <2>1. ChainMiddlewares[App] = <<>>
    BY ChainUnfolds DEF Holders
  <2>2. QED
    BY <2>1 DEF ChainOK, Covered, Holds, Ordered
<1> DEFINE B == {g \in Groups : ~ChainOK(g)}
<1>2. B = {}
  <2>1. SUFFICES ASSUME B # {} PROVE FALSE
    OBVIOUS
  <2>2. PICK g \in B : Up[g] \notin B
    BY <2>1
  <2>3. ChainOK(Up[g])
    BY <1>1, <2>2
  <2>4. QED
    BY <2>2, <2>3, ChainDown
<1>3. QED
  BY <1>1, <1>2

\* What buildHandlers returns: the global middlewares, those of the route's
\* groups and the route's own, in this order, and then the route's handler.
LEMMA BuiltOK ==
  ASSUME ListsOK, NEW r \in Routes
  PROVE  \E c : /\ BuildHandlers(r) = Append(c, r) /\ Ordered(c)
                /\ Holds(c, Path(r) \cup {App})
<1> USE DispatchAssumption
<1>1. r \in Nodes /\ r \in Holders /\ App \in Holders /\ App \notin Nodes
      /\ Up[r] \in Groups \cup {App}
  BY DEF Nodes, Holders
<1> DEFINE a == ChainMiddlewares[Up[r]]
           S == Covered(Up[r])
<1>2. Holds(a, S) /\ Ordered(a)
  BY <1>1, ChainsOK DEF ChainOK
<1>3. S \subseteq Nodes /\ S \subseteq Holders
  <2>1. Up[r] # App => Up[r] \in Nodes
    BY <1>1 DEF Nodes
  <2>2. QED
    BY <2>1, PathClosed DEF Covered, Holders, Nodes
<1>4. \A s \in S : ~Above(r, s)
  BY <1>1, NotBelow DEF Covered
<1>5. Path(r) = S \cup {r}
  BY <1>1, PathIs
<1> HIDE DEF a, S
<1>6. /\ Holds(mws[App], {App}) /\ Ordered(mws[App])
      /\ Holds(mws[r], {r}) /\ Ordered(mws[r])
  BY <1>1, OwnList
<1>7. \A s \in S \cup {r} : ~Above(s, App)
  BY DEF Above
<1>8. Holds(mws[App] \o a, {App} \cup S) /\ Ordered(mws[App] \o a)
  BY <1>1, <1>2, <1>3, <1>6, <1>7, Joined
<1> DEFINE b == mws[App] \o a
           T == {App} \cup S
<1>9. ~Above(r, App)
  BY <1>7
<1>10. \A s \in T : ~Above(r, s)
  BY <1>4, <1>9
<1>11. T \in SUBSET Holders /\ Holds(b, T) /\ Ordered(b)
  BY <1>1, <1>3, <1>8
<1>12. Path(r) \cup {App} = T \cup {r}
  BY <1>5
<1> HIDE DEF b, T
<1>13. Holds(b \o mws[r], T \cup {r}) /\ Ordered(b \o mws[r])
  BY <1>1, <1>6, <1>10, <1>11, Joined
<1>14. BuildHandlers(r) = Append(b \o mws[r], r)
  <2>1. b \in Seq(Mws) /\ mws[r] \in Seq(Mws)
    BY <1>6, <1>11 DEF Holds
  <2>2. b \o Append(mws[r], r) = Append(b \o mws[r], r)
    <3>1. b \in Seq(Mws \cup {r}) /\ mws[r] \in Seq(Mws \cup {r})
      BY <2>1
    <3>2. QED
      BY <3>1
  <2>3. QED
    BY <2>2 DEF BuildHandlers, b, a
<1>15. QED
  BY <1>12, <1>13, <1>14

-----------------------------------------------------------------------------
(* The middlewares around a handler.                                       *)

\* The middlewares of the chain of q, and those its route has now.
Guards(q) == 1..(Len(chain[q]) - 1)
Mine(q) == UNION {Range(mws[h]) : h \in Path(RouteOf[q]) \cup {App}}

\* No chain is built before a request leaves the check; what its route had
\* when it arrived, its route still has then, and its chain from then on;
\* every middleware of a chain is in some list, and they are in order.
GuardInv(q) ==
  /\ pc[q] \in {"idle", "check", "build"} => chain[q] = <<>>
  /\ pc[q] \in {"check", "build"} => owed[q] \subseteq Mine(q)
  /\ chain[q] \in Seq(Mws \cup Routes)
  /\ chain[q] # <<>> => owed[q] \subseteq Range(chain[q])
  /\ \A i \in Guards(q) : \E h \in Holders : chain[q][i] \in Range(mws[h])
  /\ \A i, j \in Guards(q) : \A g, h \in Holders :
       i < j /\ chain[q][i] \in Range(mws[g]) /\ chain[q][j] \in Range(mws[h])
         => ~Above(h, g)

GuardTypes ==
  /\ ListsOK
  /\ owed = [q \in Requests |-> owed[q]]

\* Registering a middleware takes nothing from anyone.
LEMMA GuardUse ==
  ASSUME Types, GuardTypes, \A q \in Requests : GuardInv(q),
         NEW h \in Holders, NEW m \in Mws, Use(h, m)
  PROVE  GuardTypes' /\ \A q \in Requests : GuardInv(q)'
<1>1. /\ mws' = [mws EXCEPT ![h] = Append(@, m)]
      /\ \A g \in Holders : m \notin Range(mws[g])
      /\ UNCHANGED <<pc, chain, owed>>
  BY DEF Use, history
<1>2. mws \in [Holders -> Seq(Mws)]
  BY DEF GuardTypes, ListsOK
<1>3. mws' \in [Holders -> Seq(Mws)]
  BY <1>1, <1>2
<1>4. \A g \in Holders : Range(mws'[g]) = IF g = h THEN Range(mws[g]) \cup {m}
                                                   ELSE Range(mws[g])
  <2>1. Range(Append(mws[h], m)) = Range(mws[h]) \cup {m}
    <3>1. mws[h] \in Seq(Mws)
      BY <1>2
    <3>2. /\ Len(Append(mws[h], m)) = Len(mws[h]) + 1 /\ Len(mws[h]) \in Nat
          /\ DOMAIN Append(mws[h], m) = 1..(Len(mws[h]) + 1)
          /\ \A i \in 1..Len(mws[h]) : Append(mws[h], m)[i] = mws[h][i]
          /\ Append(mws[h], m)[Len(mws[h]) + 1] = m
          /\ DOMAIN mws[h] = 1..Len(mws[h])
      BY <3>1
    <3>3. QED
      BY <3>2 DEF Range
  <2>2. QED
    BY <1>1, <1>2, <2>1
<1>5. GuardTypes'
  <2>1. \A a, b \in Holders : a # b => Range(mws[a]) \cap Range(mws[b]) = {}
    BY DEF GuardTypes, ListsOK
  <2>2. ASSUME NEW a \in Holders, NEW b \in Holders, a # b
        PROVE  Range(mws'[a]) \cap Range(mws'[b]) = {}
    <3>1. /\ Range(mws'[a]) \subseteq Range(mws[a]) \cup {m}
          /\ Range(mws'[b]) \subseteq Range(mws[b]) \cup {m}
          /\ Range(mws'[a]) = Range(mws[a]) \/ Range(mws'[b]) = Range(mws[b])
      BY <1>4, <2>2
    <3>2. Range(mws[a]) \cap Range(mws[b]) = {}
      BY <2>1, <2>2
    <3>3. m \notin Range(mws[a]) /\ m \notin Range(mws[b])
      BY <1>1
    <3>4. QED
      BY <3>1, <3>2, <3>3
  <2>3. QED
    BY <1>1, <1>3, <2>2 DEF GuardTypes, ListsOK
<1>6. ASSUME NEW q \in Requests PROVE GuardInv(q)'
  <2>1. Mine(q) \subseteq Mine(q)'
    <3>1. Path(RouteOf[q]) \cup {App} \subseteq Holders
      BY PathClosed, DispatchAssumption DEF Nodes, Holders
    <3>2. QED
      BY <1>4, <3>1 DEF Mine
  <2>2. ASSUME NEW i \in Guards(q), NEW g \in Holders
        PROVE  chain[q][i] \in Range(mws'[g]) <=> chain[q][i] \in Range(mws[g])
    <3>1. PICK k \in Holders : chain[q][i] \in Range(mws[k])
      BY DEF GuardInv
    <3>2. chain[q][i] # m
      BY <1>1, <3>1
    <3>3. QED
      BY <1>4, <3>2
  <2>3. Guards(q)' = Guards(q)
    BY <1>1 DEF Guards
  <2>4. \A i \in Guards(q) : \E k \in Holders : chain[q][i] \in Range(mws'[k])
    BY <2>2 DEF GuardInv
  <2>5. \A i, j \in Guards(q) : \A g, k \in Holders :
          i < j /\ chain[q][i] \in Range(mws'[g])
                /\ chain[q][j] \in Range(mws'[k]) => ~Above(k, g)
    BY <2>2 DEF GuardInv
  <2>6. QED
    BY <1>1, <2>1, <2>3, <2>4, <2>5 DEF GuardInv
<1>7. QED
  BY <1>5, <1>6

\* Building the chain.
LEMMA GuardBuild ==
  ASSUME Types, GuardTypes, NEW q \in Requests, GuardInv(q), BuildChain(q)
  PROVE  GuardInv(q)'
<1>1. /\ pc[q] = "build" /\ pc'[q] = "run" /\ UNCHANGED <<mws, owed>>
      /\ chain'[q] = BuildHandlers(RouteOf[q])
  BY DEF BuildChain, Types, config, history
<1>2. RouteOf[q] \in Routes
  BY DispatchAssumption
<1>3. PICK c : /\ BuildHandlers(RouteOf[q]) = Append(c, RouteOf[q])
               /\ Ordered(c) /\ Holds(c, Path(RouteOf[q]) \cup {App})
  BY <1>2, BuiltOK DEF GuardTypes
<1>4. /\ c \in Seq(Mws \cup Routes) /\ Len(c) \in Nat
      /\ chain'[q] \in Seq(Mws \cup Routes)
      /\ Len(chain'[q]) = Len(c) + 1
      /\ \A i \in 1..Len(c) : chain'[q][i] = c[i] /\ i \in 1..Len(chain'[q])
      /\ DOMAIN chain'[q] = 1..Len(chain'[q]) /\ DOMAIN c = 1..Len(c)
  <2>1. c \in Seq(Mws \cup Routes)
    BY <1>3 DEF Holds
  <2>2. QED
    BY <1>1, <1>2, <1>3, <2>1
<1>5. Guards(q)' = 1..Len(c)
  BY <1>4 DEF Guards
<1>6. Path(RouteOf[q]) \cup {App} \subseteq Holders
  BY <1>2, PathClosed DEF Nodes, Holders
<1>7. owed[q] \subseteq Range(c)
  BY <1>1, <1>3 DEF GuardInv, Mine, Holds
<1>8. Range(c) \subseteq Range(chain'[q])
  BY <1>4 DEF Range
<1>9. \A i \in 1..Len(c) : \E h \in Holders : chain'[q][i] \in Range(mws'[h])
  BY <1>1, <1>3, <1>4, <1>6 DEF Holds
<1>10. \A i, j \in 1..Len(c) : \A g, h \in Holders :
          i < j /\ chain'[q][i] \in Range(mws'[g])
                /\ chain'[q][j] \in Range(mws'[h]) => ~Above(h, g)
  BY <1>1, <1>3, <1>4 DEF Ordered
<1>11. QED
  BY <1>1, <1>4, <1>5, <1>7, <1>8, <1>9, <1>10 DEF GuardInv

LEMMA GuardStep ==
  ASSUME Types, GuardTypes, \A q \in Requests : GuardInv(q), [Next]_vars
  PROVE  GuardTypes' /\ \A q \in Requests : GuardInv(q)'
<1>1. ASSUME NEW r \in Requests, Arrive(r)
      PROVE  GuardTypes' /\ \A q \in Requests : GuardInv(q)'
  <2>1. /\ pc[r] = "idle" /\ pc' = [pc EXCEPT ![r] = "check"]
        /\ owed' = [owed EXCEPT ![r] = Mine(r)]
        /\ UNCHANGED <<mws, chain>>
    BY <1>1 DEF Arrive, Mine, config
  <2>2. GuardTypes'
    BY <2>1 DEF GuardTypes, ListsOK
  <2>3. ASSUME NEW q \in Requests, q # r PROVE GuardInv(q)'
    <3>1. pc'[q] = pc[q] /\ owed'[q] = owed[q]
      BY <2>1, <2>3 DEF Types, GuardTypes
    <3>2. QED
      BY <2>1, <3>1 DEF GuardInv, Guards, Mine
  <2>4. GuardInv(r)'
    <3>1. chain[r] = <<>> /\ pc'[r] = "check" /\ owed'[r] = Mine(r)
      BY <2>1 DEF GuardInv, Types, GuardTypes
    <3>2. QED
      BY <2>1, <3>1 DEF GuardInv, Guards, Mine
  <2>5. QED
    BY <2>2, <2>3, <2>4
<1>2. ASSUME NEW r \in Requests, BuildChain(r)
      PROVE  GuardTypes' /\ \A q \in Requests : GuardInv(q)'
  <2>1. /\ pc' = [pc EXCEPT ![r] = "run"] /\ UNCHANGED <<mws, owed>>
        /\ chain' = [chain EXCEPT ![r] = BuildHandlers(RouteOf[r])]
    BY <1>2 DEF BuildChain, config, history
  <2>2. ASSUME NEW q \in Requests, q # r PROVE GuardInv(q)'
    <3>1. pc'[q] = pc[q] /\ chain'[q] = chain[q]
      BY <2>1, <2>2 DEF Types
    <3>2. QED
      BY <2>1, <3>1 DEF GuardInv, Guards, Mine
  <2>3. QED
    BY <1>2, <2>1, <2>2, GuardBuild DEF GuardTypes, ListsOK
<1>3. ASSUME UNCHANGED <<mws, chain, owed>>,
             \A q \in Requests :
               \/ pc'[q] = pc[q]
               \/ pc'[q] = "build" /\ pc[q] = "check"
               \/ pc'[q] = "done"
      PROVE  GuardTypes' /\ \A q \in Requests : GuardInv(q)'
  BY <1>3 DEF GuardTypes, ListsOK, GuardInv, Guards, Mine
<1>4. ASSUME NEW r \in Requests, CheckDisabled(r)
      PROVE  GuardTypes' /\ \A q \in Requests : GuardInv(q)'
  <2>1. /\ UNCHANGED <<mws, chain, owed>> /\ pc[r] = "check"
        /\ \/ pc' = pc \/ pc' = [pc EXCEPT ![r] = "build"]
           \/ pc' = [pc EXCEPT ![r] = "done"]
    BY <1>4 DEF CheckDisabled, config, history
  <2>2. QED
    BY <1>3, <2>1 DEF Types
<1>5. ASSUME NEW r \in Requests, NEW e \in BOOLEAN, Return(r, e)
      PROVE  GuardTypes' /\ \A q \in Requests : GuardInv(q)'
  <2>1. /\ UNCHANGED <<mws, chain, owed>>
        /\ \/ pc' = pc \/ pc' = [pc EXCEPT ![r] = "done"]
    <3>1. pc' = [pc EXCEPT ![r] = "done"] \/ pc' = [pc EXCEPT ![r] = pc[r]]
      BY <1>5 DEF Return
    <3>2. QED
      BY <1>5, <3>1 DEF Return, config, history, Types
  <2>2. QED
    BY <1>3, <2>1 DEF Types
<1>6. ASSUME NEW r \in Requests, CallNext(r) \/ WriteResponse(r) \/ RawWrite(r)
      PROVE  GuardTypes' /\ \A q \in Requests : GuardInv(q)'
  <2>1. UNCHANGED <<mws, chain, owed, pc>>
    BY <1>6 DEF CallNext, WriteResponse, RawWrite, config, history
  <2>2. QED
    BY <1>3, <2>1
<1>7. ASSUME NEW n \in Toggled, Disable(n) \/ Enable(n)
      PROVE  GuardTypes' /\ \A q \in Requests : GuardInv(q)'
  <2>1. UNCHANGED <<mws, chain, owed, pc>>
    BY <1>7 DEF Disable, Enable
  <2>2. QED
    BY <1>3, <2>1
<1>8. CASE UNCHANGED vars
  <2>1. UNCHANGED <<mws, chain, owed, pc>>
    BY <1>8 DEF vars, config, history
  <2>2. QED
    BY <1>3, <2>1
<1>9. QED
  BY <1>1, <1>2, <1>4, <1>5, <1>6, <1>7, <1>8, GuardUse DEF Next, RequestStep

(* In any tree of groups, with any lists that grow at any moment: when no  *)
(* element calls Next twice, a handler runs inside every middleware that   *)
(* the instance, its route and all groups above it had when its request    *)
(* arrived, and the chain has them outermost first.                        *)
THEOREM GuardsAlwaysHold == ASSUME MaxNext = 1 PROVE Spec => []GuardsHold
<1> DEFINE Inv == Types /\ GuardTypes /\ \A q \in Requests : GuardInv(q)
<1>1. Init => Inv
  <2> SUFFICES ASSUME Init PROVE GuardTypes /\ \A q \in Requests : GuardInv(q)
    BY TypesInit
  <2>1. ListsOK
    BY DEF Init, ListsOK, Range
  <2>2. \A q \in Requests : chain[q] = <<>> /\ pc[q] = "idle"
    BY DEF Init
  <2>3. owed = [q \in Requests |-> owed[q]]
    BY DEF Init
  <2>4. ASSUME NEW q \in Requests PROVE GuardInv(q)
    <3>1. Len(<<>>) = 0 /\ <<>> \in Seq(Mws \cup Routes)
      OBVIOUS
    <3>2. Guards(q) = {} /\ chain[q] = <<>> /\ pc[q] = "idle"
      BY <2>2, <3>1 DEF Guards
    <3>3. QED
      BY <3>1, <3>2 DEF GuardInv
  <2>5. QED
    BY <2>1, <2>3, <2>4 DEF GuardTypes
<1>2. Inv /\ [Next]_vars => Inv'
  BY TypesStep, GuardStep
<1>3. Inv /\ HandlerGuarded => GuardsHold
  <2> SUFFICES ASSUME Inv, HandlerGuarded, NEW q \in Requests
      PROVE  /\ Handling(q) =>
                  owed[q] \subseteq {Element(q, i) : i \in 1..Len(stack[q])}
             /\ \A i, j \in 1..(Len(chain[q]) - 1) : \A g, h \in Holders :
                  i < j /\ chain[q][i] \in Range(mws[g])
                        /\ chain[q][j] \in Range(mws[h]) => ~Above(h, g)
    BY DEF GuardsHold
  <2>1. ASSUME Handling(q)
        PROVE  owed[q] \subseteq {Element(q, i) : i \in 1..Len(stack[q])}
    <3>1. /\ Len(stack[q]) = Len(chain[q])
          /\ \A i \in 1..Len(stack[q]) : stack[q][i].pos = i
      BY <2>1 DEF HandlerGuarded
    <3>2. chain[q] # <<>> /\ chain[q] \in Seq(Mws \cup Routes)
      BY <2>1, <3>1 DEF Handling, GuardInv
    <3>3. owed[q] \subseteq Range(chain[q])
      BY <3>2 DEF GuardInv
    <3>4. Range(chain[q]) = {chain[q][i] : i \in 1..Len(chain[q])}
      BY <3>2, RangeEquality
    <3>5. QED
      BY <3>1, <3>3, <3>4 DEF Element
  <2>2. QED
    BY <2>1 DEF GuardInv, Guards
<1>4. QED
  BY <1>1, <1>2, <1>3, HandlerRunsGuarded, PTL DEF Spec
=============================================================================
