-------------------------- MODULE DeploymentProofs --------------------------
(***************************************************************************)
(* For all deployments that are configured as DeploymentAssumption says,   *)
(* whatever their processes, and any number of retries, requests and       *)
(* failures: calls are direct, and several processes answer like one.      *)
(*                                                                         *)
(* The inductive invariant StackInv describes the requests in progress:    *)
(* perhaps a gateway's, then that of the process which handles the         *)
(* client's request, and perhaps a call that it makes.                     *)
(***************************************************************************)
EXTENDS Deployment, SequenceTheorems, TLAPS

-----------------------------------------------------------------------------
(* The invariant *)

\* Where the client's request is handled: behind a gateway or not.
Depth == IF stack[1].pc = "proxying" THEN 2 ELSE 1

AsAsked(f) == f.route = request.route /\ f.headers = request.headers /\ f.token = request.token

\* Where a client's food is recorded, the request is internal if the client has
\* said so, or the gateway.
Vouched(f) ==
  f.route = "record" /\ Serves(deployment, f.at, f.route) => (f.internal <=> A!Accepted)

Recommends(f) == f.route \in RecommendationsGroup /\ Serves(deployment, f.at, f.route)

\* How far a handler has come says what it has received.
Progress(f) ==
  /\ f.call = 1 \/ Recommends(f)
  /\ f.call > 1 => request.token
  /\ f.route = "food" =>
       /\ f.call <= 11
       /\ f.call > 2 => ~A!MustFail /\ ~A!MustStall
       /\ f.call > 10 => stored > 0
  /\ f.route = "food-by-id" => f.call <= 3 /\ (f.call > 2 => foods > 0)
  /\ f.route # "food" \/ f.call < 10 => stored = 0

\* An answer that the client may get.
Deserved(status) ==
  /\ A!Promised(status)
  /\ request.route \in {"food", "record"} /\ status \in {200, 201} => stored > 0
  /\ faults = 0 /\ stored > 0 => status \in {200, 201}

HandlerOK(f) ==
  /\ AsAsked(f) /\ Vouched(f)
  /\ f.pc = "arrived" => Progress(f) /\ (f.call = 10 /\ stored > 0 => faults > 0)
  /\ f.pc = "calling" => Progress(f) /\ Recommends(f) /\ f.call <= Len(Calls(f.route))
  /\ f.pc = "answered" => Deserved(f.status) \/ (f.status = 0 /\ Depth = 2 /\ faults > 0)

\* What an answer to a call says.
Successful(status, slow) == status \in {200, 201} /\ ~slow

Outcome(route, status, slow) ==
  /\ Successful(status, slow) =>
       /\ route = "authenticate" => request.token
       /\ route = "ingredients" => ~A!MustFail /\ ~A!MustStall
       /\ route = "recommendation" => foods > 0
       /\ route = "record" => stored > 0
  /\ ~Successful(status, slow) =>
       /\ stored > 0 => faults > 0
       /\ \/ faults > 0
          \/ route = "authenticate" /\ ~request.token
          \/ route = "ingredients" /\ (A!MayFail \/ A!MayStall)
          \/ route = "recommendation" /\ status = 404
  /\ route = "recommendation" /\ status = 404 => foods = 0

\* A call e of a handler c.
CallOK(c, e) ==
  /\ e.route = Calls(c.route)[c.call] /\ Serves(deployment, e.at, e.route)
  /\ e.token = (c.token /\ (c.route = "food" \/ c.call = 1))
  /\ e.headers = IF c.route = "food" /\ c.call > 1 THEN AddErrorHeaders(c.headers) ELSE NoHeaders
  /\ e.internal
  /\ e.pc = "arrived" => ~e.slow /\ (stored > 0 => faults > 0)
  /\ e.pc = "answered" => Outcome(e.route, e.status, e.slow)

\* A gateway passes the request on to a process that has none.
GatewayOK ==
  /\ AsAsked(stack[1]) /\ Len(stack) > 1
  /\ HasGateway(deployment, deployment.entry)
  /\ request.route \in ProxiedRoutes /\ ~Serves(deployment, deployment.entry, request.route)
  /\ stack[2].at = deployment.endpoint[Target(request.route)]

StackInv ==
  stack # <<>> =>
    /\ stack[1].at = deployment.entry
    /\ Depth = 2 => GatewayOK
    /\ HandlerOK(stack[Depth])
    /\ \/ /\ Len(stack) = Depth
          /\ Top.pc \in {"arrived", "answered"}
       \/ /\ Len(stack) = Depth + 1
          /\ stack[Depth].pc = "calling"
          /\ Top.pc \in {"arrived", "answered"} /\ CallOK(stack[Depth], Top)

DInv == TypeOK /\ StackInv

-----------------------------------------------------------------------------
(* The stack *)

\* The ways in which a stack t comes from a stack s.
Replaces(s, x, t) == t = Append(Front(s), x)
Pushes(s, x, y, t) == t = Append(Front(s), x) \o <<y>>
Pops(s, x, t) == t = Append(SubSeq(s, 1, Len(s) - 2), x)

\* Lengths of the parts of a stack.
LEMMA Lengths ==
  ASSUME NEW n \in Nat
  PROVE  /\ n >= 1 => (IF 1 <= n - 1 THEN n - 1 - 1 + 1 ELSE 0) = n - 1
         /\ n > 1 => (IF 1 <= n - 2 THEN n - 2 - 1 + 1 ELSE 0) = n - 2
OBVIOUS

\* The top of a stack is replaced.
LEMMA Replaced ==
  ASSUME NEW S, NEW s \in Seq(S), s # <<>>, NEW x \in S, NEW t, Replaces(s, x, t)
  PROVE  /\ t \in Seq(S) /\ t # <<>> /\ Len(t) = Len(s) /\ t[Len(s)] = x
         /\ \A i \in 1..(Len(s) - 1) : t[i] = s[i]
<1>1. Len(s) \in Nat /\ Len(s) >= 1
  BY EmptySeq, LenProperties
<1>2. /\ Front(s) \in Seq(S) /\ Len(Front(s)) = Len(s) - 1
      /\ \A i \in 1..(Len(s) - 1) : Front(s)[i] = s[i]
  <2>1. 1 \in Int /\ Len(s) - 1 \in Int /\ \A i \in 1..(Len(s) - 1) : s[i] \in S
    BY <1>1, ElementOfSeq
  <2>2. /\ SubSeq(s, 1, Len(s) - 1) \in Seq(S)
        /\ Len(SubSeq(s, 1, Len(s) - 1)) = IF 1 <= Len(s) - 1 THEN Len(s) - 1 - 1 + 1 ELSE 0
        /\ \A i \in 1..(Len(s) - 1 - 1 + 1) : SubSeq(s, 1, Len(s) - 1)[i] = s[1 + i - 1]
    BY <2>1, SubSeqProperties
  <2>3. \A i \in 1..(Len(s) - 1) : i \in 1..(Len(s) - 1 - 1 + 1) /\ 1 + i - 1 = i
    BY <1>1
  <2>4. Len(SubSeq(s, 1, Len(s) - 1)) = Len(s) - 1
    BY <1>1, <2>2, Lengths
  <2>5. \A i \in 1..(Len(s) - 1) : SubSeq(s, 1, Len(s) - 1)[i] = s[i]
    <3> TAKE i \in 1..(Len(s) - 1)
    <3> QED
      BY <2>2, <2>3
  <2> QED
    BY <2>2, <2>4, <2>5 DEF Front
<1> HIDE DEF Front
<1>3. t = Append(Front(s), x)
  BY DEF Replaces
<1> QED
  BY <1>1, <1>2, <1>3, AppendProperties

\* The top of a stack is replaced, and another element put on it.
LEMMA Pushed ==
  ASSUME NEW S, NEW s \in Seq(S), s # <<>>, NEW x \in S, NEW y \in S,
         NEW t, Pushes(s, x, y, t)
  PROVE  /\ t \in Seq(S) /\ t # <<>> /\ Len(t) = Len(s) + 1
         /\ t[Len(s)] = x /\ t[Len(s) + 1] = y
         /\ \A i \in 1..(Len(s) - 1) : t[i] = s[i]
<1> DEFINE r == Append(Front(s), x)
<1>1. Len(s) \in Nat /\ Len(s) >= 1
  BY EmptySeq, LenProperties
<1>2. /\ r \in Seq(S) /\ Len(r) = Len(s) /\ r[Len(s)] = x
      /\ \A i \in 1..(Len(s) - 1) : r[i] = s[i]
  <2>1. Replaces(s, x, r)
    BY DEF Replaces
  <2> HIDE DEF r
  <2> QED
    BY <2>1, Replaced
<1>3. t = r \o <<y>>
  BY DEF Pushes
<1> HIDE DEF r
<1>4. t = Append(r, y)
  BY <1>2, <1>3, AppendIsConcat
<1>5. /\ Append(r, y) \in Seq(S) /\ Append(r, y) # <<>> /\ Len(Append(r, y)) = Len(r) + 1
      /\ \A i \in 1..Len(r) : Append(r, y)[i] = r[i]
      /\ Append(r, y)[Len(r) + 1] = y
  BY <1>2, AppendProperties
<1> QED
  BY <1>1, <1>2, <1>4, <1>5

\* The top of a stack is taken off, and the element below it replaced.
LEMMA Popped ==
  ASSUME NEW S, NEW s \in Seq(S), Len(s) > 1, NEW x \in S,
         NEW t, Pops(s, x, t)
  PROVE  /\ t \in Seq(S) /\ t # <<>> /\ Len(t) = Len(s) - 1 /\ t[Len(s) - 1] = x
         /\ \A i \in 1..(Len(s) - 2) : t[i] = s[i]
<1> DEFINE r == SubSeq(s, 1, Len(s) - 2)
<1>1. Len(s) \in Nat
  BY LenProperties
<1>2. /\ r \in Seq(S) /\ Len(r) = Len(s) - 2
      /\ \A i \in 1..(Len(s) - 2) : r[i] = s[i]
  <2>1. 1 \in Int /\ Len(s) - 2 \in Int /\ \A i \in 1..(Len(s) - 2) : s[i] \in S
    BY <1>1, ElementOfSeq
  <2>2. /\ r \in Seq(S)
        /\ Len(r) = IF 1 <= Len(s) - 2 THEN Len(s) - 2 - 1 + 1 ELSE 0
        /\ \A i \in 1..(Len(s) - 2 - 1 + 1) : r[i] = s[1 + i - 1]
    BY <2>1, SubSeqProperties
  <2>3. \A i \in 1..(Len(s) - 2) : i \in 1..(Len(s) - 2 - 1 + 1) /\ 1 + i - 1 = i
    BY <1>1
  <2> HIDE DEF r
  <2>4. Len(r) = Len(s) - 2
    BY <1>1, <2>2, Lengths
  <2>5. \A i \in 1..(Len(s) - 2) : r[i] = s[i]
    <3> TAKE i \in 1..(Len(s) - 2)
    <3> QED
      BY <2>2, <2>3
  <2> QED
    BY <2>2, <2>4, <2>5
<1>3. t = Append(r, x)
  BY DEF Pops
<1> HIDE DEF r
<1>4. /\ Append(r, x) \in Seq(S) /\ Append(r, x) # <<>> /\ Len(Append(r, x)) = Len(r) + 1
      /\ \A i \in 1..Len(r) : Append(r, x)[i] = r[i]
      /\ Append(r, x)[Len(r) + 1] = x
  BY <1>2, AppendProperties
<1> QED
  BY <1>1, <1>2, <1>3, <1>4

-----------------------------------------------------------------------------
(* The shape of the stack *)

\* A stack in progress: its length, its top, and where the handler is.
LEMMA Shape ==
  ASSUME DInv, stack # <<>>
  PROVE  /\ Len(stack) \in Nat /\ Len(stack) >= 1 /\ stack \in Seq(Frame)
         /\ Depth \in {1, 2} /\ Len(stack) \in {Depth, Depth + 1}
         /\ stack[1] \in Frame /\ stack[Depth] \in Frame /\ Top \in Frame
         /\ Top.pc \in {"arrived", "answered"}
<1>1. /\ stack \in Seq(Frame) /\ Len(stack) \in Nat /\ Len(stack) >= 1
      /\ \A i \in 1..Len(stack) : stack[i] \in Frame
  BY EmptySeq, LenProperties, ElementOfSeq DEF DInv, TypeOK
<1>2. Depth \in {1, 2}
  BY DEF Depth
<1>3. Len(stack) \in {Depth, Depth + 1} /\ Top.pc \in {"arrived", "answered"}
  BY DEF DInv, StackInv
<1>4. 1 \in 1..Len(stack) /\ Depth \in 1..Len(stack) /\ Len(stack) \in 1..Len(stack)
  BY <1>1, <1>2, <1>3
<1>5. stack[1] \in Frame /\ stack[Depth] \in Frame /\ Top \in Frame
  BY <1>1, <1>4 DEF Top
<1> QED
  BY <1>1, <1>2, <1>3, <1>5

\* While a handler works, the gateway before it waits.
LEMMA HandlerStays ==
  ASSUME DInv, stack # <<>>, Len(stack) = Depth, NEW f \in Frame, f.pc # "proxying",
         Replaces(stack, f, stack')
  PROVE  /\ stack' \in Seq(Frame) /\ stack' # <<>>
         /\ Depth' = Depth /\ Len(stack') = Depth /\ stack'[Depth] = f
         /\ Depth = 2 => stack'[1] = stack[1]
<1>1. /\ stack' \in Seq(Frame) /\ stack' # <<>> /\ Len(stack') = Len(stack)
      /\ stack'[Len(stack)] = f /\ \A i \in 1..(Len(stack) - 1) : stack'[i] = stack[i]
  <2>1. stack \in Seq(Frame)
    BY Shape
  <2> QED
    BY <2>1, Replaced
<1>2. CASE Depth = 1
  BY <1>1, <1>2 DEF Depth
<1>3. CASE Depth = 2
  <2>1. stack'[1] = stack[1]
    <3>1. 1 \in 1..(Len(stack) - 1)
      BY <1>3
    <3> QED
      BY <1>1, <3>1
  <2> QED
    BY <1>1, <1>3, <2>1 DEF Depth
<1> QED
  BY <1>2, <1>3, Shape

\* What remains to be shown of a handler's step.
LEMMA HandlerStep ==
  ASSUME DInv, stack # <<>>, Len(stack) = Depth, NEW f \in Frame,
         f.pc \in {"arrived", "answered"}, f.at = Top.at,
         Replaces(stack, f, stack'), UNCHANGED <<deployment, request>>, HandlerOK(f)'
  PROVE  StackInv'
<1>1. /\ stack' \in Seq(Frame) /\ stack' # <<>>
      /\ Depth' = Depth /\ Len(stack') = Depth /\ stack'[Depth] = f
      /\ Depth = 2 => stack'[1] = stack[1]
  BY HandlerStays
<1>2. Depth \in {1, 2} /\ Top = stack[Depth] /\ Top' = f
  BY <1>1, Shape DEF Top
<1>3. stack'[1].at = deployment.entry
  BY <1>1, <1>2 DEF DInv, StackInv
<1>4. Depth = 2 => GatewayOK'
  BY <1>1, <1>2 DEF DInv, StackInv, GatewayOK, AsAsked
<1> QED
  BY <1>1, <1>2, <1>3, <1>4 DEF StackInv

\* While a call is under way, its handler and the gateway before it wait.
LEMMA CallStays ==
  ASSUME DInv, stack # <<>>, Len(stack) = Depth + 1, NEW e \in Frame,
         Replaces(stack, e, stack')
  PROVE  /\ stack' \in Seq(Frame) /\ stack' # <<>>
         /\ Depth' = Depth /\ Len(stack') = Depth + 1 /\ stack'[Depth + 1] = e
         /\ stack'[1] = stack[1] /\ stack'[Depth] = stack[Depth]
<1>1. /\ stack' \in Seq(Frame) /\ stack' # <<>> /\ Len(stack') = Len(stack)
      /\ stack'[Len(stack)] = e /\ \A i \in 1..(Len(stack) - 1) : stack'[i] = stack[i]
  <2>1. stack \in Seq(Frame)
    BY Shape
  <2> QED
    BY <2>1, Replaced
<1>2. Depth \in {1, 2}
  BY Shape
<1>3. 1 \in 1..(Len(stack) - 1) /\ Depth \in 1..(Len(stack) - 1)
  BY <1>2
<1>4. stack'[1] = stack[1] /\ stack'[Depth] = stack[Depth]
  BY <1>1, <1>3
<1>5. Depth' = Depth
  BY <1>4 DEF Depth
<1> QED
  BY <1>1, <1>4, <1>5

\* What remains to be shown of a step of a call.
LEMMA CallStep ==
  ASSUME DInv, stack # <<>>, Len(stack) = Depth + 1, NEW c, c = stack[Depth], NEW e \in Frame,
         e.pc \in {"arrived", "answered"}, Replaces(stack, e, stack'),
         UNCHANGED <<deployment, request>>, HandlerOK(c)', CallOK(c, e)'
  PROVE  StackInv'
<1>1. /\ stack' \in Seq(Frame) /\ stack' # <<>>
      /\ Depth' = Depth /\ Len(stack') = Depth + 1 /\ stack'[Depth + 1] = e
      /\ stack'[1] = stack[1] /\ stack'[Depth] = c
  BY CallStays
<1>2. Depth \in {1, 2} /\ Top' = e /\ c.pc = "calling"
  BY <1>1, Shape DEF Top, DInv, StackInv
<1>3. stack'[1].at = deployment.entry
  BY <1>1 DEF DInv, StackInv
<1>4. Depth = 2 => GatewayOK'
  BY <1>1 DEF DInv, StackInv, GatewayOK, AsAsked
<1> QED
  BY <1>1, <1>2, <1>3, <1>4 DEF StackInv

\* What remains to be shown when a handler makes a call.
LEMMA CallStart ==
  ASSUME DInv, stack # <<>>, Len(stack) = Depth, NEW c \in Frame, NEW e \in Frame,
         c.pc = "calling", c.at = Top.at, e.pc = "arrived",
         Pushes(stack, c, e, stack'),
         UNCHANGED <<deployment, request>>, HandlerOK(c)', CallOK(c, e)'
  PROVE  stack' \in Seq(Frame) /\ StackInv'
<1>1. /\ stack' \in Seq(Frame) /\ stack' # <<>> /\ Len(stack') = Len(stack) + 1
      /\ stack'[Len(stack)] = c /\ stack'[Len(stack) + 1] = e
      /\ \A i \in 1..(Len(stack) - 1) : stack'[i] = stack[i]
  <2>1. stack \in Seq(Frame)
    BY Shape
  <2> QED
    BY <2>1, Pushed, SMTT(60)
<1>2. Depth \in {1, 2} /\ Top' = e /\ Top = stack[Depth]
  BY <1>1, Shape DEF Top
<1>3. Depth = 2 => stack'[1] = stack[1]
  <2>1. Depth = 2 => 1 \in 1..(Len(stack) - 1)
    OBVIOUS
  <2> QED
    BY <1>1, <2>1
<1>4. Depth' = Depth
  BY <1>1, <1>2, <1>3 DEF Depth
<1>5. stack'[1].at = deployment.entry
  BY <1>1, <1>2, <1>3 DEF DInv, StackInv
<1>6. Depth = 2 => GatewayOK'
  <2> SUFFICES ASSUME Depth = 2 PROVE GatewayOK'
    OBVIOUS
  <2>1. stack'[1] = stack[1] /\ stack'[2].at = stack[2].at /\ Len(stack') > 1
    BY <1>1, <1>2, <1>3
  <2> QED
    BY <2>1 DEF DInv, StackInv, GatewayOK, AsAsked
<1>7. Len(stack') = Depth + 1 /\ stack'[Depth] = c
  BY <1>1
<1> QED
  BY <1>1, <1>2, <1>4, <1>5, <1>6, <1>7 DEF StackInv

\* What remains to be shown when a handler has the answer to a call.
LEMMA CallEnd ==
  ASSUME DInv, stack # <<>>, Len(stack) = Depth + 1, NEW f \in Frame,
         f.pc \in {"arrived", "answered"}, f.at = stack[Depth].at,
         Pops(stack, f, stack'),
         UNCHANGED <<deployment, request>>, Depth' = Depth => HandlerOK(f)'
  PROVE  stack' \in Seq(Frame) /\ StackInv'
<1>1. /\ stack' \in Seq(Frame) /\ stack' # <<>> /\ Len(stack') = Len(stack) - 1
      /\ stack'[Len(stack) - 1] = f
      /\ \A i \in 1..(Len(stack) - 2) : stack'[i] = stack[i]
  <2>1. stack \in Seq(Frame) /\ Len(stack) > 1
    BY Shape
  <2> QED
    BY <2>1, Popped
<1>2. Depth \in {1, 2} /\ Len(stack') = Depth /\ stack'[Depth] = f
  BY <1>1, Shape
<1>3. Depth = 2 => stack'[1] = stack[1]
  <2>1. Depth = 2 => 1 \in 1..(Len(stack) - 2)
    OBVIOUS
  <2> QED
    BY <1>1, <2>1
<1>4. Depth' = Depth /\ Top' = f
  BY <1>1, <1>2, <1>3 DEF Depth, Top
<1>5. stack'[1].at = deployment.entry
  BY <1>2, <1>3 DEF DInv, StackInv
<1>6. Depth = 2 => GatewayOK'
  <2> SUFFICES ASSUME Depth = 2 PROVE GatewayOK'
    OBVIOUS
  <2>1. stack'[1] = stack[1] /\ stack'[2].at = stack[2].at /\ Len(stack') > 1
    BY <1>2, <1>3
  <2> QED
    BY <2>1 DEF DInv, StackInv, GatewayOK, AsAsked
<1> QED
  BY <1>1, <1>2, <1>4, <1>5, <1>6 DEF StackInv

-----------------------------------------------------------------------------
(* Who serves what *)

\* The deployment is configured as it should be.
LEMMA Environment ==
  ASSUME DInv
  PROVE  /\ Configured(deployment) /\ request.route \in AllRoutes
         /\ request.headers \in Headers /\ request.token \in BOOLEAN
BY DeploymentAssumption DEF DInv, TypeOK

\* The handler of a request that is on offer serves it, unless it is the gateway.
LEMMA Offered ==
  ASSUME DInv, stack # <<>>, NEW f, f = stack[Depth]
  PROVE  /\ f.route = request.route /\ f.headers = request.headers /\ f.token = request.token
         /\ Serves(deployment, f.at, f.route) => request.route \in deployment.offers
         /\ ~Serves(deployment, f.at, f.route) /\ ~(HasGateway(deployment, f.at) /\ f.route \in ProxiedRoutes)
              => request.route \notin deployment.offers
         /\ Depth = 2 => ~HasGateway(deployment, f.at)
<1>1. AsAsked(f) /\ stack[1].at = deployment.entry /\ (Depth = 2 => GatewayOK)
  BY DEF DInv, StackInv, HandlerOK
<1>2. Configured(deployment) /\ request.route \in AllRoutes
  BY Environment
<1>3. deployment.offers =
         {route \in AllRoutes :
            \/ Serves(deployment, deployment.entry, route)
            \/ /\ HasGateway(deployment, deployment.entry) /\ route \in ProxiedRoutes
               /\ Serves(deployment, deployment.endpoint[Target(route)], route)}
  BY <1>2 DEF Configured
<1>4. CASE Depth = 1
  BY <1>1, <1>2, <1>3, <1>4 DEF AsAsked
<1>5. CASE Depth = 2
  <2>1. HasGateway(deployment, deployment.entry) /\ request.route \in ProxiedRoutes
        /\ ~Serves(deployment, deployment.entry, request.route)
        /\ f.at = deployment.endpoint[Target(request.route)]
    BY <1>1, <1>5 DEF GatewayOK
  <2>2. ~HasGateway(deployment, f.at)
    BY <1>2, <2>1 DEF Configured
  <2> QED
    BY <1>1, <1>2, <1>3, <2>1, <2>2 DEF AsAsked
<1> QED
  BY <1>4, <1>5 DEF Depth

\* The routes that are called, and who is asked for them.
CalledRoutes == {"authenticate", "ingredients", "tools", "rices", "adjectives", "names", "record", "recommendation"}

\* The calls of a handler: which of them stand where in their order.
LEMMA CallsOf ==
  ASSUME NEW route \in RecommendationsGroup, NEW n \in Nat, n >= 1, n <= Len(Calls(route))
  PROVE  /\ Calls(route)[n] \in CalledRoutes
         /\ (n = 1) = (Calls(route)[n] = "authenticate")
         /\ (Calls(route)[n] = "recommendation") = (route = "food-by-id" /\ n = 2)
         /\ (Calls(route)[n] = "record") = (route = "food" /\ n = 10)
         /\ route = "food" /\ n = 2 => Calls(route)[n] = "ingredients"
         /\ route = "food" => n <= 10
         /\ route = "food-by-id" => n <= 2
<1>1. CASE route = "food"
  <2>1. n \in {1, 2, 3, 4, 5, 6, 7, 8, 9, 10}
    BY <1>1 DEF Calls
  <2>2. /\ Calls(route)[1] = "authenticate" /\ Calls(route)[2] = "ingredients"
        /\ Calls(route)[3] = "ingredients" /\ Calls(route)[4] = "ingredients"
        /\ Calls(route)[5] = "ingredients" /\ Calls(route)[6] = "tools" /\ Calls(route)[7] = "rices"
        /\ Calls(route)[8] = "adjectives" /\ Calls(route)[9] = "names" /\ Calls(route)[10] = "record"
    BY <1>1 DEF Calls
  <2>3. Calls(route)[n] \in CalledRoutes
    BY <2>1, <2>2 DEF CalledRoutes
  <2>4. (n = 1) = (Calls(route)[n] = "authenticate")
    BY <2>1, <2>2
  <2>5. (n = 10) = (Calls(route)[n] = "record")
    BY <2>1, <2>2
  <2>6. Calls(route)[n] # "recommendation"
    BY <2>1, <2>2
  <2>7. n <= 10
    BY <2>1
  <2>8. n = 2 => Calls(route)[n] = "ingredients"
    BY <2>2
  <2> QED
    BY <1>1, <2>3, <2>4, <2>5, <2>6, <2>7, <2>8
<1>2. CASE route = "food-by-id"
  <2>1. n \in {1, 2}
    BY <1>2 DEF Calls
  <2>2. Calls(route)[1] = "authenticate" /\ Calls(route)[2] = "recommendation"
    BY <1>2 DEF Calls
  <2> QED
    BY <1>2, <2>1, <2>2 DEF CalledRoutes
<1> QED
  BY <1>1, <1>2 DEF RecommendationsGroup

\* A service is found where it is called.
LEMMA CallsServed ==
  ASSUME DInv, NEW process, NEW route \in CalledRoutes
  PROVE  Serves(deployment, EnvEndpoint(deployment, process, ServiceOf(route)), route)
<1>1. PICK service : service = ServiceOf(route)
  OBVIOUS
<1>2. service \in ApiServices /\ service \in Services /\ route \in Groups[service]
  BY <1>1 DEF ServiceOf, ApiServices, Services, Groups, CopyGroup, CalledRoutes, CatalogGroup,
     IngredientRoutes, UsersGroup, AdminGroup
<1>3. EnvServe(deployment, deployment.endpoint[service], service)
  BY <1>2, Environment DEF Configured
<1>4. EnvServe(deployment, EnvEndpoint(deployment, process, service), service)
  BY <1>3 DEF EnvEndpoint
<1> QED
  BY <1>1, <1>2, <1>4 DEF Serves

\* A call: for what, with whose token and whose headers.
LEMMA CallTells ==
  ASSUME NEW c \in Frame, NEW e \in Frame, Progress(c), Recommends(c), AsAsked(c),
         c.call <= Len(Calls(c.route)), CallOK(c, e)
  PROVE  /\ c.call \in Nat /\ c.call >= 1 /\ c.call <= 10
         /\ e.route = Calls(c.route)[c.call] /\ e.route \in CalledRoutes
         /\ e.route = "authenticate" => e.token = request.token
         /\ e.route \notin {"authenticate", "recommendation"} =>
              c.route = "food" /\ request.token /\ e.token /\ e.headers = request.headers
         /\ e.internal
<1>1. PICK n, route : n = c.call /\ route = c.route
  OBVIOUS
<1>2. n \in Nat /\ n >= 1 /\ n <= Len(Calls(route)) /\ route \in RecommendationsGroup /\ c.token \in BOOLEAN
  BY <1>1 DEF Frame, Positions, Recommends
<1>3. /\ e.route = Calls(route)[n]
      /\ e.token = (c.token /\ (route = "food" \/ n = 1))
      /\ e.headers = IF route = "food" /\ n > 1 THEN AddErrorHeaders(c.headers) ELSE NoHeaders
  BY <1>1 DEF CallOK
<1>4. /\ e.route \in CalledRoutes /\ (n = 1) = (e.route = "authenticate")
      /\ (e.route = "recommendation") = (route = "food-by-id" /\ n = 2)
      /\ (route = "food" => n <= 10) /\ (route = "food-by-id" => n <= 2)
  BY <1>2, <1>3, CallsOf
<1>5. e.route = "authenticate" => e.token = request.token
  BY <1>2, <1>3, <1>4 DEF AsAsked
<1>6. n <= 10
  BY <1>2, <1>4 DEF RecommendationsGroup
<1>7. ASSUME e.route \notin {"authenticate", "recommendation"}
      PROVE  c.route = "food" /\ request.token /\ e.token /\ e.headers = request.headers
  <2>1. n > 1
    BY <1>2, <1>4, <1>7
  <2>2. route = "food"
    BY <1>2, <1>4, <1>7, <2>1 DEF RecommendationsGroup
  <2>3. request.token
    BY <1>1, <2>1 DEF Progress
  <2> QED
    BY <1>1, <1>3, <2>1, <2>2, <2>3 DEF AsAsked, AddErrorHeaders
<1>8. e.internal
  BY DEF CallOK
<1> QED
  BY <1>1, <1>2, <1>3, <1>4, <1>5, <1>6, <1>7, <1>8

\* What is known of a call under way and of the handler that waits for it.
LEMMA CallFacts ==
  ASSUME DInv, stack # <<>>, Len(stack) = Depth + 1
  PROVE  /\ stack[Depth] \in Frame /\ Top \in Frame
         /\ stack[Depth].pc = "calling" /\ CallOK(stack[Depth], Top)
         /\ Progress(stack[Depth]) /\ Recommends(stack[Depth]) /\ AsAsked(stack[Depth])
         /\ stack[Depth].call <= Len(Calls(stack[Depth].route))
<1>1. stack[Depth].pc = "calling" /\ CallOK(stack[Depth], Top) /\ HandlerOK(stack[Depth])
  BY Shape DEF DInv, StackInv
<1> QED
  BY <1>1, Shape DEF HandlerOK

-----------------------------------------------------------------------------
(* Answers *)

Alike == UNCHANGED <<deployment, request>>

\* What a working handler has.
LEMMA HandlerFacts ==
  ASSUME DInv, stack # <<>>, Len(stack) = Depth
  PROVE  /\ Top = stack[Depth] /\ Top \in Frame /\ HandlerOK(Top)
         /\ Top.pc = "arrived" =>
              AsAsked(Top) /\ Vouched(Top) /\ Progress(Top) /\ (Top.call = 10 /\ stored > 0 => faults > 0)
<1>1. Top = stack[Depth] /\ HandlerOK(stack[Depth])
  BY DEF Top, DInv, StackInv
<1> QED
  BY <1>1, Shape DEF HandlerOK

\* The frame of a request that has been answered.
AnsweredAs(f, status, g) == g = [f EXCEPT !.pc = "answered", !.status = status]

\* An answer changes a frame's status and leaves the request as it was.
LEMMA AnsweredFrame ==
  ASSUME NEW f \in Frame, NEW status \in Statuses, NEW g, AnsweredAs(f, status, g)
  PROVE  /\ g \in Frame /\ g.at = f.at /\ g.route = f.route /\ g.headers = f.headers
         /\ g.token = f.token /\ g.internal = f.internal
         /\ g.call = f.call /\ g.pc = "answered" /\ g.status = status /\ g.slow = f.slow
<1>1. "answered" \in Labels
  BY DEF Labels
<1> QED
  BY <1>1 DEF Frame, AnsweredAs

\* A handler answers.
LEMMA HandlerAnswers ==
  ASSUME DInv, stack # <<>>, Len(stack) = Depth, Alike, NEW g \in Frame, g.pc = "answered",
         g.at = Top.at, g.route = Top.route, g.headers = Top.headers,
         g.token = Top.token, g.internal = Top.internal,
         Replaces(stack, g, stack'),
         Deserved(g.status)' \/ (g.status = 0 /\ Depth = 2 /\ faults' > 0)
  PROVE  stack' \in Seq(Frame) /\ StackInv'
<1>1. Depth' = Depth /\ stack' \in Seq(Frame)
  BY HandlerStays
<1>2. AsAsked(g)'
  BY HandlerFacts DEF HandlerOK, AsAsked, Alike
<1>3. Vouched(g)'
  BY HandlerFacts DEF HandlerOK, Vouched, A!Accepted, Alike
<1>4. HandlerOK(g)'
  BY <1>1, <1>2, <1>3 DEF HandlerOK
<1> QED
  BY <1>1, <1>4, HandlerStep DEF Alike

\* A call is answered.
LEMMA CallAnswers ==
  ASSUME DInv, stack # <<>>, Len(stack) = Depth + 1, NEW c, c = stack[Depth], Alike,
         NEW g \in Frame, g.pc = "answered",
         g.at = Top.at, g.route = Top.route, g.headers = Top.headers,
         g.token = Top.token, g.internal = Top.internal,
         Replaces(stack, g, stack'),
         Progress(c)', Outcome(g.route, g.status, g.slow)'
  PROVE  stack' \in Seq(Frame) /\ StackInv'
<1>1. /\ c.pc = "calling" /\ CallOK(c, Top) /\ Recommends(c) /\ AsAsked(c) /\ c.call <= Len(Calls(c.route))
  BY CallFacts
<1>2. HandlerOK(c)'
  <2>1. c.route # "record"
    BY <1>1 DEF Recommends, RecommendationsGroup
  <2> QED
    BY <1>1, <2>1 DEF HandlerOK, AsAsked, Vouched, Recommends, Alike
<1>3. CallOK(c, g)'
  BY <1>1 DEF CallOK, Alike
<1>4. stack' \in Seq(Frame)
  BY CallStays
<1> QED
  BY <1>2, <1>3, <1>4, CallStep DEF Alike

\* A failure: nothing has been stored by it, and it excuses every other.
LEMMA Broken ==
  ASSUME DInv, stack # <<>>, Alike, NEW g \in Frame, g.pc = "answered",
         g.at = Top.at, g.route = Top.route, g.headers = Top.headers,
         g.token = Top.token, g.internal = Top.internal,
         Replaces(stack, g, stack'), faults' = faults + 1, UNCHANGED <<foods, stored>>,
         g.status \in A!Failures \/ (g.status = 0 /\ Len(stack) > 1)
  PROVE  stack' \in Seq(Frame) /\ StackInv'
<1>1. faults \in Nat /\ faults' > 0 /\ g.status \notin {200, 201, 404}
  BY DEF DInv, TypeOK, A!Failures
<1>2. CASE Len(stack) = Depth
  <2>1. g.status = 0 => Depth = 2
    BY <1>2, Shape DEF A!Failures
  <2>2. g.status # 0 => Deserved(g.status)'
    BY <1>1 DEF Deserved, A!Promised
  <2> QED
    BY <1>1, <1>2, <2>1, <2>2, HandlerAnswers
<1>3. CASE Len(stack) = Depth + 1
  <2>1. PICK c : c = stack[Depth]
    OBVIOUS
  <2>2. Progress(c)
    BY <1>3, <2>1, CallFacts
  <2>3. Progress(c)'
    BY <2>2 DEF Progress, Recommends, Alike, A!MustFail, A!MustStall, A!MayFail, A!MayStall, A!ForIngredients
  <2>4. Outcome(g.route, g.status, g.slow)'
    BY <1>1 DEF Outcome, Successful
  <2> QED
    BY <1>3, <2>1, <2>3, <2>4, CallAnswers
<1> QED
  BY <1>2, <1>3, Shape

\* An answer that is no failure, of a handler or to a call.
LEMMA Answered ==
  ASSUME DInv, stack # <<>>, Alike, NEW g \in Frame, g.pc = "answered",
         g.at = Top.at, g.route = Top.route, g.headers = Top.headers,
         g.token = Top.token, g.internal = Top.internal,
         Replaces(stack, g, stack'), UNCHANGED <<foods, stored, faults>>,
         Len(stack) = Depth => Deserved(g.status),
         Len(stack) = Depth + 1 => Outcome(g.route, g.status, g.slow)
  PROVE  stack' \in Seq(Frame) /\ StackInv'
<1>1. CASE Len(stack) = Depth
  <2>1. Deserved(g.status)'
    BY <1>1 DEF Alike, Deserved, A!Promised, A!Expected, A!MustFail, A!MustStall, A!MayFail, A!MayStall,
     A!ForIngredients, A!Accepted
  <2> QED
    BY <1>1, <2>1, HandlerAnswers
<1>2. CASE Len(stack) = Depth + 1
  <2>1. PICK c : c = stack[Depth]
    OBVIOUS
  <2>2. Progress(c)
    BY <1>2, <2>1, CallFacts
  <2>3. Progress(c)'
    BY <2>2 DEF Progress, Recommends, Alike, A!MustFail, A!MustStall, A!MayFail, A!MayStall, A!ForIngredients
  <2>4. Outcome(g.route, g.status, g.slow)'
    BY <1>2 DEF Outcome, Alike, A!MustFail, A!MustStall, A!MayFail, A!MayStall, A!ForIngredients
  <2> QED
    BY <1>2, <2>1, <2>3, <2>4, CallAnswers
<1> QED
  BY <1>1, <1>2, Shape

\* The same of the forms that the actions have.
LEMMA SucceedsWell ==
  ASSUME DInv, stack # <<>>, NEW status \in Statuses, Succeeds(status),
         Len(stack) = Depth => Deserved(status),
         Len(stack) = Depth + 1 => Outcome(Top.route, status, Top.slow)
  PROVE  DInv'
<1>0. PICK g : AnsweredAs(Top, status, g)
  BY DEF AnsweredAs
<1>1. /\ g \in Frame /\ g.at = Top.at /\ g.route = Top.route /\ g.headers = Top.headers
      /\ g.token = Top.token /\ g.internal = Top.internal
      /\ g.pc = "answered" /\ g.status = status /\ g.slow = Top.slow
  <2>1. Top \in Frame
    BY Shape
  <2> QED
    BY <1>0, <2>1, AnsweredFrame
<1>2. Replaces(stack, g, stack') /\ Alike /\ UNCHANGED <<answer, asked, foods, stored, faults>>
  BY <1>0 DEF AnsweredAs, Succeeds, AnswerWith, Replaces, Alike
<1>3. stack' \in Seq(Frame) /\ StackInv'
  BY <1>1, <1>2, Answered
<1>4. TypeOK'
  BY <1>2, <1>3 DEF DInv, TypeOK, Alike, Frame, Processes
<1> QED
  BY <1>3, <1>4 DEF DInv

\* A failure of the database keeps the invariant, whoever meets it.
LEMMA BreaksWell ==
  ASSUME DInv, stack # <<>>, NEW status \in A!Failures, Breaks(status)
  PROVE  DInv'
<1>0. PICK g : AnsweredAs(Top, status, g)
  BY DEF AnsweredAs
<1>1. /\ g \in Frame /\ g.at = Top.at /\ g.route = Top.route /\ g.headers = Top.headers
      /\ g.token = Top.token /\ g.internal = Top.internal
      /\ g.pc = "answered" /\ g.status = status
  <2>1. Top \in Frame /\ status \in Statuses
    BY Shape DEF A!Failures, Statuses
  <2> QED
    BY <1>0, <2>1, AnsweredFrame
<1>2. /\ Replaces(stack, g, stack') /\ Alike /\ UNCHANGED <<answer, asked, foods, stored>>
      /\ faults < MaxFaults /\ faults' = faults + 1
  BY <1>0 DEF AnsweredAs, Breaks, AnswerWith, Replaces, Alike
<1>3. stack' \in Seq(Frame) /\ StackInv'
  BY <1>1, <1>2, Broken
<1>4. faults' \in 0..MaxFaults
  BY <1>2, DeploymentAssumption DEF DInv, TypeOK
<1>5. TypeOK'
  BY <1>2, <1>3, <1>4 DEF DInv, TypeOK, Alike, Frame, Processes
<1> QED
  BY <1>3, <1>5 DEF DInv

\* The routes of the handlers that call others, or may record a food.
Recording == RecommendationsGroup \cup {"record"}

\* What the other handlers may answer.
LEMMA Served ==
  ASSUME DInv, stack # <<>>, Len(stack) = Depth, Top.pc = "arrived",
         Serves(deployment, Top.at, Top.route), Top.route \notin Recording
  PROVE  /\ Top.route = request.route /\ Top.headers = request.headers /\ Top.token = request.token
         /\ Top.route \in AllRoutes
         /\ A!NeedsToken(request.route) /\ ~request.token => Deserved(401)
         /\ \A status \in Statuses :
              (A!NeedsToken(request.route) => request.token) /\ A!Expected(status) => Deserved(status)
<1>1. Top = stack[Depth] /\ Progress(Top)
  BY HandlerFacts
<1>2. /\ Top.route = request.route /\ Top.headers = request.headers /\ Top.token = request.token
      /\ request.route \in deployment.offers
  BY <1>1, Offered
<1>3. request.route \notin {"food", "record"} /\ stored = 0
  BY <1>1, <1>2 DEF Progress, Recording, RecommendationsGroup
<1>4. ~(stored > 0)
  BY <1>3
<1> QED
  BY <1>2, <1>3, <1>4, Environment DEF Deserved, A!Promised

\* What is known of a call when it is served.
LEMMA Called ==
  ASSUME DInv, stack # <<>>, Len(stack) = Depth + 1, Top.pc = "arrived"
  PROVE  /\ Top.route \in CalledRoutes /\ Serves(deployment, Top.at, Top.route)
         /\ Top.route = "authenticate" => Top.token = request.token
         /\ Top.route \notin {"authenticate", "recommendation"} =>
              request.route = "food" /\ request.token /\ Top.token /\ Top.headers = request.headers
         /\ Top.internal
         /\ ~Top.slow /\ (stored > 0 => faults > 0)
<1>1. PICK c, e : c = stack[Depth] /\ e = Top
  OBVIOUS
<1>2. /\ c \in Frame /\ e \in Frame /\ CallOK(c, e) /\ Progress(c) /\ Recommends(c) /\ AsAsked(c)
      /\ c.call <= Len(Calls(c.route))
  BY <1>1, CallFacts
<1>3. /\ e.route \in CalledRoutes
      /\ e.route = "authenticate" => e.token = request.token
      /\ e.route \notin {"authenticate", "recommendation"} =>
              c.route = "food" /\ request.token /\ e.token /\ e.headers = request.headers
      /\ e.internal
  BY <1>2, CallTells
<1>4. Serves(deployment, e.at, e.route) /\ ~e.slow /\ (stored > 0 => faults > 0)
  BY <1>1, <1>2 DEF CallOK
<1> QED
  BY <1>1, <1>2, <1>3, <1>4 DEF AsAsked

-----------------------------------------------------------------------------
(* The handlers *)

\* Where a request is that a group handles.
LEMMA HandlesFacts ==
  ASSUME DInv, NEW group, Handles(group)
  PROVE  /\ stack # <<>> /\ Top.pc = "arrived" /\ Top.route \in group
         /\ Serves(deployment, Top.at, Top.route)
         /\ Len(stack) = Depth \/ Len(stack) = Depth + 1
         /\ Len(stack) = Depth + 1 => Top.route \in CalledRoutes
<1>1. /\ stack # <<>> /\ Top.pc = "arrived" /\ Top.route \in group
      /\ Serves(deployment, Top.at, Top.route)
  BY DEF Handles
<1> QED
  BY <1>1, Shape, Called

\* The routes of the interface are those of the processes.
LEMMA SameRoutes ==
  /\ \A route : A!NeedsToken(route) =
       (route \in CatalogGroup \cup RecommendationsGroup
                  \cup {"login", "authenticate", "history", "admin-login"})
  /\ A!IngredientRoutes = IngredientRoutes /\ A!AllRoutes = AllRoutes /\ A!Headers = Headers
<1>1. /\ A!CatalogGroup = CatalogGroup /\ A!RecommendationsGroup = RecommendationsGroup
      /\ A!IngredientRoutes = IngredientRoutes /\ A!CopyGroup = CopyGroup /\ A!UsersGroup = UsersGroup
      /\ A!AdminGroup = AdminGroup /\ A!TestingGroup = TestingGroup /\ A!K6Group = K6Group
      /\ A!Probes = Probes
  BY DEF A!CatalogGroup, CatalogGroup, A!RecommendationsGroup, RecommendationsGroup,
     A!IngredientRoutes, IngredientRoutes, A!CopyGroup, CopyGroup, A!UsersGroup, UsersGroup,
     A!AdminGroup, AdminGroup, A!TestingGroup, TestingGroup, A!K6Group, K6Group, A!Probes, Probes
<1>2. A!Groups = Groups /\ A!Services = Services /\ A!AllRoutes = AllRoutes
  BY <1>1 DEF A!Groups, Groups, A!Services, Services, A!AllRoutes, AllRoutes
<1>3. A!AllRoutes = AllRoutes /\ A!Headers = Headers
  BY <1>2 DEF A!AllRoutes, AllRoutes, A!Headers, Headers, A!Actions, Actions, A!Shares, Shares, A!Delays, Delays
<1> QED
  BY <1>1, <1>3 DEF A!NeedsToken

\* AuthMiddleware refuses a client without a token, and never a call: the
\* recommendations service calls the catalog group with the token it has verified.
LEMMA RefuseCatalogOK ==
  ASSUME DInv, RefuseCatalog
  PROVE  DInv'
<1>1. Handles(CatalogGroup)
  BY DEF RefuseCatalog
<1>2. /\ stack # <<>> /\ Top.pc = "arrived" /\ Top.route \in CatalogGroup
      /\ Serves(deployment, Top.at, Top.route)
      /\ Len(stack) = Depth \/ Len(stack) = Depth + 1
  BY <1>1, HandlesFacts
<1>3. CASE ~Top.token /\ Succeeds(401)
  <2>1. CASE Len(stack) = Depth
    <3>1. Top.route \notin Recording
      BY <1>2 DEF CatalogGroup, IngredientRoutes, RecommendationsGroup, Recording
    <3>2. Top.route = request.route /\ Top.token = request.token
          /\ (A!NeedsToken(request.route) /\ ~request.token => Deserved(401))
      BY <1>2, <2>1, <3>1, Served
    <3>3. A!NeedsToken(request.route)
      BY <1>2, <3>2, SameRoutes
    <3>4. 401 \in Statuses
      BY DEF Statuses
    <3> QED
      BY <1>2, <1>3, <2>1, <3>2, <3>3, <3>4, SucceedsWell
  <2>2. CASE Len(stack) = Depth + 1
    <3>1. Top.route \notin {"authenticate", "recommendation"}
      BY <1>2 DEF CatalogGroup, IngredientRoutes
    <3> QED
      BY <1>2, <1>3, <2>2, <3>1, Called
  <2> QED
    BY <1>2, <2>1, <2>2
<1>4. CASE Breaks(401)
  BY <1>2, <1>4, BreaksWell DEF A!Failures
<1> QED
  BY <1>3, <1>4 DEF RefuseCatalog

\* The errors and delays that a request may ask for.
LEMMA WhatIsAskedFor ==
  ASSUME NEW h, h = request.headers, NEW outcome, outcome \in InjectErrors(h, "get-ingredients")
  PROVE  /\ outcome \in {"error", "slow", "none"}
         /\ outcome = "error" => A!MayFail
         /\ outcome # "error" => ~A!MustFail
         /\ outcome = "slow" => A!MayStall
         /\ outcome = "none" => ~A!MustFail /\ ~A!MustStall
<1>1. \A share : (TRUE \in Draws(share) <=> A!Possible(share)) /\ (FALSE \in Draws(share) <=> ~A!Certain(share))
  BY DEF Draws, A!Possible, A!Certain
<1>2. CASE h.action # "get-ingredients"
  <2>1. outcome = "none"
    BY <1>2 DEF InjectErrors
  <2>2. ~A!ForIngredients
    BY <1>2 DEF A!ForIngredients
  <2> QED
    BY <2>1, <2>2 DEF A!MayFail, A!MustFail, A!MayStall, A!MustStall
<1>3. CASE h.action = "get-ingredients"
  <2>1. /\ outcome \in {"error", "slow", "none"}
        /\ outcome = "error" => h.error /\ TRUE \in Draws(h.errorShare)
        /\ outcome # "error" => (h.error => FALSE \in Draws(h.errorShare))
        /\ outcome = "slow" => h.delay = "long" /\ TRUE \in Draws(h.delayShare)
        /\ outcome = "none" => (h.delay = "long" => FALSE \in Draws(h.delayShare))
    BY <1>3 DEF InjectErrors, Outcomes
  <2>2. A!ForIngredients
    BY <1>3 DEF A!ForIngredients
  <2>3. outcome = "error" => A!MayFail
    BY <1>1, <2>1, <2>2 DEF A!MayFail
  <2>4. outcome # "error" => ~A!MustFail
    BY <1>1, <2>1, <2>2 DEF A!MayFail, A!MustFail
  <2>5. outcome = "slow" => A!MayStall
    BY <1>1, <2>1, <2>2, <2>4 DEF A!MayStall
  <2>6. outcome = "none" => ~A!MustStall
    BY <1>1, <2>1, <2>2 DEF A!MayStall, A!MustStall
  <2> QED
    BY <2>1, <2>3, <2>4, <2>5, <2>6
<1> QED
  BY <1>2, <1>3

\* The frame of a fetch of ingredients that has been answered.
AnsweredSlowly(f, status, slow, g) == g = [f EXCEPT !.pc = "answered", !.status = status, !.slow = slow]

\* An answer that may be late leaves the request as it was.
LEMMA SlowFrame ==
  ASSUME NEW f \in Frame, NEW status \in Statuses, NEW slow \in BOOLEAN, NEW g, AnsweredSlowly(f, status, slow, g)
  PROVE  /\ g \in Frame /\ g.at = f.at /\ g.route = f.route /\ g.headers = f.headers
         /\ g.token = f.token /\ g.internal = f.internal
         /\ g.pc = "answered" /\ g.status = status /\ g.slow = slow
<1>1. "answered" \in Labels
  BY DEF Labels
<1> QED
  BY <1>1 DEF Frame, AnsweredSlowly

\* An answer that may be late keeps the invariant, if it says what it should.
LEMMA AnswersAfterWell ==
  ASSUME DInv, stack # <<>>, NEW status \in Statuses, NEW slow \in BOOLEAN, AnswersAfter(status, slow),
         Len(stack) = Depth => Deserved(status),
         Len(stack) = Depth + 1 => Outcome(Top.route, status, slow)
  PROVE  DInv'
<1>1. PICK g : AnsweredSlowly(Top, status, slow, g)
  BY DEF AnsweredSlowly
<1>2. /\ g \in Frame /\ g.at = Top.at /\ g.route = Top.route /\ g.headers = Top.headers
      /\ g.token = Top.token /\ g.internal = Top.internal
      /\ g.pc = "answered" /\ g.status = status /\ g.slow = slow
  <2>1. Top \in Frame
    BY Shape
  <2> QED
    BY <1>1, <2>1, SlowFrame
<1>3. Replaces(stack, g, stack') /\ Alike /\ UNCHANGED <<answer, asked, foods, stored, faults>>
  BY <1>1 DEF AnsweredSlowly, AnswersAfter, Replaces, Alike
<1>4. stack' \in Seq(Frame) /\ StackInv'
  BY <1>2, <1>3, Answered
<1>5. TypeOK'
  BY <1>3, <1>4 DEF DInv, TypeOK, Alike, Frame, Processes
<1> QED
  BY <1>4, <1>5 DEF DInv

\* GET /api/ingredients/{type}: injected errors and delays reach only those who
\* have asked for them.
LEMMA ServeIngredientsOK ==
  ASSUME DInv, ServeIngredients
  PROVE  DInv'
<1>1. /\ stack # <<>> /\ Top.pc = "arrived" /\ Top.route \in IngredientRoutes /\ Top.token
      /\ Serves(deployment, Top.at, Top.route)
      /\ Len(stack) = Depth \/ Len(stack) = Depth + 1
      /\ Len(stack) = Depth + 1 => Top.route \in CalledRoutes
  BY HandlesFacts DEF ServeIngredients
<1>2. PICK outcome, status, slow :
        /\ outcome \in InjectErrors(Top.headers, "get-ingredients")
        /\ status = IF outcome = "error" THEN 500 ELSE IF Top.route = "ingredients" THEN 200 ELSE 400
        /\ slow = (outcome = "slow")
        /\ AnswersAfter(status, slow)
  BY DEF ServeIngredients
<1>3. Top.route \notin Recording /\ Top.route \notin {"authenticate", "recommendation", "record"}
      /\ A!NeedsToken(Top.route) /\ Top.route \notin {"ws", "bad-status", "food", "food-by-id"}
      /\ Top.route \in {"ingredients", "unknown-ingredients"}
  BY <1>1, SameRoutes DEF IngredientRoutes, RecommendationsGroup, Recording, CatalogGroup
<1>4. Top.headers = request.headers
  BY <1>1, <1>3, Served, Called
<1>5. /\ outcome \in {"error", "slow", "none"}
      /\ outcome = "error" => A!MayFail
      /\ outcome # "error" => ~A!MustFail
      /\ outcome = "slow" => A!MayStall
      /\ outcome = "none" => ~A!MustFail /\ ~A!MustStall
  BY <1>2, <1>4, WhatIsAskedFor
<1>6. /\ slow \in BOOLEAN
      /\ outcome = "slow" => slow
      /\ outcome # "slow" => ~slow
      /\ outcome = "error" => status = 500
      /\ outcome # "error" /\ Top.route = "ingredients" => status = 200
      /\ outcome # "error" /\ Top.route # "ingredients" => status = 400
  BY <1>2, Zenon
<1>7. status \in Statuses
  BY <1>6 DEF Statuses
<1>8. ASSUME Len(stack) = Depth
      PROVE  Deserved(status)
  <2>1. Top.route = request.route /\ Top.token = request.token
        /\ \A s \in Statuses :
              (A!NeedsToken(request.route) => request.token) /\ A!Expected(s) => Deserved(s)
    BY <1>1, <1>3, <1>8, Served
  <2>2. A!Expected(status)
    <3>1. CASE outcome = "error"
      BY <1>1, <1>5, <1>6, <2>1, <3>1, SameRoutes DEF A!Expected
    <3>2. CASE outcome # "error" /\ Top.route = "ingredients"
      BY <1>5, <1>6, <2>1, <3>2 DEF A!Expected, A!ById
    <3>3. CASE outcome # "error" /\ Top.route = "unknown-ingredients"
      BY <1>5, <1>6, <2>1, <3>3 DEF A!Expected
    <3> QED
      BY <1>3, <3>1, <3>2, <3>3
  <2> QED
    BY <1>1, <1>7, <2>1, <2>2
<1>9. ASSUME Len(stack) = Depth + 1
      PROVE  Outcome(Top.route, status, slow)
  <2>1. Top.route = "ingredients" /\ (stored > 0 => faults > 0)
    BY <1>1, <1>3, <1>9, Called DEF CalledRoutes
  <2>2. CASE outcome = "none"
    BY <1>5, <1>6, <2>1, <2>2 DEF Outcome, Successful
  <2>3. CASE outcome = "slow"
    BY <1>5, <1>6, <2>1, <2>3 DEF Outcome, Successful
  <2>4. CASE outcome = "error"
    BY <1>5, <1>6, <2>1, <2>4 DEF Outcome, Successful
  <2> QED
    BY <1>5, <2>2, <2>3, <2>4
<1>10. stack # <<>> /\ slow \in BOOLEAN
  BY <1>1, <1>6
<1>11. AnswersAfter(status, slow)
  BY <1>2
<1> QED
  BY <1>7, <1>8, <1>9, <1>10, <1>11, AnswersAfterWell

\* An answer of one of these handlers: what has to be shown of it for
\* clients, and for those that call it.
LEMMA PlainAnswer ==
  ASSUME DInv, NEW group, Handles(group), Top.route \notin Recording,
         NEW status \in Statuses, Succeeds(status),
         Top.route = request.route /\ Top.token = request.token /\ Top.route \in AllRoutes =>
           \/ A!NeedsToken(Top.route) /\ ~Top.token /\ status = 401
           \/ (A!NeedsToken(Top.route) => Top.token) /\ A!Expected(status),
         /\ Top.route \in CalledRoutes /\ ~Top.slow /\ (stored > 0 => faults > 0)
         /\ Top.route = "authenticate" => Top.token = request.token
         => Outcome(Top.route, status, Top.slow)
  PROVE  DInv'
<1>1. /\ stack # <<>> /\ Top.pc = "arrived" /\ Serves(deployment, Top.at, Top.route)
  BY HandlesFacts
<1>2. ASSUME Len(stack) = Depth
      PROVE  Deserved(status)
  BY <1>1, <1>2, Served
<1>3. ASSUME Len(stack) = Depth + 1
      PROVE  Outcome(Top.route, status, Top.slow)
  BY <1>1, <1>3, Called
<1> QED
  BY <1>1, <1>2, <1>3, SucceedsWell

\* The routes that are answered with 200 whoever asks.
LEMMA AlwaysFine ==
  ASSUME DInv, NEW group, Handles(group), Top.route \notin Recording, Succeeds(200),
         Top.route \notin {"ws", "bad-status", "unknown-ingredients", "ingredients", "authenticate"} \cup A!ById,
         A!NeedsToken(Top.route) => Top.token
  PROVE  DInv'
<1>1. 200 \in Statuses
  BY DEF Statuses
<1>2. Top.route = request.route => A!Expected(200)
  BY DEF A!Expected, Recording, RecommendationsGroup
<1>3. Top.route # "recommendation"
  BY DEF A!ById
<1>4. ~Top.slow => Outcome(Top.route, 200, Top.slow)
  BY <1>3 DEF Outcome, Successful, Recording
<1> QED
  BY <1>1, <1>2, <1>4, PlainAnswer

\* The handlers that succeed for whoever has the token.
LEMMA FineOK ==
  ASSUME DInv, ServeLists \/ ServeRatings \/ ServeCsrfToken \/ ServeK6 \/ ServeConfig \/ ServeFrontend \/ ServeProbe
  PROVE  DInv'
<1> DEFINE group == {"rices", "tools", "ratings", "csrf-token", "flip_coin.php", "config", "page", "ready"}
<1>1. Handles(group) /\ Succeeds(200) /\ (Top.route \in {"rices", "tools", "ratings"} => Top.token)
  BY DEF ServeLists, ServeRatings, ServeCsrfToken, ServeK6, ServeConfig, ServeFrontend, ServeProbe,
     Handles, K6Group, Probes
<1>2. Top.route \in group
  BY <1>1, HandlesFacts
<1>3. /\ Top.route \notin Recording
      /\ Top.route \notin {"ws", "bad-status", "unknown-ingredients", "ingredients", "authenticate"} \cup A!ById
      /\ A!NeedsToken(Top.route) => Top.route \in {"rices", "tools", "ratings"}
  BY <1>2, SameRoutes DEF Recording, RecommendationsGroup, A!ById, CatalogGroup, IngredientRoutes
<1> HIDE DEF group
<1> QED
  BY <1>1, <1>3, AlwaysFine

\* Login and authentication: who is authenticated has a user's token.
LEMMA ServeUsersOK ==
  ASSUME DInv, ServeUsers
  PROVE  DInv'
<1>1. Handles({"login", "authenticate"})
  BY DEF ServeUsers
<1>2. stack # <<>> /\ Top.route \in {"login", "authenticate"}
  BY <1>1, HandlesFacts
<1>3. CASE Breaks(500)
  BY <1>2, <1>3, BreaksWell DEF A!Failures
<1>4. CASE Succeeds(IF Top.token THEN 200 ELSE 401)
  <2>1. Top.route \notin Recording /\ A!NeedsToken(Top.route)
    BY <1>2, SameRoutes DEF Recording, RecommendationsGroup
  <2>2. PICK status : status = IF Top.token THEN 200 ELSE 401
    OBVIOUS
  <2>3. status \in Statuses /\ Succeeds(status)
    BY <1>4, <2>2 DEF Statuses
  <2>4. Top.token /\ Top.route = request.route => A!Expected(status)
    BY <1>2, <2>2 DEF A!Expected, A!ById
  <2>5. ~Top.token => status = 401
    BY <2>2
  <2>6. /\ Top.route \in CalledRoutes /\ ~Top.slow /\ (stored > 0 => faults > 0)
        /\ Top.route = "authenticate" => Top.token = request.token
        => Outcome(Top.route, status, Top.slow)
    <3>1. Top.route \in CalledRoutes => Top.route = "authenticate"
      BY <1>2 DEF CalledRoutes
    <3>2. CASE Top.token
      BY <3>1, <2>2, <3>2 DEF Outcome, Successful
    <3>3. CASE ~Top.token
      BY <3>1, <2>2, <3>3 DEF Outcome, Successful
    <3> QED
      BY <3>2, <3>3
  <2> QED
    BY <1>1, <2>1, <2>3, <2>4, <2>5, <2>6, PlainAnswer
<1> QED
  BY <1>3, <1>4 DEF ServeUsers

\* GET /api/internal/recommendations/{id} finds a food if there is one.
LEMMA ServeRecommendationOK ==
  ASSUME DInv, ServeRecommendation
  PROVE  DInv'
<1>1. Handles({"recommendation"})
  BY DEF ServeRecommendation
<1>2. stack # <<>> /\ Top.route = "recommendation"
  BY <1>1, HandlesFacts
<1>3. CASE Breaks(500)
  BY <1>2, <1>3, BreaksWell DEF A!Failures
<1>4. CASE Succeeds(IF foods > 0 THEN 200 ELSE 404)
  <2>1. Top.route \notin Recording /\ ~A!NeedsToken(Top.route) /\ foods \in Nat
    BY <1>2, SameRoutes DEF Recording, RecommendationsGroup, CatalogGroup, IngredientRoutes, DInv, TypeOK
  <2>2. PICK status : status = IF foods > 0 THEN 200 ELSE 404
    OBVIOUS
  <2>3. status \in Statuses /\ Succeeds(status)
    BY <1>4, <2>2 DEF Statuses
  <2>4. Top.route = request.route => A!Expected(status)
    BY <1>2, <2>1, <2>2 DEF A!Expected, A!ById
  <2>5. ~Top.slow /\ (stored > 0 => faults > 0) => Outcome(Top.route, status, Top.slow)
    BY <1>2, <2>1, <2>2 DEF Outcome, Successful
  <2> QED
    BY <1>1, <2>1, <2>3, <2>4, <2>5, PlainAnswer
<1> QED
  BY <1>3, <1>4 DEF ServeRecommendation

\* The handlers that no other service calls.
LEMMA UncalledOK ==
  ASSUME DInv, ServeHistory \/ ServeAdminLogin \/ ServeTesting \/ ServeWs \/ ServeCopy
  PROVE  DInv'
<1>1. CASE ServeHistory \/ ServeAdminLogin
  <2>1. Handles({"history", "admin-login"})
    BY <1>1 DEF ServeHistory, ServeAdminLogin, Handles
  <2>2. stack # <<>> /\ Top.route \in {"history", "admin-login"}
    BY <2>1, HandlesFacts
  <2>3. CASE Breaks(500)
    BY <2>2, <2>3, BreaksWell DEF A!Failures
  <2>4. CASE Succeeds(IF Top.token THEN 200 ELSE 401)
    <3>1. Top.route \notin Recording /\ A!NeedsToken(Top.route) /\ Top.route \notin CalledRoutes
      BY <2>2, SameRoutes DEF Recording, RecommendationsGroup, CalledRoutes
    <3>2. PICK status : status = IF Top.token THEN 200 ELSE 401
      OBVIOUS
    <3>3. status \in Statuses /\ Succeeds(status)
      BY <2>4, <3>2 DEF Statuses
    <3>4. Top.token /\ Top.route = request.route => A!Expected(status)
      BY <2>2, <3>2 DEF A!Expected, A!ById
    <3>5. ~Top.token => status = 401
      BY <3>2
    <3> QED
      BY <2>1, <3>1, <3>3, <3>4, <3>5, PlainAnswer
  <2> QED
    BY <1>1, <2>3, <2>4 DEF ServeHistory, ServeAdminLogin
<1>2. CASE ServeTesting \/ ServeWs
  <2>1. Handles({"get", "bad-status", "ws"})
    BY <1>2 DEF ServeTesting, ServeWs, Handles, TestingGroup
  <2>2. stack # <<>> /\ Top.route \in {"get", "bad-status", "ws"}
    BY <2>1, HandlesFacts
  <2>3. PICK status : Succeeds(status) /\ status = IF Top.route = "bad-status" THEN 400
                                                   ELSE IF Top.route = "ws" THEN 101 ELSE 200
    BY <1>2 DEF ServeTesting, ServeWs, Handles, TestingGroup
  <2>4. Top.route \notin Recording /\ ~A!NeedsToken(Top.route) /\ Top.route \notin CalledRoutes
    BY <2>2, SameRoutes DEF Recording, RecommendationsGroup, CalledRoutes, CatalogGroup, IngredientRoutes
  <2>5. status \in Statuses /\ (Top.route = request.route => A!Expected(status))
    BY <2>2, <2>3 DEF A!Expected, A!ById, Statuses
  <2> QED
    BY <2>1, <2>3, <2>4, <2>5, PlainAnswer
<1>3. CASE ServeCopy
  <2>1. Handles(CopyGroup)
    BY <1>3 DEF ServeCopy
  <2>2. stack # <<>> /\ Top.route \in {"quotes", "names", "adjectives"}
    BY <2>1, HandlesFacts DEF CopyGroup
  <2>3. CASE Breaks(500)
    BY <2>2, <2>3, BreaksWell DEF A!Failures
  <2>4. CASE Succeeds(200)
    <3>1. /\ Top.route \notin Recording
          /\ Top.route \notin {"ws", "bad-status", "unknown-ingredients", "ingredients", "authenticate"} \cup A!ById
          /\ ~A!NeedsToken(Top.route)
      BY <2>2, SameRoutes DEF Recording, RecommendationsGroup, A!ById, CatalogGroup, IngredientRoutes
    <3> QED
      BY <2>1, <2>4, <3>1, AlwaysFine
  <2> QED
    BY <1>3, <2>3, <2>4 DEF ServeCopy
<1> QED
  BY <1>1, <1>2, <1>3

\* A failure of the database in the catalog group.
LEMMA BreakCatalogOK ==
  ASSUME DInv, BreakCatalog
  PROVE  DInv'
<1>1. stack # <<>>
  BY HandlesFacts DEF BreakCatalog
<1>2. Breaks(400) \/ Breaks(500)
  BY DEF BreakCatalog
<1> QED
  BY <1>1, <1>2, BreaksWell DEF A!Failures

\* A client that has a food recorded: by itself or with the gateway's help.
LEMMA RecordAsked ==
  ASSUME DInv, Handles({"record"}), Len(stack) = Depth
  PROVE  /\ stack # <<>> /\ Top = stack[Depth] /\ Top.route = "record" /\ Top.pc = "arrived"
         /\ request.route = "record" /\ request.route \in deployment.offers
         /\ ~A!NeedsToken(request.route) /\ stored = 0
         /\ (Top.token <=> request.token) /\ (Top.internal <=> A!Accepted)
<1>1. stack # <<>> /\ Top.pc = "arrived" /\ Top.route = "record" /\ Serves(deployment, Top.at, Top.route)
  BY HandlesFacts
<1>2. Top = stack[Depth] /\ Vouched(Top) /\ Progress(Top)
  BY <1>1, HandlerFacts
<1>3. Top.route = request.route /\ Top.token = request.token /\ request.route \in deployment.offers
  BY <1>1, <1>2, Offered
<1>4. ~A!NeedsToken(request.route)
  BY <1>1, <1>3, SameRoutes DEF CatalogGroup, IngredientRoutes, RecommendationsGroup
<1>5. stored = 0
  BY <1>1, <1>2 DEF Progress
<1>6. Top.internal <=> A!Accepted
  BY <1>1, <1>2 DEF Vouched
<1> QED
  BY <1>1, <1>2, <1>3, <1>4, <1>5, <1>6

\* The recording of a food that is called, by the handler of POST /api/food as
\* its last call.
LEMMA RecordCalled ==
  ASSUME DInv, Handles({"record"}), Len(stack) = Depth + 1
  PROVE  /\ stack # <<>> /\ Top.route = "record" /\ Top.pc = "arrived" /\ Top.token /\ Top.internal
         /\ request.route = "food" /\ request.token /\ (stored > 0 => faults > 0)
         /\ stack[Depth].call = 10 /\ stack[Depth].route = "food"
<1>1. stack # <<>> /\ Top.pc = "arrived" /\ Top.route = "record" /\ Serves(deployment, Top.at, Top.route)
  BY HandlesFacts
<1>3. Len(stack) = Depth + 1
  OBVIOUS
<1>4. /\ Top.token /\ Top.internal
      /\ request.route = "food" /\ request.token /\ (stored > 0 => faults > 0)
  BY <1>1, <1>3, Called
<1>5. PICK n, c : c = stack[Depth] /\ n = c.call
  OBVIOUS
<1>6. c \in Frame /\ Recommends(c) /\ c.call <= Len(Calls(c.route)) /\ Top.route = Calls(c.route)[c.call]
  BY <1>1, <1>3, <1>5, CallFacts DEF CallOK
<1>7. n \in Nat /\ n >= 1 /\ n <= Len(Calls(c.route)) /\ c.route \in RecommendationsGroup
  BY <1>5, <1>6 DEF Frame, Positions, Recommends
<1>8. Calls(c.route)[n] = "record"
  BY <1>1, <1>5, <1>6
<1>9. n = 10 /\ c.route = "food"
  BY <1>7, <1>8, CallsOf
<1> QED
  BY <1>1, <1>3, <1>4, <1>5, <1>9

\* The catalog refuses what no service of QuickFood sends.
LEMMA RefuseRecordOK ==
  ASSUME DInv, RefuseRecord
  PROVE  DInv'
<1>1. Handles({"record"})
  BY DEF RefuseRecord
<1>2. stack # <<>> /\ (Len(stack) = Depth \/ Len(stack) = Depth + 1)
  BY <1>1, HandlesFacts
<1>3. PICK status : /\ Succeeds(status)
                    /\ \/ ~Top.internal /\ status = 401
                       \/ Top.internal /\ ~Top.token /\ status \in {400, 500}
  BY DEF RefuseRecord
<1>4. Len(stack) # Depth + 1
  BY <1>1, <1>3, RecordCalled
<1>5. /\ request.route = "record" /\ request.route \in deployment.offers
      /\ ~A!NeedsToken(request.route) /\ stored = 0
      /\ (Top.token <=> request.token) /\ (Top.internal <=> A!Accepted)
  BY <1>1, <1>2, <1>4, RecordAsked
<1>6. A!Expected(status)
  BY <1>3, <1>5 DEF A!Expected
<1>7. status \in Statuses /\ status \notin {200, 201}
  BY <1>3 DEF Statuses
<1>8. Deserved(status)
  BY <1>5, <1>6, <1>7 DEF Deserved, A!Promised
<1> QED
  BY <1>2, <1>3, <1>4, <1>7, <1>8, SucceedsWell

\* The catalog records a food for a client, or for a call with its user's token;
\* for the same call a second time only after a failure.
LEMMA ServeRecordOK ==
  ASSUME DInv, ServeRecord
  PROVE  DInv'
<1>0. Handles({"record"}) /\ Top.internal /\ Top.token
  BY DEF ServeRecord
<1>1. stack # <<>> /\ Top.route = "record" /\ (Len(stack) = Depth \/ Len(stack) = Depth + 1)
  BY <1>0, HandlesFacts
<1>2. CASE Breaks(500)
  BY <1>1, <1>2, BreaksWell DEF A!Failures
<1>3. CASE AnswerWith(201) /\ foods' = foods + 1 /\ stored' = stored + 1 /\ UNCHANGED faults
  <2>1. PICK g : AnsweredAs(Top, 201, g)
    BY DEF AnsweredAs
  <2>2. /\ Replaces(stack, g, stack') /\ Alike /\ UNCHANGED <<answer, asked, faults>>
        /\ foods' = foods + 1 /\ stored' = stored + 1
    BY <1>3, <2>1 DEF AnsweredAs, AnswerWith, Replaces, Alike
  <2>3. /\ g \in Frame /\ g.at = Top.at /\ g.route = Top.route /\ g.headers = Top.headers
        /\ g.token = Top.token /\ g.internal = Top.internal
        /\ g.pc = "answered" /\ g.status = 201 /\ g.slow = Top.slow
    <3>1. Top \in Frame /\ 201 \in Statuses
      BY <1>1, Shape DEF Statuses
    <3> QED
      BY <2>1, <3>1, AnsweredFrame
  <2>4. foods \in Nat /\ stored \in 0..foods /\ foods' \in Nat /\ stored' \in 0..foods' /\ stored' > 0 /\ foods' > 0
    BY <2>2 DEF DInv, TypeOK
  <2>5. ASSUME Len(stack) = Depth + 1
        PROVE  stack' \in Seq(Frame) /\ StackInv'
    <3>1. PICK c : c = stack[Depth]
      OBVIOUS
    <3>2. /\ Top.pc = "arrived" /\ request.route = "food" /\ request.token
          /\ c.call = 10 /\ c.route = "food"
      BY <1>0, <2>5, <3>1, RecordCalled
    <3>3. Progress(c) /\ c \in Frame
      BY <1>1, <2>5, <3>1, CallFacts
    <3>4. Progress(c)'
      BY <2>2, <3>2, <3>3 DEF Progress, Recommends, Alike, A!MustFail, A!MustStall, A!MayFail,
         A!MayStall, A!ForIngredients
    <3>5. ~g.slow
      BY <1>1, <2>3, <2>5, <3>2, Called
    <3>6. Outcome(g.route, g.status, g.slow)'
      BY <1>1, <2>3, <2>4, <3>5 DEF Outcome, Successful
    <3> QED
      BY <1>1, <2>2, <2>3, <2>5, <3>1, <3>4, <3>6, CallAnswers
  <2>6. ASSUME Len(stack) = Depth
        PROVE  stack' \in Seq(Frame) /\ StackInv'
    <3>1. /\ request.route = "record" /\ request.route \in deployment.offers
          /\ ~A!NeedsToken(request.route) /\ request.token /\ A!Accepted
      BY <1>0, <2>6, RecordAsked
    <3>2. A!Promised(201)'
      BY <2>2, <3>1 DEF Alike, A!Promised, A!NeedsToken, A!Expected, A!Accepted
    <3>3. Deserved(g.status)'
      BY <2>3, <2>4, <3>2 DEF Deserved
    <3> QED
      BY <1>1, <2>2, <2>3, <2>6, <3>3, HandlerAnswers
  <2>7. TypeOK'
    BY <1>1, <2>2, <2>4, <2>5, <2>6 DEF DInv, TypeOK, Alike, Frame, Processes
  <2> QED
    BY <1>1, <2>5, <2>6, <2>7 DEF DInv
<1> QED
  BY <1>2, <1>3 DEF ServeRecord

\* A request that is not served has arrived from outside.
LEMMA NotServedFacts ==
  ASSUME DInv, NotServed
  PROVE  /\ stack # <<>> /\ Len(stack) = Depth /\ Top = stack[Depth] /\ Top.pc = "arrived"
         /\ Top \in Frame /\ AsAsked(Top) /\ Top.call = 1 /\ stored = 0
         /\ ~Serves(deployment, Top.at, Top.route)
<1>1. stack # <<>> /\ Top.pc = "arrived" /\ ~Serves(deployment, Top.at, Top.route)
  BY DEF NotServed
<1>2. Len(stack) = Depth
  BY <1>1, Called, Shape
<1>3. AsAsked(Top) /\ Progress(Top) /\ Top = stack[Depth]
  BY <1>1, <1>2, HandlerFacts
<1>4. Top.call = 1 /\ stored = 0
  <2>1. Top.call = 1
    BY <1>1, <1>3 DEF Progress, Recommends
  <2> QED
    BY <1>3, <2>1 DEF Progress
<1> QED
  BY <1>1, <1>2, <1>3, <1>4, Shape

\* A process answers 404 for what the deployment does not offer, and no call
\* gets that answer.
LEMMA NotFoundOK ==
  ASSUME DInv, NotFound
  PROVE  DInv'
<1>1. /\ NotServed /\ ~(HasGateway(deployment, Top.at) /\ Top.route \in ProxiedRoutes) /\ Succeeds(404)
  BY DEF NotFound
<1>2. /\ stack # <<>> /\ Len(stack) = Depth /\ Top = stack[Depth] /\ stored = 0
      /\ ~Serves(deployment, Top.at, Top.route)
  BY <1>1, NotServedFacts
<1>3. request.route \notin deployment.offers
  BY <1>1, <1>2, Offered
<1>4. Deserved(404)
  BY <1>2, <1>3 DEF Deserved, A!Promised
<1>5. Len(stack) # Depth + 1 /\ 404 \in Statuses
  BY <1>2, Shape DEF Statuses
<1> QED
  BY <1>1, <1>2, <1>4, <1>5, SucceedsWell

-----------------------------------------------------------------------------
(* The recommendations service *)

\* What the handlers of the recommendations service have when they start or go on.
LEMMA RecommendFacts ==
  ASSUME DInv, Handles(RecommendationsGroup)
  PROVE  /\ stack # <<>> /\ Len(stack) = Depth /\ Top = stack[Depth] /\ Top.pc = "arrived" /\ Top \in Frame
         /\ Top.route \in RecommendationsGroup /\ Recommends(Top)
         /\ AsAsked(Top) /\ Progress(Top) /\ (Top.call = 10 /\ stored > 0 => faults > 0)
         /\ request.route \in deployment.offers /\ A!NeedsToken(request.route)
<1>1. /\ stack # <<>> /\ Top.pc = "arrived" /\ Top.route \in RecommendationsGroup
      /\ Serves(deployment, Top.at, Top.route)
      /\ Len(stack) = Depth \/ (Len(stack) = Depth + 1 /\ Top.route \in CalledRoutes)
  BY HandlesFacts
<1>2. Len(stack) = Depth
  BY <1>1 DEF RecommendationsGroup, CalledRoutes
<1>3. Top = stack[Depth] /\ AsAsked(Top) /\ Progress(Top) /\ (Top.call = 10 /\ stored > 0 => faults > 0)
  BY <1>1, <1>2, HandlerFacts
<1>4. request.route \in deployment.offers
  BY <1>1, <1>3, Offered
<1>5. A!NeedsToken(request.route)
  BY <1>1, <1>3, SameRoutes DEF AsAsked
<1> QED
  BY <1>1, <1>2, <1>3, <1>4, <1>5, Shape DEF Recommends

\* FailRandomlyIfEnvSet answers 503 only to an authenticated user.
LEMMA SimulateFailureOK ==
  ASSUME DInv, SimulateFailure
  PROVE  DInv'
<1>1. Handles({"food"}) /\ FailRandomly /\ Top.call = 2 /\ Succeeds(503)
  BY DEF SimulateFailure
<1>2. Handles(RecommendationsGroup) /\ Top.route = "food"
  BY <1>1 DEF Handles, RecommendationsGroup
<1>3. /\ stack # <<>> /\ Len(stack) = Depth /\ AsAsked(Top) /\ Progress(Top)
      /\ request.route \in deployment.offers
  BY <1>2, RecommendFacts
<1>4. stored = 0 /\ request.token /\ request.route = "food"
  BY <1>1, <1>2, <1>3 DEF Progress, AsAsked
<1>5. A!Expected(503)
  BY <1>1, <1>4 DEF A!Expected
<1>6. Deserved(503)
  BY <1>3, <1>4, <1>5 DEF Deserved, A!Promised
<1>7. Len(stack) # Depth + 1 /\ 503 \in Statuses
  BY <1>3, Shape DEF Statuses
<1> QED
  BY <1>1, <1>3, <1>6, <1>7, SucceedsWell

\* The recommendations service answers 200 after its last call: the food is stored.
LEMMA ServeFoodOK ==
  ASSUME DInv, ServeFood
  PROVE  DInv'
<1>1. Handles(RecommendationsGroup) /\ Top.call > Len(Calls(Top.route)) /\ Succeeds(200)
  BY DEF ServeFood
<1>2. /\ stack # <<>> /\ Len(stack) = Depth /\ AsAsked(Top) /\ Progress(Top) /\ Top \in Frame
      /\ Top.route \in RecommendationsGroup /\ request.route \in deployment.offers
  BY <1>1, RecommendFacts
<1>3. Len(Calls("food")) = 10 /\ Len(Calls("food-by-id")) = 2
  BY DEF Calls
<1>4. Top.call \in Nat
  BY <1>2 DEF Frame, Positions
<1>5. ASSUME Top.route = "food"
      PROVE  Deserved(200)
  <2>1. request.route = "food" /\ Top.call > 10
    BY <1>1, <1>2, <1>3, <1>5 DEF AsAsked
  <2>2. Top.call > 2 /\ Top.call > 1
    BY <1>4, <2>1
  <2>3. request.token /\ stored > 0 /\ ~A!MustFail /\ ~A!MustStall
    BY <1>2, <1>5, <2>1, <2>2 DEF Progress
  <2>4. A!Expected(200)
    BY <2>1, <2>3 DEF A!Expected, A!ById
  <2> QED
    BY <1>2, <2>3, <2>4 DEF Deserved, A!Promised
<1>6. ASSUME Top.route = "food-by-id"
      PROVE  Deserved(200)
  <2>1. request.route = "food-by-id" /\ Top.call > 2
    BY <1>1, <1>2, <1>3, <1>6 DEF AsAsked
  <2>2. Top.call > 1
    BY <1>4, <2>1
  <2>3. request.token /\ foods > 0 /\ stored = 0
    BY <1>2, <1>6, <2>1, <2>2 DEF Progress
  <2>4. A!Expected(200)
    BY <2>1, <2>3 DEF A!Expected, A!ById
  <2> QED
    BY <1>2, <2>1, <2>3, <2>4 DEF Deserved, A!Promised
<1>7. Deserved(200)
  BY <1>2, <1>5, <1>6 DEF RecommendationsGroup
<1>8. Len(stack) # Depth + 1 /\ 200 \in Statuses
  BY <1>2, Shape DEF Statuses
<1> QED
  BY <1>1, <1>2, <1>7, <1>8, SucceedsWell

\* The frames of a request that waits, and of one that has just arrived.
WaitsAs(f, label, g) == g = [f EXCEPT !.pc = label]
ArrivesAs(process, route, headers, token, internal, e) == e = Arriving(process, route, headers, token, internal)

\* A request that waits for another is otherwise as it was.
LEMMA WaitingFrame ==
  ASSUME NEW f \in Frame, NEW label \in Labels, NEW g, WaitsAs(f, label, g)
  PROVE  /\ g \in Frame /\ g.at = f.at /\ g.route = f.route /\ g.headers = f.headers
         /\ g.token = f.token /\ g.internal = f.internal
         /\ g.call = f.call /\ g.pc = label
BY DEF Frame, WaitsAs

Truths == BOOLEAN

\* A request that has just arrived.
LEMMA ArrivingFrame ==
  ASSUME NEW process \in Processes, NEW route \in AllRoutes, NEW headers \in Headers, NEW token,
         NEW internal, token \in Truths, internal \in Truths,
         NEW e, ArrivesAs(process, route, headers, token, internal, e)
  PROVE  /\ e \in Frame /\ e.at = process /\ e.route = route /\ e.headers = headers /\ e.token = token
         /\ e.internal = internal
         /\ e.call = 1 /\ e.pc = "arrived" /\ ~e.slow
<1>1. "arrived" \in Labels /\ 1 \in Positions /\ 0 \in 0..RetryMax /\ 0 \in Statuses /\ FALSE \in BOOLEAN
  BY DeploymentAssumption DEF Labels, Positions, Statuses
<1>2. e = [at |-> process, route |-> route, headers |-> headers, token |-> token, internal |-> internal,
           pc |-> "arrived", call |-> 1, tries |-> 0, status |-> 0, slow |-> FALSE]
  BY DEF ArrivesAs, Arriving
<1> QED
  BY <1>1, <1>2 DEF Frame, Truths

\* Endpoints are processes.
LEMMA EndpointsExist ==
  ASSUME DInv, NEW process \in Processes, NEW service \in ApiServices
  PROVE  EnvEndpoint(deployment, process, service) \in Processes
BY Environment DEF Configured, EnvEndpoint, Processes

\* The routes of the gateway and of the calls lead to services with an endpoint.
LEMMA TargetsExist ==
  ASSUME NEW route
  PROVE  /\ Target(route) \in ApiServices /\ ServiceOf(route) \in ApiServices
         /\ NoHeaders \in Headers /\ CalledRoutes \subseteq AllRoutes
<1>1. Target(route) \in ApiServices /\ ServiceOf(route) \in ApiServices
  BY DEF Target, ServiceOf, ApiServices
<1>2. NoHeaders \in Headers
  BY DEF NoHeaders, Headers, Actions, Shares, Delays
<1>3. ASSUME NEW called \in CalledRoutes
      PROVE  called \in AllRoutes
  <2>1. /\ called \in Groups["catalog"] \/ called \in Groups["copy"]
        /\ "catalog" \in Services /\ "copy" \in Services
    BY DEF CalledRoutes, Groups, Services, CatalogGroup, IngredientRoutes, UsersGroup, AdminGroup, CopyGroup
  <2> QED
    BY <2>1 DEF AllRoutes
<1> QED
  BY <1>1, <1>2, <1>3

\* The call of a handler reaches a process that serves it, with the token and
\* the headers that the handler has.
LEMMA CallActionOK ==
  ASSUME DInv, Call
  PROVE  DInv'
<1>1. /\ Handles(RecommendationsGroup) /\ Top.call <= Len(Calls(Top.route))
      /\ LET route == Calls(Top.route)[Top.call]
         IN Send(Arriving(EnvEndpoint(deployment, Top.at, ServiceOf(route)), route, CallHeaders, CallToken, TRUE),
                 "calling")
  BY DEF Call
<1>2. /\ stack # <<>> /\ Len(stack) = Depth /\ Top = stack[Depth] /\ Top.pc = "arrived" /\ Top \in Frame
      /\ Top.route \in RecommendationsGroup /\ Recommends(Top) /\ AsAsked(Top) /\ Progress(Top)
      /\ (Top.call = 10 /\ stored > 0 => faults > 0)
  BY <1>1, RecommendFacts
<1>3. PICK route, process, headers, token :
        /\ route = Calls(Top.route)[Top.call]
        /\ process = EnvEndpoint(deployment, Top.at, ServiceOf(route))
        /\ headers = CallHeaders /\ token = CallToken
  OBVIOUS
<1>4. PICK c, e : WaitsAs(Top, "calling", c) /\ ArrivesAs(process, route, headers, token, TRUE, e)
  BY DEF WaitsAs, ArrivesAs
<1>5. Pushes(stack, c, e, stack')
  BY <1>1, <1>3, <1>4 DEF Send, WaitsAs, ArrivesAs, Pushes
<1>6. UNCHANGED <<deployment, request, answer, foods, asked, stored, faults>>
  BY <1>1 DEF Send
<1>7. PICK n, asker : n = Top.call /\ asker = Top.route
  OBVIOUS
<1>8. n \in Nat /\ n >= 1 /\ n <= Len(Calls(asker)) /\ asker \in RecommendationsGroup
  BY <1>1, <1>2, <1>7 DEF Frame, Positions
<1>9. route \in CalledRoutes /\ n <= 10
  <2>1. route = Calls(asker)[n]
    BY <1>3, <1>7
  <2>2. route \in CalledRoutes /\ (asker = "food" => n <= 10) /\ (asker = "food-by-id" => n <= 2)
    BY <1>8, <2>1, CallsOf
  <2> QED
    BY <1>8, <2>2 DEF RecommendationsGroup
<1>10. /\ process \in Processes /\ route \in AllRoutes /\ headers \in Headers /\ token \in BOOLEAN
       /\ Serves(deployment, process, route)
  <2>1. Top.at \in Processes /\ Top.headers \in Headers /\ Top.token \in BOOLEAN
    BY <1>2 DEF Frame
  <2>2. process \in Processes
    BY <1>3, <2>1, EndpointsExist, TargetsExist
  <2>3. headers \in Headers
    BY <1>3, <2>1, TargetsExist DEF CallHeaders, AddErrorHeaders
  <2>4. token \in BOOLEAN
    BY <1>3, <2>1 DEF CallToken
  <2> QED
    BY <1>3, <1>9, <2>2, <2>3, <2>4, TargetsExist, CallsServed
<1>11. /\ c \in Frame /\ c.at = Top.at /\ c.route = Top.route /\ c.headers = Top.headers
       /\ c.token = Top.token /\ c.internal = Top.internal /\ c.call = Top.call /\ c.pc = "calling"
  <2>1. "calling" \in Labels
    BY DEF Labels
  <2> QED
    BY <1>2, <1>4, <2>1, WaitingFrame
<1>12. /\ e \in Frame /\ e.at = process /\ e.route = route /\ e.headers = headers /\ e.token = token
       /\ e.internal /\ e.pc = "arrived" /\ ~e.slow
  <2>1. PICK internal : internal = TRUE
    OBVIOUS
  <2>2. /\ process \in Processes /\ route \in AllRoutes /\ headers \in Headers
        /\ token \in Truths /\ internal \in Truths
    BY <1>10, <2>1 DEF Truths
  <2>3. ArrivesAs(process, route, headers, token, internal, e)
    BY <1>4, <2>1
  <2>4. /\ e \in Frame /\ e.at = process /\ e.route = route /\ e.headers = headers /\ e.token = token
        /\ e.internal = internal /\ e.pc = "arrived" /\ ~e.slow
    BY <2>2, <2>3, ArrivingFrame
  <2> QED
    BY <2>1, <2>4
<1>13. HandlerOK(c)'
  <2>1. c.route # "record"
    BY <1>2, <1>11 DEF RecommendationsGroup
  <2> QED
    BY <1>1, <1>2, <1>6, <1>11, <2>1 DEF HandlerOK, AsAsked, Vouched, Progress, Recommends,
       A!MustFail, A!MustStall, A!MayFail, A!MayStall, A!ForIngredients
<1>14. CallOK(c, e)'
  <2>1. stored > 0 => faults > 0
    <3>1. n < 10 => stored = 0
      BY <1>2, <1>7 DEF Progress
    <3>2. n = 10 \/ n < 10
      BY <1>8, <1>9
    <3> QED
      BY <1>2, <1>7, <3>1, <3>2
  <2>2. /\ e.route = Calls(c.route)[c.call]
        /\ e.token = (c.token /\ (c.route = "food" \/ c.call = 1))
        /\ e.headers = IF c.route = "food" /\ c.call > 1 THEN AddErrorHeaders(c.headers) ELSE NoHeaders
    BY <1>3, <1>11, <1>12 DEF CallToken, CallHeaders
  <2> QED
    BY <1>6, <1>10, <1>12, <2>1, <2>2 DEF CallOK
<1>15. stack' \in Seq(Frame) /\ StackInv'
  BY <1>2, <1>5, <1>6, <1>11, <1>12, <1>13, <1>14, CallStart
<1>16. TypeOK'
  BY <1>6, <1>15 DEF DInv, TypeOK, Frame, Processes
<1> QED
  BY <1>15, <1>16 DEF DInv

-----------------------------------------------------------------------------
(* The gateway *)

\* The gateway passes a request on, once.
LEMMA ProxyOK ==
  ASSUME DInv, Proxy
  PROVE  DInv'
<1>1. /\ NotServed /\ HasGateway(deployment, Top.at) /\ Top.route \in ProxiedRoutes
      /\ Send(Arriving(EnvEndpoint(deployment, Top.at, Target(Top.route)), Top.route, Top.headers, Top.token,
                       Top.internal \/ Top.route \in ApiRoutes),
              "proxying")
  BY DEF Proxy
<1>2. /\ stack # <<>> /\ Len(stack) = Depth /\ Top = stack[Depth] /\ Top.pc = "arrived"
      /\ Top \in Frame /\ AsAsked(Top) /\ Top.call = 1 /\ stored = 0
      /\ ~Serves(deployment, Top.at, Top.route)
  BY <1>1, NotServedFacts
<1>3. Depth = 1 /\ Len(stack) = 1 /\ Top = stack[1] /\ Top.at = deployment.entry
  <2>1. Depth # 2
    BY <1>1, <1>2, Offered
  <2>2. Depth = 1
    BY <2>1 DEF Depth
  <2> QED
    BY <1>2, <2>2 DEF DInv, StackInv
<1>4. PICK process, route, headers, token, internal :
        /\ process = EnvEndpoint(deployment, Top.at, Target(Top.route))
        /\ route = Top.route /\ headers = Top.headers /\ token = Top.token
        /\ internal = (Top.internal \/ Top.route \in ApiRoutes)
  OBVIOUS
<1>5. PICK c, e : WaitsAs(Top, "proxying", c) /\ ArrivesAs(process, route, headers, token, internal, e)
  BY DEF WaitsAs, ArrivesAs
<1>6. Pushes(stack, c, e, stack')
  BY <1>1, <1>4, <1>5 DEF Send, WaitsAs, ArrivesAs, Pushes
<1>7. UNCHANGED <<deployment, request, answer, foods, asked, stored, faults>>
  BY <1>1 DEF Send
<1>8. process \in Processes /\ process = deployment.endpoint[Target(Top.route)]
  <2>1. Top.at \in Processes
    BY <1>2 DEF Frame
  <2>2. ~EnvServe(deployment, deployment.entry, Target(Top.route))
    BY <1>1, <1>2, <1>3, Environment DEF Configured
  <2> QED
    BY <1>3, <1>4, <2>1, <2>2, EndpointsExist, TargetsExist DEF EnvEndpoint
<1>9. /\ c \in Frame /\ c.at = Top.at /\ c.route = Top.route /\ c.headers = Top.headers
      /\ c.token = Top.token /\ c.internal = Top.internal /\ c.pc = "proxying"
  <2>1. "proxying" \in Labels
    BY DEF Labels
  <2> QED
    BY <1>2, <1>5, <2>1, WaitingFrame
<1>10. /\ e \in Frame /\ e.at = process /\ e.route = route /\ e.headers = headers /\ e.token = token
       /\ e.internal = internal /\ e.call = 1 /\ e.pc = "arrived"
  <2>1. /\ process \in Processes /\ route \in AllRoutes /\ headers \in Headers
        /\ token \in Truths /\ internal \in Truths
    BY <1>2, <1>4, <1>8 DEF Frame, Truths
  <2>2. ArrivesAs(process, route, headers, token, internal, e)
    BY <1>5
  <2> QED
    BY <2>1, <2>2, ArrivingFrame
<1>11. stack' \in Seq(Frame) /\ stack' # <<>> /\ Len(stack') = 2 /\ stack'[1] = c /\ stack'[2] = e
  <2>1. stack \in Seq(Frame)
    BY <1>2, Shape
  <2>2. /\ stack' \in Seq(Frame) /\ stack' # <<>> /\ Len(stack') = Len(stack) + 1
        /\ stack'[Len(stack)] = c /\ stack'[Len(stack) + 1] = e
    BY <1>2, <1>6, <1>9, <1>10, <2>1, Pushed, SMTT(60)
  <2> QED
    BY <1>3, <2>2
<1>12. Depth' = 2 /\ Top' = e
  BY <1>9, <1>11 DEF Depth, Top
<1>13. GatewayOK'
  BY <1>1, <1>2, <1>3, <1>4, <1>7, <1>8, <1>9, <1>10, <1>11 DEF GatewayOK, AsAsked
<1>14. HandlerOK(e)'
  <2>1. ASSUME e.route = "record"
        PROVE  e.internal /\ A!Accepted'
    <3>1. Top.route \in ApiRoutes
      BY <1>4, <1>10, <2>1 DEF ApiRoutes, AllRoutes, Groups, Services, AdminGroup, Probes, K6Group
    <3>2. A!Accepted'
      BY <1>1, <1>2, <1>3, <1>4, <1>7, <1>10, <2>1 DEF A!Accepted, Vouches
    <3> QED
      BY <1>4, <1>10, <3>1, <3>2
  <2>2. Vouched(e)'
    BY <2>1 DEF Vouched
  <2> QED
    BY <1>2, <1>4, <1>7, <1>10, <2>2 DEF HandlerOK, AsAsked, Progress
<1>15. StackInv'
  BY <1>3, <1>7, <1>9, <1>10, <1>11, <1>12, <1>13, <1>14 DEF StackInv
<1>16. TypeOK'
  BY <1>7, <1>11 DEF DInv, TypeOK, Frame, Processes
<1> QED
  BY <1>15, <1>16 DEF DInv

\* The gateway passes on what it has received: Top is the handler's answer.
LEMMA ProxyAnswerOK ==
  ASSUME DInv, ProxyAnswer
  PROVE  DInv'
<1>1. /\ Len(stack) > 1 /\ Top.pc = "answered" /\ Caller.pc = "proxying"
      /\ Resume([Caller EXCEPT !.pc = "answered", !.status = IF Top.status = 0 THEN 502 ELSE Top.status])
  BY DEF ProxyAnswer, Returns
<1>2. stack # <<>>
  <2>1. Len(<<>>) = 0
    OBVIOUS
  <2> QED
    BY <1>1, <2>1
<1>3. Len(stack) # Depth + 1
  <2>1. ASSUME Len(stack) = Depth + 1
        PROVE  FALSE
    <3>1. Caller = stack[Depth]
      BY <1>2, <2>1, Shape DEF Caller
    <3> QED
      BY <1>1, <1>2, <2>1, <3>1, CallFacts
  <2> QED
    BY <2>1
<1>4. Depth = 2 /\ Len(stack) = 2 /\ Caller = stack[1] /\ Top = stack[2] /\ stack[1] \in Frame /\ Top \in Frame
  <2>1. /\ Depth \in {1, 2} /\ Len(stack) \in {Depth, Depth + 1}
        /\ stack[1] \in Frame /\ Top \in Frame
    BY <1>2, Shape
  <2>2. Len(stack) = Depth
    BY <1>3, <2>1
  <2>3. Depth = 2
    BY <1>1, <2>1, <2>2
  <2>4. Caller = stack[1] /\ Top = stack[2]
    BY <2>2, <2>3 DEF Caller, Top
  <2> QED
    BY <2>1, <2>2, <2>3, <2>4
<1>5. HandlerOK(Top) /\ GatewayOK /\ stack[1].at = deployment.entry
  BY <1>2, <1>4 DEF DInv, StackInv
<1>6. PICK status : status = IF Top.status = 0 THEN 502 ELSE Top.status
  OBVIOUS
<1>7. status \in Statuses /\ Deserved(status)
  <2>1. CASE Top.status = 0
    <3>1. ~Deserved(0) /\ faults \in Nat
      BY DEF Deserved, A!Promised, A!Expected, A!Failures, DInv, TypeOK
    <3>2. faults > 0
      BY <1>1, <1>5, <2>1, <3>1 DEF HandlerOK
    <3> QED
      BY <1>6, <2>1, <3>2 DEF Deserved, A!Promised, A!Failures, Statuses
  <2>2. CASE Top.status # 0
    BY <1>1, <1>4, <1>5, <1>6, <2>2 DEF HandlerOK, Frame
  <2> QED
    BY <2>1, <2>2
<1>8. PICK f : AnsweredAs(stack[1], status, f)
  BY DEF AnsweredAs
<1>9. /\ Pops(stack, f, stack')
      /\ UNCHANGED <<deployment, request, answer, foods, asked, stored, faults>>
  BY <1>1, <1>4, <1>6, <1>8 DEF Resume, Pops, AnsweredAs
<1>10. /\ f \in Frame /\ f.at = stack[1].at /\ f.route = stack[1].route /\ f.headers = stack[1].headers
       /\ f.token = stack[1].token /\ f.internal = stack[1].internal /\ f.pc = "answered" /\ f.status = status
  BY <1>4, <1>7, <1>8, AnsweredFrame
<1>11. stack' \in Seq(Frame) /\ stack' # <<>> /\ Len(stack') = 1 /\ stack'[1] = f
  <2>1. stack \in Seq(Frame)
    BY <1>2, Shape
  <2>2. stack' \in Seq(Frame) /\ stack' # <<>> /\ Len(stack') = Len(stack) - 1 /\ stack'[Len(stack) - 1] = f
    BY <1>1, <1>9, <1>10, <2>1, Popped, SMTT(60)
  <2> QED
    BY <1>4, <2>2
<1>12. Depth' = 1 /\ Top' = f
  BY <1>10, <1>11 DEF Depth, Top
<1>13. Deserved(status)'
  BY <1>7, <1>9 DEF Deserved, A!Promised, A!Expected, A!MustFail, A!MustStall, A!MayFail, A!MayStall,
     A!ForIngredients, A!Accepted
<1>14. HandlerOK(f)'
  <2>1. ~Serves(deployment, f.at, f.route)
    BY <1>5, <1>10 DEF GatewayOK, AsAsked
  <2> QED
    BY <1>5, <1>9, <1>10, <1>13, <2>1 DEF HandlerOK, GatewayOK, AsAsked, Vouched
<1>15. StackInv'
  BY <1>5, <1>9, <1>10, <1>11, <1>12, <1>14 DEF StackInv
<1>16. TypeOK'
  BY <1>9, <1>11 DEF DInv, TypeOK, Frame, Processes
<1> QED
  BY <1>15, <1>16 DEF DInv

-----------------------------------------------------------------------------
(* The answer to a call *)

\* The handler that has an answer, and what the answer says.
LEMMA ReturnsFacts ==
  ASSUME DInv, Returns("calling")
  PROVE  /\ stack # <<>> /\ Len(stack) = Depth + 1 /\ Caller = stack[Depth] /\ Caller \in Frame /\ Top \in Frame
         /\ Progress(Caller) /\ Recommends(Caller) /\ AsAsked(Caller)
         /\ Caller.call \in Nat /\ Caller.call >= 1 /\ Caller.call <= 10
         /\ Top.route = Calls(Caller.route)[Caller.call] /\ Outcome(Top.route, Top.status, Top.slow)
         /\ Caller.route = "food-by-id" => Caller.call <= 2
         /\ (Caller.call = 1) = (Top.route = "authenticate")
         /\ (Top.route = "recommendation") = (Caller.route = "food-by-id" /\ Caller.call = 2)
         /\ (Top.route = "record") = (Caller.route = "food" /\ Caller.call = 10)
         /\ Caller.route = "food" /\ Caller.call = 2 => Top.route = "ingredients"
         /\ Top.route \notin {"authenticate", "recommendation"} => Caller.route = "food"
<1>1. Len(stack) > 1 /\ Top.pc = "answered" /\ Caller.pc = "calling"
  BY DEF Returns
<1>2. stack # <<>>
  <2>1. Len(<<>>) = 0
    OBVIOUS
  <2> QED
    BY <1>1, <2>1
<1>3. Depth \in {1, 2} /\ Len(stack) \in {Depth, Depth + 1} /\ Top \in Frame
  BY <1>2, Shape
<1>4. Len(stack) = Depth + 1
  <2>1. ASSUME Len(stack) = Depth
        PROVE  FALSE
    <3>1. Depth = 2
      BY <1>1, <1>3, <2>1
    <3>2. Caller = stack[1]
      BY <2>1, <3>1 DEF Caller
    <3> QED
      BY <1>1, <3>1, <3>2 DEF Depth
  <2> QED
    BY <1>3, <2>1
<1>5. Caller = stack[Depth]
  BY <1>3, <1>4 DEF Caller
<1>6. PICK c, e, n, route : c = Caller /\ e = Top /\ n = c.call /\ route = c.route
  OBVIOUS
<1>7. /\ c \in Frame /\ e \in Frame /\ CallOK(c, e) /\ Progress(c) /\ Recommends(c) /\ AsAsked(c)
      /\ c.call <= Len(Calls(c.route))
  BY <1>2, <1>4, <1>5, <1>6, CallFacts
<1>8. /\ c.call \in Nat /\ c.call >= 1 /\ c.call <= 10 /\ e.route = Calls(c.route)[c.call]
      /\ e.route \notin {"authenticate", "recommendation"} => c.route = "food"
  BY <1>7, CallTells
<1>9. n \in Nat /\ n >= 1 /\ n <= Len(Calls(route)) /\ route \in RecommendationsGroup /\ e.route = Calls(route)[n]
  BY <1>6, <1>7, <1>8 DEF Recommends
<1>10. /\ (n = 1) = (e.route = "authenticate")
       /\ (e.route = "recommendation") = (route = "food-by-id" /\ n = 2)
       /\ (e.route = "record") = (route = "food" /\ n = 10)
       /\ route = "food" /\ n = 2 => e.route = "ingredients"
       /\ route = "food-by-id" => n <= 2
  BY <1>9, CallsOf
<1>11. Outcome(e.route, e.status, e.slow)
  BY <1>1, <1>6, <1>7 DEF CallOK
<1>12. /\ stack # <<>> /\ Len(stack) = Depth + 1 /\ Caller = stack[Depth]
  BY <1>2, <1>4, <1>5
<1>13. /\ c.route = "food-by-id" => c.call <= 2
       /\ (c.call = 1) = (e.route = "authenticate")
       /\ (e.route = "recommendation") = (c.route = "food-by-id" /\ c.call = 2)
       /\ (e.route = "record") = (c.route = "food" /\ c.call = 10)
       /\ c.route = "food" /\ c.call = 2 => e.route = "ingredients"
  BY <1>6, <1>10
<1> QED
  BY <1>6, <1>7, <1>8, <1>11, <1>12, <1>13

\* The frame of a handler that makes the next call, or the same again.
GoesOn(f, call, tries, g) == g = [f EXCEPT !.pc = "arrived", !.call = call, !.tries = tries]

\* A handler goes on after the answer to a call.
LEMMA GoesOnFrame ==
  ASSUME NEW f \in Frame, NEW call \in Positions, NEW tries \in 0..RetryMax, NEW g, GoesOn(f, call, tries, g)
  PROVE  /\ g \in Frame /\ g.at = f.at /\ g.route = f.route /\ g.headers = f.headers
         /\ g.token = f.token /\ g.internal = f.internal
         /\ g.call = call /\ g.pc = "arrived"
<1>1. "arrived" \in Labels
  BY DEF Labels
<1> QED
  BY <1>1 DEF Frame, GoesOn

\* What remains to be shown when a handler goes on.
LEMMA ResumeWell ==
  ASSUME DInv, stack # <<>>, Len(stack) = Depth + 1, NEW f \in Frame,
         f.pc \in {"arrived", "answered"}, f.at = stack[Depth].at, Pops(stack, f, stack'),
         UNCHANGED <<deployment, request, answer, foods, asked, stored, faults>>,
         Depth' = Depth => HandlerOK(f)'
  PROVE  DInv'
<1>1. stack' \in Seq(Frame) /\ StackInv'
  BY CallEnd
<1>2. TypeOK'
  BY <1>1 DEF DInv, TypeOK, Frame, Processes
<1> QED
  BY <1>1, <1>2 DEF DInv

\* An answer that is received takes the handler to its next call, and says what
\* Progress wants to know.
LEMMA NextCallOK ==
  ASSUME DInv, NextCall
  PROVE  DInv'
<1>1. Returns("calling") /\ Received
      /\ Resume([Caller EXCEPT !.pc = "arrived", !.call = @ + 1, !.tries = 0])
  BY DEF NextCall
<1>2. PICK c, e, n : c = Caller /\ e = Top /\ n = c.call
  OBVIOUS
<1>3. /\ stack # <<>> /\ Len(stack) = Depth + 1 /\ c = stack[Depth] /\ c \in Frame
      /\ Progress(c) /\ Recommends(c) /\ AsAsked(c) /\ n \in Nat /\ n >= 1 /\ n <= 10
      /\ Outcome(e.route, e.status, e.slow)
      /\ c.route = "food-by-id" => n <= 2
      /\ (n = 1) = (e.route = "authenticate")
      /\ (e.route = "recommendation") = (c.route = "food-by-id" /\ n = 2)
      /\ (e.route = "record") = (c.route = "food" /\ n = 10)
      /\ c.route = "food" /\ n = 2 => e.route = "ingredients"
  BY <1>1, <1>2, ReturnsFacts
<1>4. Successful(e.status, e.slow)
  BY <1>1, <1>2 DEF Received, Successful
<1>5. PICK f : GoesOn(c, n + 1, 0, f)
  BY DEF GoesOn
<1>6. /\ Pops(stack, f, stack')
      /\ UNCHANGED <<deployment, request, answer, foods, asked, stored, faults>>
  BY <1>1, <1>2, <1>5 DEF Resume, Pops, GoesOn
<1>7. /\ f \in Frame /\ f.at = c.at /\ f.route = c.route /\ f.headers = c.headers
      /\ f.token = c.token /\ f.internal = c.internal
      /\ f.call = n + 1 /\ f.pc = "arrived"
  <2>1. n + 1 \in Positions /\ 0 \in 0..RetryMax
    BY <1>3, DeploymentAssumption DEF Positions
  <2> QED
    BY <1>3, <1>5, <2>1, GoesOnFrame
<1>8. Progress(f) /\ (f.call = 10 /\ stored > 0 => faults > 0)
  <2>1. Recommends(f)
    BY <1>3, <1>7 DEF Recommends
  <2>2. request.token
    <3>1. n = 1 => request.token
      BY <1>3, <1>4 DEF Outcome
    <3>2. n > 1 => request.token
      BY <1>2, <1>3 DEF Progress
    <3> QED
      BY <1>3, <3>1, <3>2
  <2>3. c.route = "food" /\ n + 1 > 2 => ~A!MustFail /\ ~A!MustStall
    <3>1. c.route = "food" /\ n = 2 => ~A!MustFail /\ ~A!MustStall
      BY <1>3, <1>4 DEF Outcome
    <3>2. c.route = "food" /\ n > 2 => ~A!MustFail /\ ~A!MustStall
      BY <1>2, <1>3 DEF Progress
    <3>3. n + 1 > 2 => n = 2 \/ n > 2
      BY <1>3
    <3> QED
      BY <3>1, <3>2, <3>3
  <2>4. c.route = "food" /\ n + 1 > 10 => stored > 0
    <3>1. n + 1 > 10 => n = 10
      BY <1>3
    <3> QED
      BY <1>3, <1>4, <3>1 DEF Outcome
  <2>5. c.route = "food-by-id" => n + 1 <= 3
    BY <1>3
  <2>6. c.route = "food-by-id" /\ n + 1 > 2 => foods > 0
    <3>1. c.route = "food-by-id" /\ n + 1 > 2 => n = 2
      BY <1>3
    <3> QED
      BY <1>3, <1>4, <3>1 DEF Outcome
  <2>7. c.route # "food" \/ n + 1 <= 10 => stored = 0
    <3>1. n + 1 <= 10 => n < 10
      BY <1>3
    <3> QED
      BY <1>2, <1>3, <3>1 DEF Progress
  <2>8. stored = 0 => ~(stored > 0)
    OBVIOUS
  <2>9. n + 1 <= 11 /\ (n + 1 < 10 => n + 1 <= 10) /\ (n + 1 = 10 => n + 1 <= 10)
    BY <1>3
  <2> QED
    BY <1>7, <2>1, <2>2, <2>3, <2>4, <2>5, <2>6, <2>7, <2>8, <2>9 DEF Progress
<1>9. HandlerOK(f)'
  <2>1. f.route # "record"
    BY <1>3, <1>7 DEF Recommends, RecommendationsGroup
  <2> QED
    BY <1>3, <1>6, <1>7, <1>8, <2>1 DEF HandlerOK, AsAsked, Vouched, Progress, Recommends,
       A!MustFail, A!MustStall, A!MayFail, A!MayStall, A!ForIngredients
<1> QED
  BY <1>3, <1>6, <1>7, <1>9, ResumeWell

\* Another try changes only how often was tried.
LEMMA RetryOK ==
  ASSUME DInv, Retry
  PROVE  DInv'
<1>1. Returns("calling") /\ MayRetry /\ Resume([Caller EXCEPT !.pc = "arrived", !.tries = Tried])
  BY DEF Retry
<1>2. PICK c, e : c = Caller /\ e = Top
  OBVIOUS
<1>3. /\ stack # <<>> /\ Len(stack) = Depth + 1 /\ c = stack[Depth] /\ c \in Frame /\ e \in Frame
      /\ Progress(c) /\ Recommends(c) /\ AsAsked(c) /\ Outcome(e.route, e.status, e.slow)
  BY <1>1, <1>2, ReturnsFacts
<1>4. ~Successful(e.status, e.slow)
  <2>1. e.slow \/ e.status = 0 \/ e.status >= 500
    BY <1>1, <1>2 DEF MayRetry, Retriable
  <2> QED
    BY <2>1 DEF Successful
<1>5. PICK f : f = [c EXCEPT !.pc = "arrived", !.tries = c.tries + 1]
  OBVIOUS
<1>6. /\ Pops(stack, f, stack')
      /\ UNCHANGED <<deployment, request, answer, foods, asked, stored, faults>>
  BY <1>1, <1>2, <1>5 DEF Resume, Pops, Tried
<1>7. /\ f \in Frame /\ f.at = c.at /\ f.route = c.route /\ f.headers = c.headers
      /\ f.token = c.token /\ f.internal = c.internal
      /\ f.call = c.call /\ f.pc = "arrived"
  <2>1. c.tries + 1 \in 0..RetryMax
    BY <1>1, <1>2, <1>3, DeploymentAssumption DEF MayRetry, Frame
  <2>2. "arrived" \in Labels
    BY DEF Labels
  <2> QED
    BY <1>3, <1>5, <2>1, <2>2 DEF Frame
<1>8. Progress(f) /\ (stored > 0 => faults > 0)
  BY <1>3, <1>4, <1>7 DEF Progress, Recommends, Outcome
<1>9. HandlerOK(f)'
  <2>1. f.route # "record"
    BY <1>3, <1>7 DEF Recommends, RecommendationsGroup
  <2> QED
    BY <1>3, <1>6, <1>7, <1>8, <2>1 DEF HandlerOK, AsAsked, Vouched, Progress, Recommends,
       A!MustFail, A!MustStall, A!MayFail, A!MayStall, A!ForIngredients
<1> QED
  BY <1>3, <1>6, <1>7, <1>9, ResumeWell

\* A handler gives up only when that is an answer the client may get.
LEMMA CallFailedOK ==
  ASSUME DInv, CallFailed
  PROVE  DInv'
<1>1. /\ Returns("calling") /\ ~Received /\ ~MayRetry
      /\ Resume([Caller EXCEPT !.pc = "answered",
                               !.status = IF NotFoundById THEN 404
                                          ELSE IF Caller.call = 1 THEN 401 ELSE 500])
  BY DEF CallFailed
<1>2. PICK c, e, n : c = Caller /\ e = Top /\ n = c.call
  OBVIOUS
<1>3. /\ stack # <<>> /\ Len(stack) = Depth + 1 /\ c = stack[Depth] /\ c \in Frame /\ e \in Frame
      /\ Progress(c) /\ Recommends(c) /\ AsAsked(c) /\ n \in Nat /\ n >= 1 /\ n <= 10
      /\ Outcome(e.route, e.status, e.slow)
      /\ (n = 1) = (e.route = "authenticate")
      /\ (e.route = "recommendation") = (c.route = "food-by-id" /\ n = 2)
      /\ e.route \notin {"authenticate", "recommendation"} => c.route = "food"
  BY <1>1, <1>2, ReturnsFacts
<1>4. ~Successful(e.status, e.slow)
  BY <1>1, <1>2 DEF Received, Successful
<1>5. PICK status : status = IF NotFoundById THEN 404 ELSE IF Caller.call = 1 THEN 401 ELSE 500
  OBVIOUS
<1>6. /\ NotFoundById => status = 404 /\ e.status = 404 /\ c.route = "food-by-id" /\ n = 2
      /\ ~NotFoundById => ~(e.status = 404 /\ c.route = "food-by-id" /\ n = 2)
      /\ ~NotFoundById /\ n = 1 => status = 401
      /\ ~NotFoundById /\ n # 1 => status = 500
  BY <1>2, <1>5 DEF NotFoundById
<1>7. status \in Statuses
  BY <1>6 DEF Statuses
<1>8. PICK f : AnsweredAs(c, status, f)
  BY DEF AnsweredAs
<1>9. /\ Pops(stack, f, stack')
      /\ UNCHANGED <<deployment, request, answer, foods, asked, stored, faults>>
  BY <1>1, <1>2, <1>5, <1>8 DEF Resume, Pops, AnsweredAs
<1>10. /\ f \in Frame /\ f.at = c.at /\ f.route = c.route /\ f.headers = c.headers
       /\ f.token = c.token /\ f.internal = c.internal
       /\ f.pc = "answered" /\ f.status = status
  BY <1>3, <1>7, <1>8, AnsweredFrame
<1>11. request.route \in deployment.offers /\ A!NeedsToken(request.route) /\ c.route = request.route
       /\ c.route \in RecommendationsGroup
  <2>1. c.route \in RecommendationsGroup /\ Serves(deployment, c.at, c.route) /\ c.route = request.route
    BY <1>3 DEF Recommends, AsAsked
  <2>2. request.route \in deployment.offers
    BY <1>3, <2>1, Offered
  <2> QED
    BY <2>1, <2>2, SameRoutes
<1>12. Deserved(status)
  <2>1. stored > 0 => faults > 0
    BY <1>3, <1>4 DEF Outcome
  <2>2. stored > 0 => faults # 0
    BY <2>1 DEF DInv, TypeOK
  <2>3. A!Promised(status)
    <3>1. CASE NotFoundById
      <4>1. foods = 0 /\ n > 1
        BY <1>3, <1>6, <3>1 DEF Outcome
      <4>2. request.token
        BY <1>2, <1>3, <4>1 DEF Progress
      <4> QED
        BY <1>6, <1>11, <3>1, <4>1, <4>2 DEF A!Promised, A!Expected, A!ById
    <3>2. CASE ~NotFoundById /\ n = 1
      <4>1. faults > 0 \/ ~request.token
        BY <1>3, <1>4, <3>2 DEF Outcome
      <4>2. status = 401
        BY <1>6, <3>2
      <4> QED
        BY <1>11, <4>1, <4>2 DEF A!Promised, A!Failures
    <3>3. CASE ~NotFoundById /\ n # 1
      <4>1. n > 1 /\ status = 500
        BY <1>3, <1>6, <3>3
      <4>2. request.token
        BY <1>2, <1>3, <4>1 DEF Progress
      <4>3. faults > 0 \/ (e.route = "ingredients" /\ (A!MayFail \/ A!MayStall))
        BY <1>3, <1>4, <1>6, <3>3 DEF Outcome
      <4>4. CASE faults > 0
        BY <4>1, <4>4 DEF A!Promised, A!Failures
      <4>5. CASE e.route = "ingredients" /\ (A!MayFail \/ A!MayStall)
        <5>1. request.route = "food"
          BY <1>3, <1>11, <4>5
        <5> QED
          BY <1>11, <4>1, <4>2, <4>5, <5>1 DEF A!Promised, A!Expected
      <4> QED
        BY <4>3, <4>4, <4>5
    <3> QED
      BY <3>1, <3>2, <3>3
  <2>4. status \notin {200, 201}
    BY <1>6
  <2> QED
    BY <2>2, <2>3, <2>4 DEF Deserved
<1>13. Deserved(status)'
  BY <1>9, <1>12 DEF Deserved, A!Promised, A!Expected, A!MustFail, A!MustStall, A!MayFail, A!MayStall,
     A!ForIngredients, A!Accepted
<1>14. HandlerOK(f)'
  <2>1. f.route # "record"
    BY <1>10, <1>11 DEF RecommendationsGroup
  <2> QED
    BY <1>3, <1>9, <1>10, <1>13, <2>1 DEF HandlerOK, AsAsked, Vouched
<1> QED
  BY <1>3, <1>9, <1>10, <1>14, ResumeWell

-----------------------------------------------------------------------------
(* Clients and connections *)

\* A request of a client arrives at the entry.
LEMMA AskOK ==
  ASSUME DInv, Ask
  PROVE  DInv'
<1>1. PICK input : input = request'
  OBVIOUS
<1>2. input \in Inputs /\ input.route \in AllRoutes /\ input.headers \in Headers /\ input.token \in BOOLEAN
      /\ input.internal \in BOOLEAN
      /\ input \in [route : AllRoutes, headers : Headers, token : BOOLEAN, internal : BOOLEAN]
  BY <1>1, DeploymentAssumption DEF Ask
<1>3. PICK entry, route, headers, token, internal :
        /\ entry = deployment.entry /\ route = input.route /\ headers = input.headers
        /\ token = input.token /\ internal = input.internal
  OBVIOUS
<1>4. PICK e : ArrivesAs(entry, route, headers, token, internal, e)
  BY DEF ArrivesAs
<1>5. stack' = <<e>> /\ UNCHANGED <<deployment, answer, foods>> /\ stored' = 0 /\ faults' = 0
      /\ asked < MaxRequests /\ asked' = asked + 1
  BY <1>1, <1>3, <1>4 DEF Ask, ArrivesAs
<1>6. /\ e \in Frame /\ e.at = entry /\ e.route = route /\ e.headers = headers /\ e.token = token
      /\ e.internal = internal /\ e.call = 1 /\ e.pc = "arrived"
  <2>1. entry \in Processes
    BY <1>3, Environment DEF Configured, Processes
  <2>2. route \in AllRoutes /\ headers \in Headers /\ token \in Truths /\ internal \in Truths
    BY <1>2, <1>3 DEF Truths
  <2> QED
    BY <1>4, <2>1, <2>2, ArrivingFrame
<1>7. stack' \in Seq(Frame) /\ stack' # <<>> /\ Len(stack') = 1 /\ stack'[1] = e
  BY <1>5, <1>6
<1>8. Depth' = 1 /\ Top' = e
  BY <1>6, <1>7 DEF Depth, Top
<1>9. HandlerOK(e)'
  <2>1. ASSUME e.route = "record", Serves(deployment, e.at, e.route)
        PROVE  (e.internal <=> A!Accepted)'
    <3>1. ~Vouches(deployment)
      BY <1>3, <1>6, <2>1 DEF Vouches
    <3> QED
      BY <1>1, <1>3, <1>5, <1>6, <3>1 DEF A!Accepted
  <2>2. Vouched(e)'
    BY <1>5, <2>1 DEF Vouched
  <2> QED
    BY <1>1, <1>3, <1>5, <1>6, <2>2 DEF HandlerOK, AsAsked, Progress
<1>10. StackInv'
  BY <1>3, <1>5, <1>6, <1>7, <1>8, <1>9 DEF StackInv
<1>11. asked' \in 0..MaxRequests /\ faults' \in 0..MaxFaults /\ stored' \in 0..foods'
  BY <1>5, DeploymentAssumption DEF DInv, TypeOK
<1>12. TypeOK'
  BY <1>1, <1>2, <1>5, <1>7, <1>11 DEF DInv, TypeOK, Frame, Processes
<1> QED
  BY <1>10, <1>12 DEF DInv

\* Who gets an answer: the client, from the handler or the gateway.
LEMMA ReplyFacts ==
  ASSUME DInv, Reply
  PROVE  stack # <<>> /\ Top \in Frame /\ Deserved(Top.status)
<1>1. Len(stack) = 1 /\ Top.pc = "answered"
  BY DEF Reply
<1>2. stack # <<>>
  <2>1. Len(<<>>) = 0
    OBVIOUS
  <2> QED
    BY <1>1, <2>1
<1>3. Depth \in {1, 2} /\ Len(stack) \in {Depth, Depth + 1}
  BY <1>2, Shape
<1>4. Depth = 1 /\ Len(stack) = Depth
  BY <1>1, <1>3
<1>5. HandlerOK(Top) /\ Top \in Frame
  BY <1>2, <1>4, HandlerFacts
<1> QED
  BY <1>1, <1>2, <1>4, <1>5 DEF HandlerOK

\* A client gets its answer.
LEMMA ReplyOK ==
  ASSUME DInv, Reply
  PROVE  DInv'
<1>1. stack' = <<>> /\ answer' = Top.status /\ UNCHANGED <<deployment, request, foods, asked, stored, faults>>
  BY DEF Reply
<1>2. answer' \in Statuses
  BY <1>1, ReplyFacts DEF Frame
<1>3. stack' \in Seq(Frame)
  BY <1>1
<1>4. TypeOK'
  BY <1>1, <1>2, <1>3 DEF DInv, TypeOK, Frame, Processes
<1> QED
  BY <1>1, <1>4 DEF DInv, StackInv

\* A broken connection is a failure that excuses what follows from it.
LEMMA DisconnectOK ==
  ASSUME DInv, Disconnect
  PROVE  DInv'
<1>1. /\ Len(stack) > 1 /\ faults < MaxFaults /\ faults' = faults + 1
      /\ stack' = Append(Front(stack), [Top EXCEPT !.pc = "answered", !.status = 0])
      /\ UNCHANGED <<deployment, request, answer, foods, asked, stored>>
  BY DEF Disconnect
<1>2. stack # <<>>
  <2>1. Len(<<>>) = 0
    OBVIOUS
  <2> QED
    BY <1>1, <2>1
<1>3. PICK g : AnsweredAs(Top, 0, g)
  BY DEF AnsweredAs
<1>4. Replaces(stack, g, stack') /\ Alike
  BY <1>1, <1>3 DEF AnsweredAs, Replaces, Alike
<1>5. /\ g \in Frame /\ g.at = Top.at /\ g.route = Top.route /\ g.headers = Top.headers
      /\ g.token = Top.token /\ g.internal = Top.internal
      /\ g.pc = "answered" /\ g.status = 0
  <2>1. Top \in Frame /\ 0 \in Statuses
    BY <1>2, Shape DEF Statuses
  <2> QED
    BY <1>3, <2>1, AnsweredFrame
<1>6. Len(stack) > 1 /\ faults < MaxFaults /\ faults' = faults + 1 /\ UNCHANGED <<answer, foods, asked, stored>>
  BY <1>1
<1>7. stack' \in Seq(Frame) /\ StackInv'
  BY <1>2, <1>4, <1>5, <1>6, Broken
<1>8. faults' \in 0..MaxFaults
  BY <1>6, DeploymentAssumption DEF DInv, TypeOK
<1>9. TypeOK'
  BY <1>4, <1>6, <1>7, <1>8 DEF DInv, TypeOK, Alike, Frame, Processes
<1> QED
  BY <1>7, <1>9 DEF DInv

-----------------------------------------------------------------------------
(* Every step keeps the invariant *)

\* Every handler keeps the invariant.
LEMMA ServeOK ==
  ASSUME DInv, Serve
  PROVE  DInv'
BY RefuseCatalogOK, ServeIngredientsOK, BreakCatalogOK, FineOK, ServeUsersOK, RefuseRecordOK, ServeRecordOK,
   ServeRecommendationOK, UncalledOK, SimulateFailureOK, ServeFoodOK
   DEF Serve

\* The invariant holds initially.
LEMMA InitOK ==
  ASSUME Init
  PROVE  DInv
<1>1. stack = <<>> /\ deployment \in Deployments /\ answer = 0 /\ foods = 0 /\ asked = 0 /\ stored = 0 /\ faults = 0
  BY DEF Init
<1>2. request \in [route : AllRoutes, headers : Headers, token : BOOLEAN, internal : BOOLEAN]
  <2>1. "page" \in AllRoutes
    BY DEF AllRoutes, Groups, Services
  <2>2. NoHeaders \in Headers
    BY TargetsExist
  <2> QED
    BY <2>1, <2>2 DEF Init
<1>3. stack \in Seq(Frame) /\ 0 \in Statuses /\ 0 \in 0..MaxRequests /\ 0 \in 0..MaxFaults /\ 0 \in Nat /\ 0 \in 0..0
  BY <1>1, DeploymentAssumption DEF Statuses
<1> QED
  BY <1>1, <1>2, <1>3 DEF DInv, TypeOK, StackInv

\* Every step keeps the invariant.
LEMMA StepOK ==
  ASSUME DInv, [Next]_vars
  PROVE  DInv'
<1>1. CASE UNCHANGED vars
  <2>1. TypeOK'
    BY <1>1 DEF DInv, vars, TypeOK, Frame, Processes
  <2>2. StackInv'
    BY <1>1 DEF DInv, vars, StackInv, Depth, GatewayOK, HandlerOK, AsAsked, Progress, Recommends, Deserved,
       Vouched, CallOK, Outcome, Top, A!Promised, A!Expected, A!MustFail, A!MustStall, A!MayFail, A!MayStall,
       A!ForIngredients, A!Accepted
  <2> QED
    BY <2>1, <2>2 DEF DInv
<1>2. CASE Next
  BY <1>2, AskOK, ProxyOK, NotFoundOK, ServeOK, CallActionOK, ProxyAnswerOK, NextCallOK, RetryOK,
     CallFailedOK, ReplyOK, DisconnectOK
     DEF Next, Step
<1> QED
  BY <1>1, <1>2

\* The inductive invariant, for every behaviour.
LEMMA Invariance == Spec => []DInv
<1>1. Init => DInv
  BY InitOK
<1>2. DInv /\ [Next]_vars => DInv'
  BY StepOK
<1> QED
  BY <1>1, <1>2, PTL DEF Spec

-----------------------------------------------------------------------------
(* What a run checks, for all deployments *)

\* Every variable has its type; in particular no call is tried more often than
\* configured.
THEOREM TypeCorrect == Spec => []TypeOK
<1>1. DInv => TypeOK
  BY DEF DInv
<1> QED
  BY <1>1, Invariance, PTL

\* A request passes one gateway at most, and three processes.
THEOREM CallsAreDirect == Spec => []DirectCalls
<1>1. DInv => DirectCalls
  <2> SUFFICES ASSUME DInv PROVE DirectCalls
    OBVIOUS
  <2>1. CASE stack = <<>>
    BY <2>1 DEF DirectCalls
  <2>2. CASE stack # <<>>
    <3>1. Depth \in {1, 2} /\ Len(stack) \in {Depth, Depth + 1} /\ Len(stack) \in Nat /\ stack \in Seq(Frame)
      BY <2>2, Shape
    <3>2. \A i \in 1..Len(stack) : stack[i].pc = "proxying" => i = 1
      <4> SUFFICES ASSUME NEW i \in 1..Len(stack), stack[i].pc = "proxying", i # 1
                   PROVE  FALSE
        OBVIOUS
      <4>1. Top.pc # "proxying" /\ (Len(stack) = Depth + 1 => stack[Depth].pc = "calling")
        BY <2>2, Shape, CallFacts
      <4>2. i = Len(stack) \/ (Len(stack) = Depth + 1 /\ i = Depth)
        BY <3>1
      <4> QED
        BY <4>1, <4>2 DEF Top
    <3>3. Len(stack) <= 3
      BY <3>1
    <3>4. DOMAIN stack = 1..Len(stack)
      BY <3>1
    <3> QED
      BY <3>2, <3>3, <3>4 DEF DirectCalls
  <2> QED
    BY <2>1, <2>2
<1> QED
  BY <1>1, Invariance, PTL

-----------------------------------------------------------------------------
(* Every deployment implements the interface *)

\* A client's request is the interface's.
LEMMA AskMaps ==
  ASSUME DInv, Ask
  PROVE  A!Ask
<1>1. stack = <<>> /\ stack' # <<>> /\ request' \in Inputs
  BY DEF Ask
<1>2. request' \in [route : A!AllRoutes, headers : A!Headers, token : BOOLEAN, internal : BOOLEAN]
  BY <1>1, DeploymentAssumption, SameRoutes
<1> QED
  BY <1>1, <1>2 DEF Ask, A!Ask

\* An answer to a client is one that the interface promises.
LEMMA ReplyMaps ==
  ASSUME DInv, Reply
  PROVE  A!Reply
<1>1. stack # <<>> /\ Deserved(Top.status) /\ stored \in Nat /\ faults \in Nat
  BY ReplyFacts DEF DInv, TypeOK
<1>2. answer' = Top.status /\ stack' = <<>> /\ UNCHANGED <<deployment, request, foods, asked, stored, faults>>
  BY DEF Reply
<1> QED
  BY <1>1, <1>2 DEF A!Reply, A!Success, Deserved

\* A step that leaves a request in progress, and what the interface sees of
\* the processes.
LEMMA Unseen ==
  ASSUME stack # <<>>, stack' # <<>>, UNCHANGED <<deployment, request, answer, foods, stored, faults>>
  PROVE  UNCHANGED A!avars
BY DEF A!avars

\* A failure inside is the interface's Fail.
LEMMA BreaksMaps ==
  ASSUME stack # <<>>, stack' # <<>>, UNCHANGED <<deployment, request, answer, foods, stored>>, faults' = faults + 1
  PROVE  A!Fail
BY DEF A!Fail

\* The ways in which the stack changes leave a request in progress.
LEMMA InProgress ==
  ASSUME DInv, stack # <<>>, NEW x, NEW y
  PROVE  /\ Append(Front(stack), x) # <<>> /\ Append(Front(stack), x) \o <<y>> # <<>>
         /\ Len(stack) > 1 => Append(SubSeq(stack, 1, Len(stack) - 2), x) # <<>>
<1>1. stack \in Seq(Frame) /\ Len(stack) \in Nat /\ Len(stack) >= 1
  BY Shape
<1>2. stack \in Seq(Frame \cup {x, y})
  BY <1>1
<1> DEFINE S == Frame \cup {x, y}
<1>3. x \in S /\ y \in S
  OBVIOUS
<1>4. stack \in Seq(S)
  BY <1>2
<1> HIDE DEF S
<1>5. PICK r, p, t : /\ r = Append(Front(stack), x) /\ p = Append(Front(stack), x) \o <<y>>
                     /\ t = Append(SubSeq(stack, 1, Len(stack) - 2), x)
  OBVIOUS
<1>6. Replaces(stack, x, r) /\ Pushes(stack, x, y, p) /\ Pops(stack, x, t)
  BY <1>5 DEF Replaces, Pushes, Pops
<1>7. r # <<>>
  BY <1>3, <1>4, <1>6, Replaced
<1>8. p # <<>>
  BY <1>3, <1>4, <1>6, Pushed
<1>9. Len(stack) > 1 => t # <<>>
  BY <1>3, <1>4, <1>6, Popped
<1> QED
  BY <1>5, <1>7, <1>8, <1>9

\* The forms that the actions have.
LEMMA SucceedsMaps ==
  ASSUME DInv, stack # <<>>, NEW status, Succeeds(status)
  PROVE  UNCHANGED A!avars
<1>1. stack' # <<>>
  BY InProgress DEF Succeeds, AnswerWith
<1>2. UNCHANGED <<deployment, request, answer, foods, stored, faults>>
  BY DEF Succeeds, AnswerWith
<1> QED
  BY <1>1, <1>2, Unseen

\* A failure of the database is the interface's Fail.
LEMMA BreaksAreFailures ==
  ASSUME DInv, stack # <<>>, NEW status, Breaks(status)
  PROVE  A!Fail
<1>1. stack' # <<>>
  BY InProgress DEF Breaks, AnswerWith
<1>2. UNCHANGED <<deployment, request, answer, foods, stored>> /\ faults' = faults + 1
  BY DEF Breaks, AnswerWith
<1> QED
  BY <1>1, <1>2, BreaksMaps

\* The interface does not see that a process sends a request on.
LEMMA SendMaps ==
  ASSUME DInv, stack # <<>>, NEW callee, NEW label, Send(callee, label)
  PROVE  UNCHANGED A!avars
<1>1. stack' # <<>>
  BY InProgress DEF Send
<1>2. UNCHANGED <<deployment, request, answer, foods, stored, faults>>
  BY DEF Send
<1> QED
  BY <1>1, <1>2, Unseen

\* The interface does not see that a process gets an answer from another.
LEMMA ResumeMaps ==
  ASSUME DInv, stack # <<>>, Len(stack) > 1, NEW frame, Resume(frame)
  PROVE  UNCHANGED A!avars
<1>1. stack' # <<>>
  BY InProgress DEF Resume
<1>2. UNCHANGED <<deployment, request, answer, foods, stored, faults>>
  BY DEF Resume
<1> QED
  BY <1>1, <1>2, Unseen

\* With two requests in progress there is one.
LEMMA NoneWaiting ==
  ASSUME Len(stack) > 1
  PROVE  stack # <<>>
<1>1. Len(<<>>) = 0
  OBVIOUS
<1> QED
  BY <1>1

\* The recording of a food is the interface's Store.
LEMMA RecordMaps ==
  ASSUME DInv, ServeRecord
  PROVE  A!Store \/ A!Fail
<1>0. Handles({"record"}) /\ Top.internal /\ Top.token
  BY DEF ServeRecord
<1>1. /\ stack # <<>> /\ request.token /\ (stored > 0 => faults > 0)
      /\ request.route = "food" \/ (request.route = "record" /\ A!Accepted)
  <2>1. Len(stack) = Depth \/ Len(stack) = Depth + 1
    BY <1>0, HandlesFacts
  <2>2. CASE Len(stack) = Depth
    BY <1>0, <2>2, RecordAsked
  <2>3. CASE Len(stack) = Depth + 1
    BY <1>0, <2>3, RecordCalled
  <2> QED
    BY <2>1, <2>2, <2>3
<1>2. CASE Breaks(500)
  BY <1>1, <1>2, BreaksAreFailures
<1>3. CASE AnswerWith(201) /\ foods' = foods + 1 /\ stored' = stored + 1 /\ UNCHANGED faults
  <2>1. stack' # <<>>
    BY <1>1, <1>3, InProgress DEF AnswerWith
  <2>2. stored = 0 \/ faults > 0
    BY <1>1 DEF DInv, TypeOK
  <2> QED
    BY <1>1, <1>3, <2>1, <2>2 DEF AnswerWith, A!Store
<1> QED
  BY <1>2, <1>3 DEF ServeRecord

\* The other handlers answer without the interface seeing it, or fail.
LEMMA ServeMaps ==
  ASSUME DInv, Serve
  PROVE  A!Store \/ A!Fail \/ UNCHANGED A!avars
<1>1. stack # <<>>
  BY DEF Serve, RefuseCatalog, ServeIngredients, ServeLists, ServeRatings, BreakCatalog, ServeCsrfToken,
     ServeUsers, RefuseRecord, ServeRecord, ServeRecommendation, ServeHistory, ServeAdminLogin,
     ServeCopy, ServeTesting, ServeK6, ServeConfig, ServeFrontend, ServeProbe, ServeWs, SimulateFailure, ServeFood, Handles
<1>2. CASE ServeRecord
  BY <1>2, RecordMaps
<1>3. CASE ServeIngredients
  <2>1. PICK status, slow : AnswersAfter(status, slow)
    BY <1>3 DEF ServeIngredients
  <2>2. stack' # <<>>
    BY <1>1, <2>1, InProgress DEF AnswersAfter
  <2>3. UNCHANGED <<deployment, request, answer, foods, stored, faults>>
    BY <2>1 DEF AnswersAfter
  <2> QED
    BY <1>1, <2>2, <2>3, Unseen
<1>4. CASE \E status : Succeeds(status) \/ Breaks(status)
  BY <1>1, <1>4, SucceedsMaps, BreaksAreFailures
<1>5. Serve => ServeRecord \/ ServeIngredients \/ \E status : Succeeds(status) \/ Breaks(status)
  BY DEF Serve, RefuseCatalog, ServeLists, ServeRatings, BreakCatalog, ServeCsrfToken,
     ServeUsers, RefuseRecord, ServeRecommendation, ServeHistory, ServeAdminLogin, ServeCopy, ServeTesting,
     ServeK6, ServeConfig, ServeFrontend, ServeProbe, ServeWs, SimulateFailure, ServeFood
<1> QED
  BY <1>2, <1>3, <1>4, <1>5

\* Every step is one of the interface's, or is not seen there.
LEMMA StepMaps ==
  ASSUME DInv, [Next]_vars
  PROVE  [A!ANext]_A!avars
<1>1. CASE UNCHANGED vars
  BY <1>1 DEF vars, A!avars
<1>2. CASE Ask
  BY <1>2, AskMaps DEF A!ANext
<1>3. CASE Reply
  BY <1>3, ReplyMaps DEF A!ANext
<1>4. CASE Serve
  BY <1>4, ServeMaps DEF A!ANext
<1>5. CASE NotFound
  <2>1. stack # <<>> /\ Succeeds(404)
    BY <1>5 DEF NotFound, NotServed
  <2> QED
    BY <2>1, SucceedsMaps
<1>6. CASE Proxy
  <2>1. stack # <<>> /\ \E callee : Send(callee, "proxying")
    BY <1>6 DEF Proxy, NotServed
  <2> QED
    BY <2>1, SendMaps
<1>7. CASE Call
  <2>1. stack # <<>> /\ \E callee : Send(callee, "calling")
    BY <1>7 DEF Call, Handles
  <2> QED
    BY <2>1, SendMaps
<1>8. CASE ProxyAnswer \/ NextCall \/ Retry \/ CallFailed
  <2>1. Len(stack) > 1 /\ \E frame : Resume(frame)
    BY <1>8 DEF ProxyAnswer, NextCall, Retry, CallFailed, Returns
  <2>2. stack # <<>>
    BY <2>1, NoneWaiting
  <2> QED
    BY <2>1, <2>2, ResumeMaps
<1>9. CASE Disconnect
  <2>1. Len(stack) > 1 /\ \E frame : stack' = Append(Front(stack), frame)
    BY <1>9 DEF Disconnect
  <2>2. stack # <<>>
    BY <2>1, NoneWaiting
  <2>3. stack' # <<>>
    BY <2>1, <2>2, InProgress
  <2>4. UNCHANGED <<deployment, request, answer, foods, stored>> /\ faults' = faults + 1
    BY <1>9 DEF Disconnect
  <2> QED
    BY <2>2, <2>3, <2>4, BreaksMaps DEF A!ANext
<1> QED
  BY <1>1, <1>2, <1>3, <1>4, <1>5, <1>6, <1>7, <1>8, <1>9 DEF Next, Step

\* Every deployment gives the answers of a single process: the handlers, the
\* gateway, the internal client and its retries implement Api.
THEOREM ImplementsApi == Spec => OneProcess
<1>1. Init => A!AInit
  <2> SUFFICES ASSUME Init PROVE A!AInit
    OBVIOUS
  <2>1. Configured(deployment) /\ stack = <<>>
    BY InitOK, Environment DEF Init
  <2>2. deployment.offers \in SUBSET A!AllRoutes
    BY <2>1, SameRoutes DEF Configured
  <2>3. Vouches(deployment) \in BOOLEAN
    BY DEF Vouches
  <2> QED
    BY <2>1, <2>2, <2>3 DEF Init, A!AInit
<1>2. DInv /\ [Next]_vars => [A!ANext]_A!avars
  BY StepMaps
<1> QED
  BY <1>1, <1>2, Invariance, PTL DEF Spec, OneProcess, A!ASpec

=============================================================================
