----------------------- MODULE MetaTxForwarder_proofs -----------------------
(***************************************************************************)
(* Proofs that the forwarder accounts for every nonce, commits requests in *)
(* order and lets the owners of a wallet change only by the owners'        *)
(* consent, for any requests, senders and channels, any depth of nested    *)
(* calls and any wallets.                                                  *)
(*                                                                         *)
(* NonceAccounting: the invariant has to say of every state that a call in *)
(* progress would restore what it says of the present one: the counters    *)
(* that call i found account for the executions it found and the i - 1     *)
(* calls around it.  Then a reverting call restores an accounted state.    *)
(*                                                                         *)
(* CommitsInOrder: no state a transaction may still fall back to is older  *)
(* than its start, so the outermost call, when it returns, adds to an      *)
(* accounted state what makes it another one.                              *)
(*                                                                         *)
(* OwnersChangeByConsent: a call on the LicensedUserManager is always the  *)
(* innermost, so the signatures that were valid when it began are valid    *)
(* when it is carried out.                                                 *)
(***************************************************************************)
EXTENDS MetaTxForwarder, SequenceFacts, SequenceTheorems, TLAPS

Types(nn, ex) == nn \in Nonces /\ ex \in [Request -> Nat]

\* What call i of the stack st would restore is accounted for.
SavedOK(st, i) ==
    /\ Types(st[i].saved.nonces, st[i].saved.executions)
    /\ Accounted(st[i].saved.nonces, st[i].saved.executions,
                 [j \in 1..(i - 1) |-> st[j].request])

Inv(st, nn, ex) ==
    /\ \E S : st \in Seq(S)
    /\ \A i \in 1..Len(st) : st[i].request \in Request
    /\ Types(nn, ex)
    /\ Accounted(nn, ex, [i \in 1..Len(st) |-> st[i].request])
    /\ \A i \in 1..Len(st) : SavedOK(st, i)

IInv == Inv(stack, nonces, executions)

LEMMA RequestFacts ==
    ASSUME NEW r \in Request
    PROVE  /\ r.from \in Sender /\ r.channel \in Channel /\ r.nonce \in 0..MaxNonce
           /\ MaxNonce \in Nat
BY RequestAssumption, BoundAssumption

\* The calls in progress with one more, and the nonces with one more used.
Extended(calls, d, r) == [i \in 1..(d + 1) |-> IF i = d + 1 THEN r ELSE calls[i]]
Bumped(nn, r) == [nn EXCEPT ![r.from][r.channel] = @ + 1]

\* Starting the call of a request whose nonce is next uses exactly one more slot.
LEMMA CallAccounted ==
    ASSUME NEW d \in Nat, NEW calls \in [1..d -> Request], NEW nn, NEW ex, Types(nn, ex),
           Accounted(nn, ex, calls),
           NEW r \in Request, r.nonce = nn[r.from][r.channel], r.nonce < MaxNonce
    PROVE  /\ Types(Bumped(nn, r), ex)
           /\ Accounted(Bumped(nn, r), ex, Extended(calls, d, r))
<1> DEFINE more == Extended(calls, d, r)
           later == Bumped(nn, r)
<1>0. /\ more = [i \in 1..(d + 1) |-> IF i = d + 1 THEN r ELSE calls[i]]
      /\ later = [nn EXCEPT ![r.from][r.channel] = @ + 1]
  BY DEF Extended, Bumped
<1> HIDE DEF more, later
<1>1. /\ r.from \in Sender /\ r.channel \in Channel /\ r.nonce \in Nat
      /\ MaxNonce \in Nat
  BY RequestFacts
<1>2. /\ \A f \in Sender, c \in Channel : nn[f][c] \in 0..MaxNonce
      /\ \A f \in Sender, c \in Channel :
            later[f][c] = IF f = r.from /\ c = r.channel THEN r.nonce + 1 ELSE nn[f][c]
      /\ later \in Nonces
  BY SMTT(60), <1>0, <1>1 DEF Types, Nonces
<1>3. r \notin Used(ex, calls)
  BY <1>1 DEF Accounted
<1>4. Used(ex, more) = Used(ex, calls) \union {r}
  <2>1. {more[i] : i \in DOMAIN more} = {calls[i] : i \in DOMAIN calls} \union {r}
    BY <1>0
  <2>2. QED
    BY <2>1 DEF Used
<1>5. Used(ex, calls) \subseteq Request
  BY DEF Used
<1>6. \A i \in DOMAIN more : ex[more[i]] = 0
  <2>1. ex[r] = 0
    BY <1>3 DEF Used, Types
  <2>2. QED
    BY <1>0, <2>1 DEF Accounted
<1>7. \A i, j \in DOMAIN more : more[i] = more[j] => i = j
  <2>1. \A i \in 1..d : calls[i] # r
    BY <1>3 DEF Used
  <2>2. QED
    BY <1>0, <2>1 DEF Accounted
<1>8. \A s \in Used(ex, calls) : Slot(s) # Slot(r)
  BY <1>1, <1>3, <1>5 DEF Accounted, Slot
<1>9. \A s, t \in Used(ex, more) : Slot(s) = Slot(t) => s = t
  BY <1>4, <1>8 DEF Accounted
<1>10. \A s \in Used(ex, more) : s.nonce < later[s.from][s.channel]
  <2>1. SUFFICES ASSUME NEW s \in Used(ex, calls)
                 PROVE  s.nonce < later[s.from][s.channel]
    BY <1>1, <1>2, <1>4
  <2>2. s.from \in Sender /\ s.channel \in Channel /\ s.nonce \in Nat
    BY <1>5, RequestFacts
  <2>3. s.nonce < nn[s.from][s.channel]
    BY DEF Accounted
  <2>4. nn[s.from][s.channel] <= later[s.from][s.channel]
    BY SMTT(60), <1>1, <1>2, <2>2
  <2>5. later[s.from][s.channel] \in Nat /\ nn[s.from][s.channel] \in Nat
    BY SMTT(60), <1>1, <1>2, <2>2
  <2>6. QED
    BY <2>2, <2>3, <2>4, <2>5
<1>11. \A f \in Sender, c \in Channel : \A n \in 0..(later[f][c] - 1) :
          \E s \in Used(ex, more) : Slot(s) = <<f, c, n>>
  <2>1. SUFFICES ASSUME NEW f \in Sender, NEW c \in Channel, NEW n \in 0..(later[f][c] - 1)
                 PROVE  \E s \in Used(ex, more) : Slot(s) = <<f, c, n>>
    OBVIOUS
  <2>2. CASE f = r.from /\ c = r.channel /\ n = r.nonce
    BY <1>4, <2>2 DEF Slot
  <2>3. CASE ~(f = r.from /\ c = r.channel /\ n = r.nonce)
    <3>1. n \in 0..(nn[f][c] - 1)
      BY <1>1, <1>2, <2>3
    <3>2. QED
      BY <1>4, <3>1 DEF Accounted
  <2>4. QED
    BY <2>2, <2>3
<1>12. Types(later, ex) /\ Accounted(later, ex, more)
  BY <1>2, <1>6, <1>7, <1>9, <1>10, <1>11 DEF Accounted, Types
<1>13. QED
  BY <1>12 DEF more, later

\* A call that returns turns its request from one in progress into an executed one.
LEMMA ReturnAccounted ==
    ASSUME NEW d \in Nat, d > 0, NEW calls \in [1..d -> Request], NEW nn, NEW ex,
           Types(nn, ex), Accounted(nn, ex, calls),
           NEW fewer, fewer = [i \in 1..(d - 1) |-> calls[i]],
           NEW later, later = [ex EXCEPT ![calls[d]] = @ + 1]
    PROVE  Types(nn, later) /\ Accounted(nn, later, fewer)
<1>1. calls[d] \in Request /\ ex[calls[d]] = 0
  BY DEF Accounted
<1>2. /\ later \in [Request -> Nat]
      /\ later[calls[d]] = 1
      /\ \A r \in Request : r # calls[d] => later[r] = ex[r]
  BY <1>1 DEF Types
<1>3. Used(later, fewer) = Used(ex, calls)
  <2>1. {calls[i] : i \in DOMAIN calls} = {fewer[i] : i \in DOMAIN fewer} \union {calls[d]}
    OBVIOUS
  <2>2. {r \in Request : later[r] > 0} = {r \in Request : ex[r] > 0} \union {calls[d]}
    BY <1>1, <1>2
  <2>3. QED
    BY <2>1, <2>2 DEF Used
<1>4. /\ \A r \in Request : later[r] <= 1
      /\ \A i \in DOMAIN fewer : later[fewer[i]] = 0
      /\ \A i, j \in DOMAIN fewer : fewer[i] = fewer[j] => i = j
  BY <1>1, <1>2 DEF Accounted
<1>5. /\ \A r, s \in Used(later, fewer) : Slot(r) = Slot(s) => r = s
      /\ \A r \in Used(later, fewer) : r.nonce < nn[r.from][r.channel]
      /\ \A from \in Sender, channel \in Channel : \A nonce \in 0..(nn[from][channel] - 1) :
            \E r \in Used(later, fewer) : Slot(r) = <<from, channel, nonce>>
  <2>1. /\ \A r, s \in Used(ex, calls) : Slot(r) = Slot(s) => r = s
        /\ \A r \in Used(ex, calls) : r.nonce < nn[r.from][r.channel]
        /\ \A from \in Sender, channel \in Channel : \A nonce \in 0..(nn[from][channel] - 1) :
              \E r \in Used(ex, calls) : Slot(r) = <<from, channel, nonce>>
    BY Zenon DEF Accounted
  <2>2. QED
    BY Zenon, <1>3, <2>1
<1>6. Accounted(nn, later, fewer)
  BY Zenon, <1>4, <1>5 DEF Accounted
<1>7. QED
  BY <1>2, <1>6 DEF Types

\* At the start nothing was used.
LEMMA InitInvariant ==
    ASSUME Init
    PROVE  IInv
<1>2. stack = << >> /\ Len(stack) = 0
  BY DEF Init
<1>3. Types(nonces, executions)
  BY BoundAssumption DEF Init, Types, Nonces
<1> DEFINE calls == [i \in 1..Len(stack) |-> stack[i].request]
<1>4. Used(executions, calls) = {}
  <2>1. {calls[i] : i \in DOMAIN calls} = {}
    BY <1>2
  <2>2. {r \in Request : executions[r] > 0} = {}
    BY DEF Init
  <2>3. QED
    BY <2>1, <2>2 DEF Used
<1>5. DOMAIN calls = {}
  BY <1>2
<1>6. \A r \in Request : executions[r] <= 1
  BY DEF Init
<1>7. \A f \in Sender, c \in Channel : 0..(nonces[f][c] - 1) = {}
  BY DEF Init
<1>8. Accounted(nonces, executions, calls)
  <2> HIDE DEF calls
  <2>1. QED
    BY <1>4, <1>5, <1>6, <1>7 DEF Accounted
<1>9. stack \in Seq({})
  BY <1>2
<1>10. QED
  BY <1>2, <1>3, <1>8, <1>9 DEF IInv, Inv

\* The saved part of a call depends on the calls around it only.
LEMMA SavedCongruence ==
    ASSUME NEW st, NEW other, NEW i \in Nat, SavedOK(st, i),
           \A j \in 1..i : other[j] = st[j], i > 0
    PROVE  SavedOK(other, i)
<1>1. other[i] = st[i]
  OBVIOUS
<1>2. [j \in 1..(i - 1) |-> other[j].request] = [j \in 1..(i - 1) |-> st[j].request]
  OBVIOUS
<1>3. QED
  BY Zenon, <1>1, <1>2 DEF SavedOK

\* A relayed request: its frame saves the counters it found.
LEMMA PushInvariant ==
    ASSUME NEW st, NEW nn, NEW ex, Inv(st, nn, ex),
           NEW r \in Request, r.nonce = nn[r.from][r.channel], r.nonce < MaxNonce,
           NEW frame, frame.request = r,
           frame.saved.nonces = nn, frame.saved.executions = ex,
           NEW more, more = Append(st, frame)
    PROVE  Inv(more, Bumped(nn, r), ex)
<1>1. PICK S : st \in Seq(S)
  BY Zenon DEF Inv
<1>2. Len(st) \in Nat /\ st \in Seq(S \union {frame})
  BY <1>1
<1>3. /\ more \in Seq(S \union {frame})
      /\ Len(more) = Len(st) + 1
      /\ more[Len(st) + 1] = frame
      /\ \A i \in 1..Len(st) : more[i] = st[i]
  BY <1>2
<1>4. \A i \in 1..Len(more) : more[i].request \in Request
  BY <1>2, <1>3 DEF Inv
<1> DEFINE d == Len(st)
           calls == [i \in 1..d |-> st[i].request]
           after == [i \in 1..(d + 1) |-> more[i].request]
<1>5. calls \in [1..d -> Request] /\ d \in Nat
  BY <1>2 DEF Inv
<1>6. after = Extended(calls, d, r)
  BY <1>2, <1>3 DEF Extended
<1>7. Types(nn, ex) /\ Accounted(nn, ex, calls)
  BY Zenon DEF Inv
<1>8. Types(Bumped(nn, r), ex) /\ Accounted(Bumped(nn, r), ex, after)
  <2> HIDE DEF d, calls, after
  <2>1. QED
    BY Zenon, <1>5, <1>6, <1>7, CallAccounted
<1>9. SavedOK(more, d + 1)
  <2>1. calls = [j \in 1..((d + 1) - 1) |-> more[j].request]
    BY <1>2, <1>3
  <2>2. more[d + 1].saved.nonces = nn /\ more[d + 1].saved.executions = ex
    BY <1>3
  <2> HIDE DEF d, calls
  <2>3. QED
    BY Zenon, <2>1, <2>2, <1>7 DEF SavedOK
<1>10. \A i \in 1..d : SavedOK(more, i)
  <2>1. SUFFICES ASSUME NEW i \in 1..d PROVE SavedOK(more, i)
    OBVIOUS
  <2>2. i \in Nat /\ i > 0 /\ SavedOK(st, i)
    BY <1>2 DEF Inv
  <2>3. \A j \in 1..i : more[j] = st[j]
    BY <1>2, <1>3
  <2>4. QED
    BY Zenon, <2>2, <2>3, SavedCongruence
<1>11. \A i \in 1..Len(more) : SavedOK(more, i)
  <2> HIDE DEF calls, after
  <2>1. 1..Len(more) = 1..d \union {d + 1}
    BY <1>2, <1>3
  <2>2. QED
    BY Zenon, <2>1, <1>9, <1>10
<1>12. after = [i \in 1..Len(more) |-> more[i].request]
  BY <1>3
<1>13. Accounted(Bumped(nn, r), ex, [i \in 1..Len(more) |-> more[i].request])
  <2> HIDE DEF after
  <2>1. QED
    BY Zenon, <1>8, <1>12
<1>14. QED
  BY Zenon, <1>3, <1>4, <1>8, <1>11, <1>13 DEF Inv

\* The stack without its last call.
LEMMA PopFacts ==
    ASSUME NEW S, NEW st \in Seq(S), st # << >>
    PROVE  LET fewer == SubSeq(st, 1, Len(st) - 1) IN
           /\ Len(st) \in Nat /\ Len(st) > 0
           /\ fewer \in Seq(S)
           /\ Len(fewer) = Len(st) - 1
           /\ \A i \in 1..(Len(st) - 1) : fewer[i] = st[i]
<1> DEFINE n == Len(st) - 1
<1>1. /\ n \in Nat /\ n \in Int /\ 1 \in Int /\ \A i \in 1..n : st[i] \in S
      /\ Len(st) \in Nat /\ Len(st) > 0
  OBVIOUS
<1> HIDE DEF n
<1>2. /\ SubSeq(st, 1, n) \in Seq(S)
      /\ Len(SubSeq(st, 1, n)) = IF 1 <= n THEN n - 1 + 1 ELSE 0
      /\ \A i \in 1..(n - 1 + 1) : SubSeq(st, 1, n)[i] = st[1 + i - 1]
  BY <1>1, SubSeqProperties
<1>3. Len(SubSeq(st, 1, n)) = n
  BY <1>1, <1>2
<1>4. \A i \in 1..n : SubSeq(st, 1, n)[i] = st[i]
  BY <1>1, <1>2
<1>5. QED
  BY <1>1, <1>2, <1>3, <1>4 DEF n

\* The innermost call ends: what the calls around it saved is untouched.
LEMMA PopInvariant ==
    ASSUME NEW st, NEW nn, NEW ex, Inv(st, nn, ex), st # << >>,
           NEW fewer, fewer = SubSeq(st, 1, Len(st) - 1),
           NEW nn2, NEW ex2, Types(nn2, ex2),
           Accounted(nn2, ex2, [i \in 1..(Len(st) - 1) |-> st[i].request])
    PROVE  Inv(fewer, nn2, ex2)
<1>1. PICK S : st \in Seq(S)
  BY Zenon DEF Inv
<1>2. Len(st) \in Nat /\ Len(st) > 0
  BY <1>1
<1>3. /\ fewer \in Seq(S)
      /\ Len(fewer) = Len(st) - 1
      /\ \A i \in 1..(Len(st) - 1) : fewer[i] = st[i]
  BY <1>1, PopFacts
<1>4. \A i \in 1..Len(fewer) : fewer[i].request \in Request
  BY <1>2, <1>3 DEF Inv
<1>5. [i \in 1..Len(fewer) |-> fewer[i].request] = [i \in 1..(Len(st) - 1) |-> st[i].request]
  BY <1>3
<1>6. Accounted(nn2, ex2, [i \in 1..Len(fewer) |-> fewer[i].request])
  BY Zenon, <1>5
<1>7. \A i \in 1..Len(fewer) : SavedOK(fewer, i)
  <2>1. SUFFICES ASSUME NEW i \in 1..Len(fewer) PROVE SavedOK(fewer, i)
    OBVIOUS
  <2>2. i \in Nat /\ i > 0 /\ SavedOK(st, i)
    BY <1>2, <1>3 DEF Inv
  <2>3. \A j \in 1..i : fewer[j] = st[j]
    BY <1>2, <1>3
  <2>4. QED
    BY Zenon, <2>2, <2>3, SavedCongruence
<1>8. QED
  BY Zenon, <1>3, <1>4, <1>6, <1>7 DEF Inv

\* A relayed request is started.
LEMMA RelayInvariant ==
    ASSUME IInv, NEW r \in Request, Relay(r)
    PROVE  IInv'
<1>1. PICK n \in 0..MaxSignatures : \E signers \in [1..n -> Owner] : executeTransaction(r, signers)
  BY DEF Relay
<1>2. PICK signers \in [1..n -> Owner] : executeTransaction(r, signers)
  BY <1>1
<1> DEFINE frame == [request |-> r, signers |-> signers,
                     destination |-> DestinationOf(r), saved |-> Journal]
<1>3. /\ stack' = Append(stack, frame)
      /\ executions' = executions
      /\ r.nonce = nonces[r.from][r.channel] /\ r.nonce < MaxNonce
      /\ nonces' = Bumped(nonces, r)
  BY <1>2 DEF executeTransaction, checkAndUpdateNonce, Bumped
<1>4. /\ frame.request = r
      /\ frame.saved.nonces = nonces
      /\ frame.saved.executions = executions
  BY DEF Journal
<1> HIDE DEF frame
<1>5. Inv(Append(stack, frame), Bumped(nonces, r), executions)
  BY Zenon, <1>3, <1>4, PushInvariant DEF IInv
<1>6. QED
  BY Zenon, <1>3, <1>5 DEF IInv

\* What the steps that end a call need of the stack.
LEMMA TopFacts ==
    ASSUME IInv, stack # << >>
    PROVE  /\ Len(stack) \in Nat /\ Len(stack) > 0
           /\ [i \in 1..Len(stack) |-> stack[i].request] \in [1..Len(stack) -> Request]
           /\ Types(nonces, executions)
           /\ Accounted(nonces, executions, [i \in 1..Len(stack) |-> stack[i].request])
           /\ SavedOK(stack, Len(stack))
<1>1. PICK S : stack \in Seq(S)
  BY Zenon DEF IInv, Inv
<1>2. Len(stack) \in Nat /\ Len(stack) > 0
  BY <1>1
<1>3. /\ \A i \in 1..Len(stack) : stack[i].request \in Request
      /\ Types(nonces, executions)
      /\ Accounted(nonces, executions, [i \in 1..Len(stack) |-> stack[i].request])
      /\ \A i \in 1..Len(stack) : SavedOK(stack, i)
  BY Zenon DEF IInv, Inv
<1>4. [i \in 1..Len(stack) |-> stack[i].request] \in [1..Len(stack) -> Request]
  BY Zenon, <1>3
<1>5. SavedOK(stack, Len(stack))
  BY <1>2, <1>3
<1>6. QED
  BY Zenon, <1>2, <1>3, <1>4, <1>5

\* The innermost call returns.
LEMMA SucceedsInvariant ==
    ASSUME IInv, CallSucceeds
    PROVE  IInv'
<1> DEFINE d == Len(stack)
           calls == [i \in 1..d |-> stack[i].request]
           fewer == [i \in 1..(d - 1) |-> stack[i].request]
           later == [executions EXCEPT ![calls[d]] = @ + 1]
<1>1. stack # << >> /\ nonces' = nonces /\ stack' = SubSeq(stack, 1, d - 1)
  BY DEF CallSucceeds, Pop
<1>2. /\ d \in Nat /\ d > 0
      /\ calls \in [1..d -> Request]
      /\ Types(nonces, executions) /\ Accounted(nonces, executions, calls)
  BY Zenon, <1>1, TopFacts
<1>3. calls[d] = Top.request
  BY <1>2 DEF Top
<1>4. executions' = later
  <2> HIDE DEF calls
  <2>1. QED
    BY <1>3 DEF CallSucceeds
<1>5. fewer = [i \in 1..(d - 1) |-> calls[i]]
  BY <1>2
<1>6. Types(nonces, later) /\ Accounted(nonces, later, fewer)
  <2> HIDE DEF calls, d
  <2>1. QED
    BY <1>2, <1>5, ReturnAccounted
<1>7. Inv(stack', nonces, later)
  <2> HIDE DEF later
  <2>1. QED
    BY Zenon, <1>1, <1>6, PopInvariant DEF IInv
<1>8. QED
  <2> HIDE DEF later
  <2>1. QED
    BY Zenon, <1>1, <1>4, <1>7 DEF IInv

\* The innermost call reverts: what it found is restored.
LEMMA RevertsInvariant ==
    ASSUME IInv, CallReverts
    PROVE  IInv'
<1>1. /\ stack # << >> /\ stack' = SubSeq(stack, 1, Len(stack) - 1)
      /\ nonces' = stack[Len(stack)].saved.nonces
      /\ executions' = stack[Len(stack)].saved.executions
  BY DEF CallReverts, Pop, Top
<1>2. SavedOK(stack, Len(stack))
  BY Zenon, <1>1, TopFacts
<1>3. /\ Types(nonces', executions')
      /\ Accounted(nonces', executions', [i \in 1..(Len(stack) - 1) |-> stack[i].request])
  BY Zenon, <1>1, <1>2 DEF SavedOK
<1>4. Inv(stack', nonces', executions')
  BY Zenon, <1>1, <1>3, PopInvariant DEF IInv
<1>5. QED
  BY Zenon, <1>4 DEF IInv

LEMMA StepInvariant ==
    ASSUME IInv, [Next]_vars
    PROVE  IInv'
<1>1. ASSUME UNCHANGED <<stack, nonces, executions>>
      PROVE  IInv'
  BY Zenon, <1>1 DEF IInv
<1>2. CASE \E target \in TypeTargets : registerRequestType(target[1], target[2])
  BY <1>1, <1>2 DEF registerRequestType
<1>3. CASE \E h \in TypeHash : unregisterRequestType(h)
  BY <1>1, <1>3 DEF unregisterRequestType
<1>4. CASE \E registered \in SUBSET Collection : setCollectionRegistry(registered)
  BY <1>1, <1>4 DEF setCollectionRegistry
<1>5. CASE AdministerWallet
  BY <1>1, <1>5 DEF AdministerWallet
<1>6. CASE \E r \in Request : Relay(r)
  BY Zenon, <1>6, RelayInvariant
<1>7. CASE CallSucceeds
  BY Zenon, <1>7, SucceedsInvariant
<1>8. CASE CallReverts
  BY Zenon, <1>8, RevertsInvariant
<1>9. CASE UNCHANGED vars
  BY <1>1, <1>9 DEF vars
<1>10. QED
  BY Zenon, <1>2, <1>3, <1>4, <1>5, <1>6, <1>7, <1>8, <1>9 DEF Next

\* Every nonce that was used was used by one request, executed once, whatever
\* is relayed, nested or reverted.
THEOREM NonceAccountingHolds == Spec => []NonceAccounting
<1>1. IInv => NonceAccounting
  BY Zenon DEF IInv, Inv, NonceAccounting, Calls
<1>2. Init => IInv
  BY InitInvariant
<1>3. IInv /\ [Next]_vars => IInv'
  BY StepInvariant
<1>4. QED
  BY <1>1, <1>2, <1>3, PTL DEF Spec

-----------------------------------------------------------------------------
(* The ledger that is committed. *)

Below(nn, ex, later, laterEx) ==
    /\ \A f \in Sender, c \in Channel : nn[f][c] <= later[f][c]
    /\ \A r \in Request : ex[r] <= laterEx[r]

\* Nothing that a transaction in progress may fall back to is older than its start.
Grows(st, nn, ex) ==
    st # << >> =>
        /\ \A i \in 1..Len(st) : Below(st[1].saved.nonces, st[1].saved.executions,
                                       st[i].saved.nonces, st[i].saved.executions)
        /\ Below(st[1].saved.nonces, st[1].saved.executions, nn, ex)

LedgerInv == IInv /\ Grows(stack, nonces, executions)

LEMMA BelowOrder ==
    ASSUME NEW nn, NEW ex, Types(nn, ex), NEW nn2, NEW ex2, Types(nn2, ex2),
           NEW nn3, NEW ex3, Types(nn3, ex3)
    PROVE  /\ Below(nn, ex, nn, ex)
           /\ Below(nn, ex, nn2, ex2) /\ Below(nn2, ex2, nn3, ex3) => Below(nn, ex, nn3, ex3)
<1>1. \A f \in Sender, c \in Channel :
         nn[f][c] \in Int /\ nn2[f][c] \in Int /\ nn3[f][c] \in Int
  BY BoundAssumption DEF Types, Nonces
<1>2. \A r \in Request : ex[r] \in Int /\ ex2[r] \in Int /\ ex3[r] \in Int
  BY DEF Types
<1>3. QED
  BY <1>1, <1>2 DEF Below

LEMMA BumpedBelow ==
    ASSUME NEW nn, NEW ex, Types(nn, ex), NEW r \in Request
    PROVE  Below(nn, ex, Bumped(nn, r), ex)
<1>1. \A f \in Sender, c \in Channel : nn[f][c] \in Int
  BY BoundAssumption DEF Types, Nonces
<1>2. \A f \in Sender, c \in Channel :
         Bumped(nn, r)[f][c] = IF f = r.from /\ c = r.channel THEN nn[f][c] + 1 ELSE nn[f][c]
  BY RequestFacts DEF Types, Nonces, Bumped
<1>3. \A s \in Request : ex[s] \in Int
  BY DEF Types
<1>4. QED
  BY <1>1, <1>2, <1>3 DEF Below

LEMMA StackFacts ==
    ASSUME IInv
    PROVE  /\ \E S : stack \in Seq(S)
           /\ Types(nonces, executions)
           /\ \A i \in 1..Len(stack) :
                 /\ stack[i].request \in Request
                 /\ Types(stack[i].saved.nonces, stack[i].saved.executions)
BY Zenon DEF IInv, Inv, SavedOK

\* A call that begins saves the present state, which is no older than the start.
LEMMA RelayGrows ==
    ASSUME LedgerInv, NEW r \in Request, Relay(r)
    PROVE  Grows(stack, nonces, executions)'
<1>1. PICK frame :
         /\ stack' = Append(stack, frame)
         /\ executions' = executions
         /\ nonces' = Bumped(nonces, r)
         /\ frame.saved.nonces = nonces
         /\ frame.saved.executions = executions
  <2>1. PICK n \in 0..MaxSignatures : \E signers \in [1..n -> Owner] : executeTransaction(r, signers)
    BY DEF Relay
  <2>2. PICK signers \in [1..n -> Owner] : executeTransaction(r, signers)
    BY <2>1
  <2> DEFINE frame == [request |-> r, signers |-> signers,
                       destination |-> DestinationOf(r), saved |-> Journal]
  <2>3. stack' = Append(stack, frame) /\ executions' = executions /\ nonces' = Bumped(nonces, r)
    BY <2>2 DEF executeTransaction, checkAndUpdateNonce, Bumped
  <2>4. frame.saved.nonces = nonces /\ frame.saved.executions = executions
    BY DEF Journal
  <2> HIDE DEF frame
  <2>5. QED
    BY <2>3, <2>4
<1>2. PICK S : stack \in Seq(S)
  BY StackFacts DEF LedgerInv
<1>3. /\ Len(stack) \in Nat
      /\ Len(stack') = Len(stack) + 1
      /\ stack'[Len(stack) + 1] = frame
      /\ \A i \in 1..Len(stack) : stack'[i] = stack[i]
  BY <1>1, <1>2
<1>4. /\ Types(nonces, executions)
      /\ \A i \in 1..Len(stack) : Types(stack[i].saved.nonces, stack[i].saved.executions)
      /\ Below(nonces, executions, nonces', executions')
      /\ Types(nonces', executions')
  <2>1. IInv'
    BY RelayInvariant DEF LedgerInv
  <2>2. Types(nonces', executions')
    BY Zenon, <2>1 DEF IInv, Inv
  <2>3. Types(nonces, executions)
        /\ \A i \in 1..Len(stack) : Types(stack[i].saved.nonces, stack[i].saved.executions)
    BY Zenon, StackFacts DEF LedgerInv
  <2>4. QED
    BY <1>1, <2>2, <2>3, BumpedBelow
<1>5. CASE stack = << >>
  <2>1. Len(stack') = 1 /\ stack'[1] = frame
    BY <1>3, <1>5
  <2>2. Below(nonces, executions, nonces, executions)
    BY <1>4, BelowOrder
  <2>3. \A i \in 1..Len(stack') : stack'[i] = frame
    BY <2>1
  <2>4. QED
    BY <1>1, <1>4, <2>1, <2>2, <2>3 DEF Grows
<1>6. CASE stack # << >>
  <2>1. Len(stack) > 0 /\ stack'[1] = stack[1]
    BY <1>2, <1>3, <1>6
  <2> DEFINE nn == stack[1].saved.nonces
             ex == stack[1].saved.executions
  <2>2. /\ Below(nn, ex, nonces, executions)
        /\ \A i \in 1..Len(stack) : Below(nn, ex, stack[i].saved.nonces, stack[i].saved.executions)
    BY <1>6 DEF LedgerInv, Grows
  <2>3. Types(nn, ex)
    BY <1>4, <2>1, <1>3
  <2>4. Below(nn, ex, nonces', executions')
    BY <1>4, <2>2, <2>3, BelowOrder
  <2>5. \A i \in 1..Len(stack') :
           Below(nn, ex, stack'[i].saved.nonces, stack'[i].saved.executions)
    <3>1. SUFFICES ASSUME NEW i \in 1..Len(stack')
                   PROVE  Below(nn, ex, stack'[i].saved.nonces, stack'[i].saved.executions)
      OBVIOUS
    <3>2. CASE i = Len(stack) + 1
      BY <1>1, <1>3, <2>2, <3>2
    <3>3. CASE i # Len(stack) + 1
      <4>1. i \in 1..Len(stack) /\ stack'[i] = stack[i]
        BY <1>3, <3>3
      <4>2. QED
        BY <2>2, <4>1
    <3>4. QED
      BY <3>2, <3>3
  <2>6. QED
    BY <2>1, <2>4, <2>5 DEF Grows
<1>7. QED
  BY <1>5, <1>6

\* A call that ends leaves the frames below it; what it leaves is no older than them.
LEMMA PopGrows ==
    ASSUME LedgerInv, stack # << >>, stack' = Pop,
           \/ Below(nonces, executions, nonces', executions') /\ Types(nonces', executions')
           \/ nonces' = Top.saved.nonces /\ executions' = Top.saved.executions
    PROVE  Grows(stack, nonces, executions)'
<1>1. PICK S : stack \in Seq(S)
  BY StackFacts DEF LedgerInv
<1>2. /\ Len(stack) \in Nat /\ Len(stack) > 0
      /\ stack' \in Seq(S) /\ Len(stack') = Len(stack) - 1
      /\ \A i \in 1..(Len(stack) - 1) : stack'[i] = stack[i]
  BY <1>1, PopFacts DEF Pop
<1>3. SUFFICES ASSUME stack' # << >>
               PROVE  Grows(stack, nonces, executions)'
  BY DEF Grows
<1>4. 1 \in 1..Len(stack') /\ 1 \in 1..(Len(stack) - 1) /\ 1 \in 1..Len(stack)
  BY <1>2, <1>3
<1>5. stack'[1] = stack[1]
  BY <1>2, <1>4
<1> DEFINE nn == stack[1].saved.nonces
           ex == stack[1].saved.executions
<1>6. /\ Below(nn, ex, nonces, executions)
      /\ \A i \in 1..Len(stack) : Below(nn, ex, stack[i].saved.nonces, stack[i].saved.executions)
  BY DEF LedgerInv, Grows
<1>7. \A i \in 1..Len(stack') : Below(nn, ex, stack'[i].saved.nonces, stack'[i].saved.executions)
  <2>1. SUFFICES ASSUME NEW i \in 1..Len(stack')
                 PROVE  Below(nn, ex, stack'[i].saved.nonces, stack'[i].saved.executions)
    OBVIOUS
  <2>2. i \in 1..Len(stack) /\ stack'[i] = stack[i]
    BY <1>2
  <2>3. QED
    BY <1>6, <2>2
<1>8. Types(nn, ex) /\ Types(nonces, executions)
  BY <1>4, StackFacts DEF LedgerInv
<1>9. Below(nn, ex, nonces', executions')
  <2>1. CASE Below(nonces, executions, nonces', executions') /\ Types(nonces', executions')
    BY <1>6, <1>8, <2>1, BelowOrder
  <2>2. CASE nonces' = Top.saved.nonces /\ executions' = Top.saved.executions
    BY <1>2, <1>6, <2>2 DEF Top
  <2>3. QED
    BY <2>1, <2>2
<1>10. QED
  BY <1>5, <1>7, <1>9 DEF Grows

LEMMA LedgerStep ==
    ASSUME LedgerInv, [Next]_vars
    PROVE  LedgerInv'
<1>1. IInv'
  BY StepInvariant DEF LedgerInv
<1> SUFFICES Grows(stack, nonces, executions)'
  BY <1>1 DEF LedgerInv
<1>2. ASSUME UNCHANGED <<stack, nonces, executions>>
      PROVE  Grows(stack, nonces, executions)'
  BY Zenon, <1>2 DEF LedgerInv
<1>3. CASE \E target \in TypeTargets : registerRequestType(target[1], target[2])
  BY <1>2, <1>3 DEF registerRequestType
<1>4. CASE \E h \in TypeHash : unregisterRequestType(h)
  BY <1>2, <1>4 DEF unregisterRequestType
<1>5. CASE \E registered \in SUBSET Collection : setCollectionRegistry(registered)
  BY <1>2, <1>5 DEF setCollectionRegistry
<1>6. CASE AdministerWallet
  BY <1>2, <1>6 DEF AdministerWallet
<1>7. CASE \E r \in Request : Relay(r)
  BY Zenon, <1>7, RelayGrows
<1>8. CASE CallSucceeds
  <2>1. /\ stack # << >> /\ stack' = Pop /\ nonces' = nonces
        /\ executions' = [executions EXCEPT ![Top.request] = @ + 1]
    BY <1>8 DEF CallSucceeds
  <2>2. Types(nonces', executions')
    BY Zenon, <1>1 DEF IInv, Inv
  <2>3. Types(nonces, executions)
    BY StackFacts DEF LedgerInv
  <2>4. Below(nonces, executions, nonces', executions')
    <3>1. \A f \in Sender, c \in Channel : nonces[f][c] \in Int
      BY <2>3, BoundAssumption DEF Types, Nonces
    <3>2. \A r \in Request : executions[r] \in Int /\ executions'[r] \in {executions[r], executions[r] + 1}
      BY <2>1, <2>3 DEF Types
    <3>3. QED
      BY <2>1, <3>1, <3>2 DEF Below
  <2>5. QED
    BY <2>1, <2>2, <2>4, PopGrows
<1>9. CASE CallReverts
  BY <1>9, PopGrows DEF CallReverts
<1>10. CASE UNCHANGED vars
  BY <1>2, <1>10 DEF vars
<1>11. QED
  BY Zenon, <1>3, <1>4, <1>5, <1>6, <1>7, <1>8, <1>9, <1>10 DEF Next

\* RequestLedger's commit of R, from one pair of counters and executed requests to another.
Adds(R, nn, done, later, doneThen) ==
    /\ R # {} /\ R \cap done = {}
    /\ \A r, s \in R : r.from = s.from /\ r.channel = s.channel /\ r.nonce = s.nonce => r = s
    /\ doneThen = done \union R
    /\ \A f \in Sender, c \in Channel :
          /\ nn[f][c] <= later[f][c]
          /\ {r.nonce : r \in {r \in R : r.from = f /\ r.channel = c}}
                = nn[f][c]..(later[f][c] - 1)

\* What a transaction adds to an accounted state that it started from is one commit.
LEMMA TransactionCommits ==
    ASSUME NEW nn, NEW ex, Types(nn, ex), NEW later, NEW laterEx, Types(later, laterEx),
           NEW none, DOMAIN none = {},
           Accounted(nn, ex, none), Accounted(later, laterEx, none),
           Below(nn, ex, later, laterEx),
           NEW r0 \in Request, ex[r0] = 0, laterEx[r0] > 0,
           NEW done, \A r : r \in done <=> r \in Request /\ ex[r] > 0,
           NEW doneThen, \A r : r \in doneThen <=> r \in Request /\ laterEx[r] > 0
    PROVE  \E R \in SUBSET Request : Adds(R, nn, done, later, doneThen)
<1> DEFINE R == doneThen \ done
<1>1. /\ \A r \in Request : ex[r] \in Nat /\ laterEx[r] \in Nat /\ ex[r] <= laterEx[r]
      /\ \A f \in Sender, c \in Channel :
            nn[f][c] \in Nat /\ later[f][c] \in Nat /\ nn[f][c] <= later[f][c]
  BY BoundAssumption DEF Types, Nonces, Below
<1>2. done \subseteq doneThen
  BY <1>1
<1>3. /\ \A r : r \in Used(ex, none) <=> r \in done
      /\ \A r : r \in Used(laterEx, none) <=> r \in doneThen
  BY DEF Used
<1>4. /\ \A r, s \in doneThen : Slot(r) = Slot(s) => r = s
      /\ \A r \in doneThen : r.nonce < later[r.from][r.channel]
      /\ \A f \in Sender, c \in Channel : \A n \in 0..(later[f][c] - 1) :
            \E r \in doneThen : Slot(r) = <<f, c, n>>
      /\ \A r \in done : r.nonce < nn[r.from][r.channel]
      /\ \A f \in Sender, c \in Channel : \A n \in 0..(nn[f][c] - 1) :
            \E r \in done : Slot(r) = <<f, c, n>>
  BY <1>3 DEF Accounted
<1>5. R # {} /\ R \cap done = {} /\ doneThen = done \union R /\ R \in SUBSET Request
  BY <1>2
<1>6. \A r, s \in R : r.from = s.from /\ r.channel = s.channel /\ r.nonce = s.nonce => r = s
  BY <1>4 DEF Slot
<1>7. ASSUME NEW f \in Sender, NEW c \in Channel
      PROVE  {r.nonce : r \in {r \in R : r.from = f /\ r.channel = c}}
                = nn[f][c]..(later[f][c] - 1)
  <2> DEFINE N == {r.nonce : r \in {r \in R : r.from = f /\ r.channel = c}}
  <2>1. ASSUME NEW r \in R, r.from = f, r.channel = c
        PROVE  r.nonce \in nn[f][c]..(later[f][c] - 1)
    <3>1. r \in doneThen /\ r \notin done /\ r.nonce \in Nat
      BY <2>1, <1>5, RequestFacts
    <3>2. r.nonce < later[f][c]
      BY <1>4, <2>1, <3>1
    <3>3. r.nonce >= nn[f][c]
      <4>1. SUFFICES ASSUME r.nonce \in 0..(nn[f][c] - 1) PROVE FALSE
        BY <1>1, <3>1
      <4>2. PICK s \in done : Slot(s) = <<f, c, r.nonce>>
        BY <1>4, <4>1
      <4>3. Slot(r) = Slot(s) /\ s \in doneThen
        BY <1>2, <2>1, <4>2 DEF Slot
      <4>4. r = s
        BY <1>4, <3>1, <4>3
      <4>5. QED
        BY <3>1, <4>4
    <3>4. QED
      BY <1>1, <3>1, <3>2, <3>3
  <2>2. ASSUME NEW n \in nn[f][c]..(later[f][c] - 1)
        PROVE  \E r \in R : r.from = f /\ r.channel = c /\ r.nonce = n
    <3>1. n \in 0..(later[f][c] - 1)
      BY <1>1, <2>2
    <3>2. PICK r \in doneThen : Slot(r) = <<f, c, n>>
      BY <1>4, <3>1
    <3>3. r.from = f /\ r.channel = c /\ r.nonce = n
      BY <3>2 DEF Slot
    <3>4. r \notin done
      BY <1>1, <1>4, <2>2, <3>3
    <3>5. QED
      BY <3>2, <3>3, <3>4
  <2> HIDE DEF R
  <2>3. \A n : n \in N <=> n \in nn[f][c]..(later[f][c] - 1)
    BY <2>1, <2>2
  <2>4. QED
    BY <2>3
<1>8. QED
  <2> HIDE DEF R
  <2>1. QED
    BY <1>1, <1>5, <1>6, <1>7 DEF Adds

\* Seen from outside, a step of the forwarder commits a transaction or changes nothing.
LEMMA StepCommits ==
    ASSUME LedgerInv, [Next]_vars
    PROVE  [\E R \in SUBSET Request : Ledger!Commit(R)]_(Ledger!ledger)
<1> DEFINE done == {r \in Request : Committed.executions[r] > 0}
<1>1. ASSUME Committed'.nonces = Committed.nonces, Committed'.executions = Committed.executions
      PROVE  UNCHANGED Ledger!ledger
  BY <1>1 DEF Ledger!ledger
<1>2. ASSUME UNCHANGED <<stack, nonces, executions>>
      PROVE  UNCHANGED Ledger!ledger
  <2>1. CASE stack = << >>
    BY <1>1, <1>2, <2>1 DEF Committed, Journal
  <2>2. CASE stack # << >>
    BY <1>1, <1>2, <2>2 DEF Committed
  <2>3. QED
    BY <2>1, <2>2
<1>3. CASE \E target \in TypeTargets : registerRequestType(target[1], target[2])
  BY <1>2, <1>3 DEF registerRequestType
<1>4. CASE \E h \in TypeHash : unregisterRequestType(h)
  BY <1>2, <1>4 DEF unregisterRequestType
<1>5. CASE \E registered \in SUBSET Collection : setCollectionRegistry(registered)
  BY <1>2, <1>5 DEF setCollectionRegistry
<1>6. CASE AdministerWallet
  BY <1>2, <1>6 DEF AdministerWallet
<1>7. PICK S : stack \in Seq(S)
  BY StackFacts DEF LedgerInv
<1>8. CASE \E r \in Request : Relay(r)
  <2>1. PICK r \in Request : Relay(r)
    BY <1>8
  <2>2. PICK n \in 0..MaxSignatures : \E signers \in [1..n -> Owner] : executeTransaction(r, signers)
    BY <2>1 DEF Relay
  <2>3. PICK signers \in [1..n -> Owner] : executeTransaction(r, signers)
    BY <2>2
  <2> DEFINE frame == [request |-> r, signers |-> signers,
                       destination |-> DestinationOf(r), saved |-> Journal]
  <2>4. stack' = Append(stack, frame) /\ frame.saved = Journal
    BY <2>3 DEF executeTransaction
  <2> HIDE DEF frame
  <2>5. stack' # << >> /\ stack'[1] = IF stack = << >> THEN frame ELSE stack[1]
    BY <1>7, <2>4
  <2>6. Committed' = Committed
    BY <2>4, <2>5 DEF Committed
  <2>7. QED
    BY <1>1, <2>6
<1>9. ASSUME stack # << >>, stack' = Pop, Len(stack) # 1
      PROVE  UNCHANGED Ledger!ledger
  <2>1. /\ Len(stack) \in Nat /\ Len(stack) > 0
        /\ Len(stack') = Len(stack) - 1
        /\ \A i \in 1..(Len(stack) - 1) : stack'[i] = stack[i]
    BY <1>7, <1>9, PopFacts DEF Pop
  <2>2. 1 \in 1..(Len(stack) - 1) /\ stack' # << >>
    BY <1>9, <2>1
  <2>3. Committed' = Committed
    BY <1>9, <2>1, <2>2 DEF Committed
  <2>4. QED
    BY <1>1, <2>3
<1>10. ASSUME stack # << >>, stack' = Pop, Len(stack) = 1
       PROVE  /\ stack' = << >> /\ Top = stack[1]
              /\ Committed = stack[1].saved /\ Committed' = Journal'
  BY <1>7, <1>10, PopFacts DEF Committed, Pop, Top
<1>11. CASE CallSucceeds
  <2>1. /\ stack # << >> /\ stack' = Pop /\ nonces' = nonces
        /\ executions' = [executions EXCEPT ![Top.request] = @ + 1]
    BY <1>11 DEF CallSucceeds
  <2>2. CASE Len(stack) # 1
    BY <1>9, <2>1, <2>2
  <2>3. CASE Len(stack) = 1
    <3> DEFINE nn == stack[1].saved.nonces
               ex == stack[1].saved.executions
               none == [i \in 1..0 |-> stack[i].request]
    <3>1. /\ stack' = << >> /\ Top = stack[1]
          /\ Committed.nonces = nn /\ Committed.executions = ex
          /\ Committed'.nonces = nonces' /\ Committed'.executions = executions'
      BY <1>10, <2>1, <2>3 DEF Journal
    <3>2. Types(nn, ex) /\ Accounted(nn, ex, none)
      <4>1. SavedOK(stack, 1)
        BY <2>1, <2>3, TopFacts DEF LedgerInv
      <4>2. none = [j \in 1..(1 - 1) |-> stack[j].request]
        OBVIOUS
      <4> HIDE DEF none
      <4>3. QED
        BY <4>1, <4>2 DEF SavedOK
    <3>3. Types(nonces', executions') /\ Accounted(nonces', executions', none)
      <4>1. IInv'
        BY StepInvariant DEF LedgerInv
      <4>2. /\ Types(nonces', executions')
            /\ Accounted(nonces', executions', [i \in 1..Len(stack') |-> stack'[i].request])
        BY Zenon, <4>1 DEF IInv, Inv
      <4>3. [i \in 1..Len(stack') |-> stack'[i].request] = none
        BY <3>1
      <4> HIDE DEF none
      <4>4. QED
        BY Zenon, <4>2, <4>3
    <3>4. Below(nn, ex, nonces', executions')
      <4>2. Below(nn, ex, nonces, executions)
        BY <2>1 DEF LedgerInv, Grows
      <4>3. Types(nonces, executions)
        BY StackFacts DEF LedgerInv
      <4>4. \A r \in Request : ex[r] \in Int /\ executions[r] \in Int
                               /\ executions'[r] \in {executions[r], executions[r] + 1}
        BY <2>1, <3>2, <4>3 DEF Types
      <4>5. QED
        BY <2>1, <4>2, <4>4 DEF Below
    <3>5. /\ Top.request \in Request /\ ex[Top.request] = 0 /\ executions'[Top.request] > 0
      <4>1. /\ Top.request \in Request /\ Types(nonces, executions)
            /\ Accounted(nonces, executions, [i \in 1..Len(stack) |-> stack[i].request])
        BY <2>3, <3>1, StackFacts, TopFacts, <2>1 DEF LedgerInv
      <4>2. executions[Top.request] = 0
        <5>1. 1 \in DOMAIN [i \in 1..Len(stack) |-> stack[i].request]
          BY <2>3
        <5>2. [i \in 1..Len(stack) |-> stack[i].request][1] = Top.request
          BY <2>3, <3>1
        <5>3. QED
          BY <4>1, <5>1, <5>2 DEF Accounted
      <4>3. ex[Top.request] <= executions[Top.request]
        BY <2>1, <4>1 DEF LedgerInv, Grows, Below
      <4>4. QED
        BY <2>1, <3>2, <4>1, <4>2, <4>3 DEF Types
    <3>6. /\ \A r : r \in done <=> r \in Request /\ ex[r] > 0
          /\ \A r : r \in done' <=> r \in Request /\ executions'[r] > 0
      BY <3>1
    <3>7. DOMAIN none = {}
      OBVIOUS
    <3>8. PICK R \in SUBSET Request : Adds(R, nn, done, nonces', done')
      <4> HIDE DEF none, done, nn, ex
      <4>1. QED
        BY <3>2, <3>3, <3>4, <3>5, <3>6, <3>7, TransactionCommits
    <3>9. Ledger!Commit(R)
      <4> HIDE DEF nn, ex
      <4>1. QED
        BY <3>1, <3>8 DEF Adds, Ledger!Commit, Ledger!In
    <3>10. QED
      BY <3>8, <3>9
  <2>4. QED
    BY <2>2, <2>3
<1>12. CASE CallReverts
  <2>1. /\ stack # << >> /\ stack' = Pop
        /\ nonces' = Top.saved.nonces /\ executions' = Top.saved.executions
    BY <1>12 DEF CallReverts
  <2>2. CASE Len(stack) # 1
    BY <1>9, <2>1, <2>2
  <2>3. CASE Len(stack) = 1
    BY <1>1, <1>10, <2>1, <2>3 DEF Journal
  <2>4. QED
    BY <2>2, <2>3
<1>13. CASE UNCHANGED vars
  BY <1>2, <1>13 DEF vars
<1>14. QED
  <2> HIDE DEF done
  <2>1. QED
    BY <1>3, <1>4, <1>5, <1>6, <1>8, <1>11, <1>12, <1>13 DEF Next

\* Outside observers see whole transactions, each of new requests with the next nonces
\* of their channels, however requests are relayed, nested and reverted: the forwarder
\* implements RequestLedger.
THEOREM CommitsInOrderHolds == Spec => CommitsInOrder
<1>1. Init => LedgerInv /\ Ledger!Init
  <2>1. SUFFICES ASSUME Init PROVE LedgerInv /\ Ledger!Init
    OBVIOUS
  <2>2. stack = << >> /\ Committed.nonces = nonces /\ Committed.executions = executions
    BY <2>1 DEF Init, Committed, Journal
  <2>3. LedgerInv
    BY <2>1, <2>2, InitInvariant DEF LedgerInv, Grows
  <2>4. Ledger!Init
    BY <2>1, <2>2 DEF Init, Ledger!Init
  <2>5. QED
    BY <2>3, <2>4
<1>2. LedgerInv /\ [Next]_vars => LedgerInv'
  BY LedgerStep
<1>3. LedgerInv /\ [Next]_vars => [\E R \in SUBSET Request : Ledger!Commit(R)]_(Ledger!ledger)
  BY StepCommits
<1>4. QED
  BY <1>1, <1>2, <1>3, PTL DEF Spec, CommitsInOrder, Ledger!Spec

-----------------------------------------------------------------------------
(* The owners' consent. *)

\* What the consent argument needs of the wallets' types.
StructOK(struct) ==
    /\ struct = [owners |-> struct.owners, ownerCount |-> struct.ownerCount,
                 threshold |-> struct.threshold]
    /\ struct.threshold \in Nat

WalletsOK(wl, lu) ==
    /\ wl = [w \in Wallet |-> wl[w]]
    /\ lu = [w \in Wallet |-> lu[w]]
    /\ \A w \in Wallet : StructOK(wl[w])

\* The signatures of the call in progress are valid as long as it is the innermost, and
\* a call on the LicensedUserManager stays the innermost.
Signed(call) == ValidEOASignature(call.request, call.signers)
                  \/ ValidLUWSignatures(call.request, call.signers)

Frames(st) ==
    /\ \E S : st \in Seq(S)
    /\ \A i \in 1..Len(st) :
          /\ st[i].request \in Request
          /\ \E n \in Nat : st[i].signers \in [1..n -> Owner]
          /\ WalletsOK(st[i].saved.wallets, st[i].saved.luws)
          /\ i # Len(st) => st[i].destination # Manager

ConsentInv ==
    /\ WalletsOK(wallets, luws)
    /\ Frames(stack)
    /\ stack # << >> /\ Top.destination = Manager => Signed(Top)

LEMMA Uint8Facts == LUM!Uint8 \subseteq Nat
BY ManagerAssumption DEF LUM!Uint8

\* What a call on the wallets may do to them: it changes the wallet that is called, and
\* no other.
Touched(w, wl, lu, wl2, lu2) ==
    /\ WalletsOK(wl2, lu2)
    /\ \A v \in Wallet : v # w => wl2[v] = wl[v] /\ lu2[v] = lu[v]

Touches(w) == Touched(w, wallets, luws, wallets', luws')

LEMMA WalletReplaced ==
    ASSUME NEW wl, NEW lu, WalletsOK(wl, lu), NEW w \in Wallet, NEW wl2, NEW lu2,
           wl2 = wl \/ \E struct : StructOK(struct) /\ wl2 = [wl EXCEPT ![w] = struct],
           lu2 = lu \/ \E user : lu2 = [lu EXCEPT ![w] = user]
    PROVE  Touched(w, wl, lu, wl2, lu2)
<1>1. /\ wl2 = [v \in Wallet |-> wl2[v]]
      /\ \A v \in Wallet : v # w => wl2[v] = wl[v]
      /\ StructOK(wl2[w])
  <2>1. CASE wl2 = wl
    BY <2>1 DEF WalletsOK
  <2>2. CASE \E struct : StructOK(struct) /\ wl2 = [wl EXCEPT ![w] = struct]
    <3>1. PICK struct : StructOK(struct) /\ wl2 = [wl EXCEPT ![w] = struct]
      BY <2>2
    <3>2. wl2 = [v \in Wallet |-> IF v = w THEN struct ELSE wl[v]]
      BY <3>1 DEF WalletsOK
    <3>3. \A v \in Wallet : wl2[v] = IF v = w THEN struct ELSE wl[v]
      BY <3>2
    <3>4. wl2 = [v \in Wallet |-> wl2[v]]
      BY <3>2
    <3>5. QED
      BY <3>1, <3>3, <3>4
  <2>3. QED
    BY <2>1, <2>2
<1>2. /\ lu2 = [v \in Wallet |-> lu2[v]]
      /\ \A v \in Wallet : v # w => lu2[v] = lu[v]
  <2>1. CASE lu2 = lu
    BY <2>1 DEF WalletsOK
  <2>2. CASE \E user : lu2 = [lu EXCEPT ![w] = user]
    <3>1. PICK user : lu2 = [lu EXCEPT ![w] = user]
      BY <2>2
    <3>2. lu2 = [v \in Wallet |-> IF v = w THEN user ELSE lu[v]]
      BY <3>1 DEF WalletsOK
    <3>3. lu2 = [v \in Wallet |-> lu2[v]] /\ \A v \in Wallet : v # w => lu2[v] = lu[v]
      BY <3>2
    <3>4. QED
      BY <3>3
  <2>3. QED
    BY <2>1, <2>2
<1>3. \A v \in Wallet : StructOK(wl2[v])
  BY <1>1 DEF WalletsOK
<1>4. WalletsOK(wl2, lu2)
  BY Zenon, <1>1, <1>2, <1>3 DEF WalletsOK
<1>5. QED
  BY <1>1, <1>2, <1>4 DEF Touched

LEMMA SetupTouches ==
    ASSUME WalletsOK(wallets, luws), NEW w \in Wallet, NEW list, NEW t \in LUM!Uint8,
           LUM!setupOwners(w, list, t),
           NEW user, luws' = luws \/ luws' = [luws EXCEPT ![w] = user]
    PROVE  Touches(w)
<1> DEFINE struct == LUM!SetupResult(wallets[w], list, t)
<1>1. wallets' = [wallets EXCEPT ![w] = struct]
  BY DEF LUM!setupOwners, WalletsOK
<1>2. StructOK(struct)
  BY Uint8Facts DEF StructOK, LUM!SetupResult
<1> HIDE DEF struct
<1>3. QED
  BY Zenon, <1>1, <1>2, WalletReplaced DEF Touches

LEMMA AddTouches ==
    ASSUME WalletsOK(wallets, luws), NEW caller, NEW w \in Wallet, NEW owner,
           NEW t \in LUM!Uint8, LUM!addOwner(caller, w, owner, t)
    PROVE  Touches(w)
<1>1. CASE LUM!singleToMulti(w, <<luws[w].owner, owner>>, t)
  <2>1. luws' = [luws EXCEPT ![w].owner = LUM!ZERO]
    BY <1>1 DEF LUM!singleToMulti
  <2>2. \E user : luws' = [luws EXCEPT ![w] = user]
    BY <2>1
  <2>3. QED
    BY <1>1, <2>2, SetupTouches DEF LUM!singleToMulti
<1>2. CASE LUM!addOwnerMulti(w, owner, t) /\ UNCHANGED luws
  <2> DEFINE struct == [owners     |-> [wallets[w].owners EXCEPT
                                        ![owner] = wallets[w].owners[LUM!SENTINEL_OWNERS],
                                        ![LUM!SENTINEL_OWNERS] = owner],
                     ownerCount |-> wallets[w].ownerCount + 1,
                     threshold  |-> t]
  <2>1. wallets' = [wallets EXCEPT ![w] = struct]
    BY <1>2 DEF LUM!addOwnerMulti
  <2>2. StructOK(struct)
    BY Uint8Facts DEF StructOK
  <2> HIDE DEF struct
  <2>3. QED
    BY Zenon, <1>2, <2>1, <2>2, WalletReplaced DEF Touches
<1>3. QED
  BY <1>1, <1>2 DEF LUM!addOwner

LEMMA RemoveTouches ==
    ASSUME WalletsOK(wallets, luws), NEW caller, NEW w \in Wallet, NEW prev, NEW owner,
           NEW t \in LUM!Uint8, LUM!removeOwner(caller, w, prev, owner, t), UNCHANGED luws
    PROVE  Touches(w)
<1> DEFINE struct == [owners     |-> [wallets[w].owners EXCEPT
                                      ![prev] = wallets[w].owners[owner],
                                      ![owner] = LUM!ZERO],
                   ownerCount |-> wallets[w].ownerCount - 1,
                   threshold  |-> t]
<1>1. wallets' = [wallets EXCEPT ![w] = struct]
  BY DEF LUM!removeOwner
<1>2. StructOK(struct)
  BY Uint8Facts DEF StructOK
<1> HIDE DEF struct
<1>3. QED
  BY Zenon, <1>1, <1>2, WalletReplaced DEF Touches

LEMMA SwapTouches ==
    ASSUME WalletsOK(wallets, luws), NEW caller, NEW w \in Wallet, NEW prev, NEW old, NEW owner,
           LUM!swapOwner(caller, w, prev, old, owner), UNCHANGED luws
    PROVE  Touches(w)
<1> DEFINE links == [wallets[w].owners EXCEPT ![owner] = wallets[w].owners[old],
                                              ![prev] = owner,
                                              ![old] = LUM!ZERO]
           struct == [wallets[w] EXCEPT !.owners = links]
<1>1. wallets' = [wallets EXCEPT ![w] = struct]
  BY DEF LUM!swapOwner
<1>2. StructOK(struct)
  <2> HIDE DEF links
  <2>1. QED
    BY DEF WalletsOK, StructOK
<1> HIDE DEF struct
<1>3. QED
  BY Zenon, <1>1, <1>2, WalletReplaced DEF Touches

LEMMA ThresholdTouches ==
    ASSUME WalletsOK(wallets, luws), NEW caller, NEW w \in Wallet, NEW t \in LUM!Uint8,
           LUM!changeThreshold(caller, w, t), UNCHANGED luws
    PROVE  Touches(w)
<1> DEFINE struct == [wallets[w] EXCEPT !.threshold = t]
<1>1. wallets' = [wallets EXCEPT ![w] = struct]
  BY DEF LUM!changeThreshold
<1>2. StructOK(struct)
  BY Uint8Facts DEF WalletsOK, StructOK
<1> HIDE DEF struct
<1>3. QED
  BY Zenon, <1>1, <1>2, WalletReplaced DEF Touches

LEMMA NameTouches ==
    ASSUME WalletsOK(wallets, luws), NEW caller, NEW w \in Wallet, NEW name,
           LUM!setOriginalName(caller, w, name) \/ LUM!setEnglishName(caller, w, name)
    PROVE  Touches(w)
<1>1. \E user : luws' = [luws EXCEPT ![w] = user]
  BY DEF LUM!setOriginalName, LUM!setEnglishName
<1>2. wallets' = wallets
  BY DEF LUM!setOriginalName, LUM!setEnglishName
<1>3. QED
  BY Zenon, <1>1, <1>2, WalletReplaced DEF Touches

\* A call on wallet w, by the administrator or by the forwarder, touches w only.
LEMMA CallTouches ==
    ASSUME WalletsOK(wallets, luws), NEW caller, NEW w \in Wallet, LUM!WalletCall(caller, w)
    PROVE  Touches(w)
<1>1. CASE LUM!CreateWallet(caller, w)
  <2>1. PICK list \in OwnerLists, t \in LUM!Uint8,
             english, original \in Name \union {LUM!EmptyString} :
                LUM!createWallet(caller, w, list, t, english, original)
    BY <1>1 DEF LUM!CreateWallet
  <2>2. PICK user : luws' = [luws EXCEPT ![w] = user]
    BY <2>1 DEF LUM!createWallet
  <2>3. CASE UNCHANGED wallets
    BY Zenon, <2>2, <2>3, WalletReplaced DEF Touches
  <2>4. CASE LUM!setupOwners(w, list, t)
    BY <2>2, <2>4, SetupTouches
  <2>5. QED
    BY <2>1, <2>3, <2>4 DEF LUM!createWallet
<1>2. CASE LUM!AddOwner(caller, w)
  BY <1>2, AddTouches DEF LUM!AddOwner
<1>3. CASE LUM!RemoveOwner(caller, w)
  BY <1>3, RemoveTouches DEF LUM!RemoveOwner
<1>4. CASE LUM!SwapOwner(caller, w)
  BY <1>4, SwapTouches DEF LUM!SwapOwner
<1>5. CASE LUM!ChangeThreshold(caller, w)
  BY <1>5, ThresholdTouches DEF LUM!ChangeThreshold
<1>6. CASE LUM!SetName(caller, w)
  BY <1>6, NameTouches DEF LUM!SetName
<1>7. QED
  BY <1>1, <1>2, <1>3, <1>4, <1>5, <1>6 DEF LUM!WalletCall

\* An operation that is requested touches a wallet whose authority asks for it.
LEMMA RequestTouches ==
    ASSUME WalletsOK(wallets, luws), NEW from, NEW op \in Operation, CallManager(from, op)
    PROVE  \E w \in Wallet : Touches(w) /\ (from = w \/ from = Administrator)
<1>1. CASE op.call = "addOwner"
  <2>1. op.wallet \in Wallet /\ op.threshold \in LUM!Uint8
    BY <1>1 DEF Operation
  <2>2. LUM!addOwner(from, op.wallet, op.owner, op.threshold)
    BY <1>1 DEF CallManager
  <2>3. from = op.wallet \/ from = Administrator
    BY <2>2 DEF LUM!addOwner, LUM!onlyWalletOrAdministrator
  <2>4. QED
    BY <2>1, <2>2, <2>3, AddTouches
<1>2. CASE op.call = "removeOwner"
  <2>1. op.wallet \in Wallet /\ op.threshold \in LUM!Uint8
    BY <1>2 DEF Operation
  <2>2. /\ LUM!removeOwner(from, op.wallet, op.prevOwner, op.owner, op.threshold)
        /\ UNCHANGED luws
    BY <1>2 DEF CallManager
  <2>3. from = op.wallet \/ from = Administrator
    BY <2>2 DEF LUM!removeOwner, LUM!onlyWalletOrAdministrator
  <2>4. QED
    BY <2>1, <2>2, <2>3, RemoveTouches
<1>3. CASE op.call = "swapOwner"
  <2>1. op.wallet \in Wallet
    BY <1>3 DEF Operation
  <2>2. /\ LUM!swapOwner(from, op.wallet, op.prevOwner, op.oldOwner, op.newOwner)
        /\ UNCHANGED luws
    BY <1>3 DEF CallManager
  <2>3. from = op.wallet \/ from = Administrator
    BY <2>2 DEF LUM!swapOwner, LUM!onlyWalletOrAdministrator
  <2>4. QED
    BY <2>1, <2>2, <2>3, SwapTouches
<1>4. CASE op.call = "changeThreshold"
  <2>1. op.wallet \in Wallet /\ op.threshold \in LUM!Uint8
    BY <1>4 DEF Operation
  <2>2. LUM!changeThreshold(from, op.wallet, op.threshold) /\ UNCHANGED luws
    BY <1>4 DEF CallManager
  <2>3. from = op.wallet \/ from = Administrator
    BY <2>2 DEF LUM!changeThreshold, LUM!onlyWalletOrAdministrator
  <2>4. QED
    BY <2>1, <2>2, <2>3, ThresholdTouches
<1>5. QED
  BY <1>1, <1>2, <1>3, <1>4 DEF CallManager

\* Signatures that the LicensedUserManager accepts hold those of a quorum of the owners.
LEMMA AcceptedIsQuorum ==
    ASSUME WalletsOK(wallets, luws), NEW w \in Wallet, NEW n \in Nat, NEW s \in [1..n -> Owner],
           LUM!isValidSignatureSet(w, s)
    PROVE  \E S \in SUBSET {s[i] : i \in DOMAIN s} : LUM!QuorumOf(w, S)
<1>1. DOMAIN s = 1..n /\ Len(s) = n
  OBVIOUS
<1>2. CASE LUM!isSingleOwner(w)
  <2>1. s # << >> /\ s[1] = luws[w].owner
    BY <1>2 DEF LUM!isValidSignatureSet
  <2>2. LUM!OwnersOf(w) = {luws[w].owner} /\ LUM!getThreshold(w) = 1
    BY <1>2 DEF LUM!OwnersOf, LUM!getThreshold
  <2>3. 1 \in DOMAIN s
    BY <1>1, <2>1
  <2>4. Cardinality({luws[w].owner}) = 1
    BY FS_Singleton
  <2>5. {luws[w].owner} \in SUBSET {s[i] : i \in DOMAIN s}
    BY <2>1, <2>3
  <2>6. LUM!QuorumOf(w, {luws[w].owner})
    BY <2>2, <2>4 DEF LUM!QuorumOf, LUM!Cardinality, Cardinality
  <2>7. QED
    BY Zenon, <2>5, <2>6
<1>3. CASE ~LUM!isSingleOwner(w)
  <2> DEFINE t == wallets[w].threshold
             S == {s[i] : i \in 1..t}
  <2>1. LUM!checkSignatures(w, s) /\ LUM!OwnersOf(w) = LUM!Linked(wallets[w])
        /\ LUM!getThreshold(w) = t
    BY <1>3 DEF LUM!isValidSignatureSet, LUM!OwnersOf, LUM!getThreshold
  <2>2. t \in Nat /\ t <= n /\ 1..t \subseteq 1..n
    <3>1. t \in Nat
      BY DEF WalletsOK, StructOK
    <3>2. t <= n
      BY <1>1, <2>1 DEF LUM!checkSignatures
    <3> HIDE DEF t
    <3>3. QED
      BY <3>1, <3>2
  <2>3. \A i \in 1..t : /\ i \in DOMAIN s
                        /\ s[i] \in Owner /\ s[i] \in Nat
                        /\ s[i] # LUM!ZERO /\ s[i] # LUM!SENTINEL_OWNERS
    BY <1>1, <2>2, ManagerAssumption
  <2>4. \A i \in 1..t : /\ s[i] > (IF i = 1 THEN LUM!ZERO ELSE s[i - 1])
                        /\ wallets[w].owners[s[i]] # LUM!ZERO
    BY <2>1 DEF LUM!checkSignatures
  <2> HIDE DEF t
  <2>5. \A i \in 2..t : s[i - 1] < s[i]
    BY <2>2, <2>3, <2>4
  <2>6. \A i, j \in 1..t : i < j => s[i] < s[j]
    BY <2>2, <2>3, <2>5, StepwiseAscends
  <2>7. \A i, j \in 1..t : s[i] = s[j] => i = j
    BY <2>2, <2>3, <2>6
  <2>8. \A x : x \in S <=> \E i \in 1..t : x = s[i]
    OBVIOUS
  <2>9. S \subseteq LUM!Linked(wallets[w]) /\ S \subseteq {s[i] : i \in DOMAIN s}
    BY <2>3, <2>4 DEF LUM!Linked, LUM!NoOwner, LUM!Addr
  <2> HIDE DEF S
  <2>10. Cardinality(S) = t
    BY <2>2, <2>7, <2>8, DistinctValues
  <2>11. LUM!QuorumOf(w, S)
    BY <2>1, <2>9, <2>10 DEF LUM!QuorumOf, LUM!Cardinality, Cardinality
  <2>12. QED
    BY Zenon, <2>9, <2>11
<1>4. QED
  BY <1>2, <1>3

LEMMA FramesPush ==
    ASSUME NEW st, Frames(st), st # << >> => st[Len(st)].destination # Manager,
           NEW frame, frame.request \in Request, \E n \in Nat : frame.signers \in [1..n -> Owner],
           WalletsOK(frame.saved.wallets, frame.saved.luws),
           NEW more, more = Append(st, frame)
    PROVE  Frames(more) /\ more # << >> /\ more[Len(more)] = frame
<1>1. PICK S : st \in Seq(S)
  BY DEF Frames
<1>2. /\ Len(st) \in Nat
      /\ more \in Seq(S \union {frame}) /\ more # << >>
      /\ Len(more) = Len(st) + 1
      /\ more[Len(st) + 1] = frame
      /\ \A i \in 1..Len(st) : more[i] = st[i]
  BY <1>1
<1>3. ASSUME NEW i \in 1..Len(more)
      PROVE  /\ more[i].request \in Request
             /\ \E n \in Nat : more[i].signers \in [1..n -> Owner]
             /\ WalletsOK(more[i].saved.wallets, more[i].saved.luws)
             /\ i # Len(more) => more[i].destination # Manager
  <2>1. CASE i = Len(st) + 1
    BY <1>2, <2>1
  <2>2. CASE i # Len(st) + 1
    <3>1. i \in 1..Len(st) /\ more[i] = st[i]
      BY <1>2, <2>2
    <3>2. st # << >>
      BY <1>1, <3>1
    <3>3. QED
      BY <3>1, <3>2 DEF Frames
  <2>3. QED
    BY <2>1, <2>2
<1>4. QED
  BY <1>2, <1>3 DEF Frames

\* A call on the LicensedUserManager is the innermost, so none is left when a call ends.
LEMMA FramesPop ==
    ASSUME NEW st, Frames(st), st # << >>,
           NEW fewer, fewer = SubSeq(st, 1, Len(st) - 1)
    PROVE  Frames(fewer) /\ (fewer # << >> => fewer[Len(fewer)].destination # Manager)
<1>1. PICK S : st \in Seq(S)
  BY DEF Frames
<1>2. /\ Len(st) \in Nat /\ Len(st) > 0
      /\ fewer \in Seq(S)
      /\ Len(fewer) = Len(st) - 1
      /\ \A i \in 1..(Len(st) - 1) : fewer[i] = st[i]
  BY <1>1, PopFacts
<1>3. ASSUME NEW i \in 1..Len(fewer)
      PROVE  /\ fewer[i].request \in Request
             /\ \E n \in Nat : fewer[i].signers \in [1..n -> Owner]
             /\ WalletsOK(fewer[i].saved.wallets, fewer[i].saved.luws)
             /\ fewer[i].destination # Manager
  <2>1. i \in 1..Len(st) /\ fewer[i] = st[i] /\ i # Len(st)
    BY <1>2
  <2>2. QED
    BY <2>1 DEF Frames
<1>4. fewer # << >> => Len(fewer) \in 1..Len(fewer)
  BY <1>2
<1>5. QED
  BY <1>2, <1>3, <1>4 DEF Frames

\* The top call, as the other steps see it.
LEMMA TopCall ==
    ASSUME ConsentInv, stack # << >>
    PROVE  /\ Top.request \in Request /\ Top.request.from \in Sender
           /\ Top.request.operation \in Operation
           /\ \E n \in Nat : Top.signers \in [1..n -> Owner]
           /\ WalletsOK(Top.saved.wallets, Top.saved.luws)
<1>1. Len(stack) \in 1..Len(stack)
  BY DEF ConsentInv, Frames
<1>2. QED
  BY <1>1, RequestAssumption DEF ConsentInv, Frames, Top

LEMMA ConsentInit ==
    ASSUME Init
    PROVE  ConsentInv
<1>1. \A w \in Wallet : StructOK(LUM!EmptyWallet)
  BY DEF StructOK, LUM!EmptyWallet
<1>2. WalletsOK(wallets, luws)
  <2>1. /\ wallets = [w \in Wallet |-> LUM!EmptyWallet]
        /\ luws = [w \in Wallet |-> LUM!NoLicensedUser]
    BY DEF Init, LUM!Init, LUM!OMInit
  <2>2. QED
    BY <1>1, <2>1 DEF WalletsOK
<1>3. stack = << >> /\ stack \in Seq({}) /\ Len(stack) = 0
  BY DEF Init
<1>4. QED
  BY <1>2, <1>3 DEF ConsentInv, Frames

LEMMA ConsentStep ==
    ASSUME ConsentInv, [Next]_vars
    PROVE  ConsentInv'
<1>1. ASSUME UNCHANGED <<wallets, luws, stack>>
      PROVE  ConsentInv'
  BY <1>1 DEF ConsentInv, Top, Signed, ValidEOASignature, ValidLUWSignatures,
     LUM!isValidSignatureSet, LUM!isActiveWallet, LUM!isSingleOwner, LUM!checkSignatures
<1>2. CASE \E target \in TypeTargets : registerRequestType(target[1], target[2])
  BY <1>1, <1>2 DEF registerRequestType, walletVars
<1>3. CASE \E h \in TypeHash : unregisterRequestType(h)
  BY <1>1, <1>3 DEF unregisterRequestType, walletVars
<1>4. CASE \E registered \in SUBSET Collection : setCollectionRegistry(registered)
  BY <1>1, <1>4 DEF setCollectionRegistry, walletVars
<1>5. CASE AdministerWallet
  <2>1. PICK w \in Wallet : LUM!WalletCall(Administrator, w)
    BY <1>5 DEF AdministerWallet
  <2>2. WalletsOK(wallets', luws')
    BY <2>1, CallTouches DEF ConsentInv, Touches, Touched
  <2>3. stack' = stack /\ stack = << >>
    BY <1>5 DEF AdministerWallet
  <2>4. QED
    BY <2>2, <2>3 DEF ConsentInv
<1>6. CASE \E r \in Request : Relay(r)
  <2>1. PICK r \in Request : Relay(r)
    BY <1>6
  <2>2. PICK n \in 0..MaxSignatures : \E signers \in [1..n -> Owner] : executeTransaction(r, signers)
    BY <2>1 DEF Relay
  <2>3. PICK signers \in [1..n -> Owner] : executeTransaction(r, signers)
    BY <2>2
  <2> DEFINE frame == [request |-> r, signers |-> signers,
                       destination |-> DestinationOf(r), saved |-> Journal]
  <2>4. /\ stack' = Append(stack, frame)
        /\ wallets' = wallets /\ luws' = luws
        /\ stack # << >> => stack[Len(stack)].destination # Manager
        /\ ValidEOASignature(r, signers) \/ ValidLUWSignatures(r, signers)
    BY <2>3 DEF executeTransaction, walletVars
  <2>5. /\ frame.request = r /\ frame.signers = signers
        /\ frame.saved.wallets = wallets /\ frame.saved.luws = luws
    BY DEF Journal
  <2>6. \E k \in Nat : frame.signers \in [1..k -> Owner]
    BY <2>5, BoundAssumption
  <2> HIDE DEF frame
  <2>7. Frames(stack') /\ stack' # << >> /\ stack'[Len(stack')] = frame
    BY <2>4, <2>5, <2>6, FramesPush DEF ConsentInv
  <2>8. Signed(frame)
    BY <2>4, <2>5 DEF Signed
  <2>9. Signed(Top)'
    BY <2>4, <2>7, <2>8 DEF Top, Signed, ValidEOASignature, ValidLUWSignatures,
       LUM!isValidSignatureSet, LUM!isActiveWallet, LUM!isSingleOwner, LUM!checkSignatures
  <2>10. QED
    BY <2>4, <2>7, <2>9 DEF ConsentInv
<1>7. ASSUME stack # << >>, stack' = Pop, WalletsOK(wallets', luws')
      PROVE  ConsentInv'
  BY <1>7, FramesPop DEF ConsentInv, Pop, Top
<1>8. CASE CallSucceeds
  <2>1. stack # << >> /\ stack' = Pop
    BY <1>8 DEF CallSucceeds
  <2>2. CASE Top.destination = Manager
    <3>1. CallManager(Top.request.from, Top.request.operation)
      BY <1>8, <2>2 DEF CallSucceeds
    <3>2. \E w \in Wallet : Touches(w)
      BY <2>1, <3>1, TopCall, RequestTouches DEF ConsentInv
    <3>3. QED
      BY <1>7, <2>1, <3>2 DEF Touches, Touched
  <2>3. CASE Top.destination # Manager
    BY <1>7, <1>8, <2>1, <2>3 DEF CallSucceeds, walletVars, ConsentInv
  <2>4. QED
    BY <2>2, <2>3
<1>9. CASE CallReverts
  BY <1>7, <1>9, TopCall DEF CallReverts
<1>10. CASE UNCHANGED vars
  BY <1>1, <1>10 DEF vars
<1>11. QED
  BY Zenon, <1>2, <1>3, <1>4, <1>5, <1>6, <1>8, <1>9, <1>10 DEF Next

\* The signing rule of a wallet is what its own entries say.
LEMMA RuleUnchanged ==
    ASSUME NEW w, wallets'[w] = wallets[w], luws'[w] = luws[w]
    PROVE  SigningRule(w)' = SigningRule(w)
BY DEF SigningRule, LUM!OwnersOf, LUM!getThreshold, LUM!isSingleOwner, LUM!Linked

LEMMA StepConsented ==
    ASSUME ConsentInv, [Next]_vars, NEW w \in Wallet, SigningRule(w)' # SigningRule(w)
    PROVE  AdministerWallet \/ CallReverts \/ Consented(w)
<1>1. ~(UNCHANGED walletVars)
  BY RuleUnchanged DEF walletVars
<1>2. AdministerWallet \/ CallReverts \/ CallSucceeds
  BY <1>1 DEF Next, vars, walletVars, registerRequestType, unregisterRequestType,
     setCollectionRegistry, Relay, executeTransaction
<1>3. CASE CallSucceeds
  <2>1. /\ stack # << >> /\ Top.destination = Manager
        /\ CallManager(Top.request.from, Top.request.operation)
    BY <1>1, <1>3 DEF CallSucceeds
  <2>2. /\ Top.request.from \in Sender /\ Top.request.operation \in Operation
        /\ Signed(Top)
    BY <2>1, TopCall DEF ConsentInv
  <2>3. PICK n \in Nat : Top.signers \in [1..n -> Owner]
    BY <2>1, TopCall
  <2>4. PICK v \in Wallet : Touches(v) /\ (Top.request.from = v \/ Top.request.from = Administrator)
    BY <2>1, <2>2, RequestTouches DEF ConsentInv
  <2>5. v = w /\ Top.request.from = w
    BY <2>2, <2>4, RuleUnchanged, AddressAssumption DEF Touches, Touched
  <2>6. w \notin Owner
    BY AddressAssumption
  <2>7. ~ValidEOASignature(Top.request, Top.signers)
    BY <2>3, <2>5, <2>6 DEF ValidEOASignature
  <2>8. LUM!isValidSignatureSet(w, Top.signers)
    BY <2>2, <2>5, <2>7 DEF Signed, ValidLUWSignatures
  <2>9. \E S \in SUBSET {Top.signers[i] : i \in DOMAIN Top.signers} : LUM!QuorumOf(w, S)
    BY <2>3, <2>8, AcceptedIsQuorum DEF ConsentInv
  <2>10. QED
    BY Zenon, <2>1, <2>5, <2>9 DEF Consented
<1>4. QED
  BY <1>2, <1>3

\* Apart from the administrator, nobody changes who signs for a wallet, or how many must,
\* without the signatures of a quorum of its present owners on the very request that is
\* carried out, at any depth of nested calls and after any reverts.
THEOREM OwnersChangeByConsentHolds == Spec => OwnersChangeByConsent
<1>1. Init => ConsentInv
  BY ConsentInit
<1>2. ConsentInv /\ [Next]_vars => ConsentInv'
  BY ConsentStep
<1>3. ConsentInv /\ [Next]_vars =>
         [\A w \in Wallet : SigningRule(w)' # SigningRule(w)
                               => AdministerWallet \/ CallReverts \/ Consented(w)]_vars
  BY StepConsented
<1>4. QED
  BY <1>1, <1>2, <1>3, PTL DEF Spec, OwnersChangeByConsent
=============================================================================
