------------------------ MODULE DirectMessageProofs ------------------------
(***************************************************************************)
(* What is proved of direct messages, for every value of the constants:    *)
(*   - SealRatchet, one session: it keeps its types and implements         *)
(*     OnceChannel; opened keys are gone, the budget recovers, and genuine *)
(*     traffic opens.  The first two follow from IInv, one party at a      *)
(*     time; the others need InStep, which relates the two parties' chains *)
(*     to what was sent;                                                   *)
(*   - SealSessions, the sessions two peers open with one another: one-time*)
(*     prekeys serve once, and the sessions together still implement       *)
(*     OnceChannel.  Both follow from SessionsInv;                         *)
(*   - RecipientInbox, how an operation reaches its recipient through the  *)
(*     holders: what is sent stays in custody, what is applied is applied  *)
(*     once, full windows are scanned, quota is not lost.  InboxInv.       *)
(* The three share no state: a session seals what an operation carries.    *)
(***************************************************************************)
EXTENDS SealRatchet, SealSessions, RecipientInbox,
        FiniteSetTheorems, FunctionTheorems, SequenceTheorems, WellFoundedInduction, TLAPS

----------------------------------------------------------------------------
(* The pure steps of the ratchet. *)

\* A ratchet state is a record: its fields have their types, and a record built
\* from such fields is a state.
LEMMA StateFields ==
    ASSUME NEW s \in RatchetState
    PROVE  /\ s.root \in Seq(SUBSET KeyPair)
           /\ s.sendChain \in ChainKey /\ s.recvChain \in ChainKey
           /\ s.sendCounter \in Nat /\ s.recvCounter \in Nat
           /\ s.prevSendChainLen \in Nat
           /\ s.sendPub \in KeyPair /\ s.remotePub \in KeyPair
           /\ s.skipList \in SUBSET SkipEntry
BY DEF RatchetState

\* Advancing a chain key keeps its derivation and adds to its step.
LEMMA AdvanceChain ==
    ASSUME NEW k \in ChainKey, NEW n \in Nat
    PROVE  /\ Advance(k, n) \in ChainKey
           /\ Advance(k, n).dh = k.dh
           /\ Advance(k, n).step = k.step + n
BY DEF Advance, ChainKey

\* Pruning only shortens the skip list.
LEMMA PruneState ==
    ASSUME NEW s \in RatchetState, NEW t \in Nat, NEW w, w = Prune(s, t)
    PROVE  /\ w \in RatchetState
           /\ w.skipList \subseteq s.skipList
           /\ w.root = s.root /\ w.sendChain = s.sendChain
           /\ w.sendCounter = s.sendCounter /\ w.sendPub = s.sendPub
           /\ w.remotePub = s.remotePub
           /\ w.recvChain = s.recvChain /\ w.recvCounter = s.recvCounter
BY DEF Prune, RatchetState

\* Filing the keys of a gap advances the receive chain to the target and files
\* only keys of that gap, under the given ratchet key.
SkipFacts(s, pub, target, u) ==
    /\ u \in RatchetState
    /\ u.root = s.root /\ u.sendChain = s.sendChain
    /\ u.sendCounter = s.sendCounter /\ u.sendPub = s.sendPub
    /\ u.remotePub = s.remotePub
    /\ u.recvChain.dh = s.recvChain.dh
    /\ s.recvChain.step = s.recvCounter => u.recvChain.step = u.recvCounter
    /\ u.recvCounter = (IF target > s.recvCounter THEN target ELSE s.recvCounter)
    /\ \A e \in u.skipList :
          \/ e \in s.skipList
          \/ /\ e.pub = pub
             /\ s.recvCounter <= e.counter /\ e.counter < target
             /\ e.key.dh = s.recvChain.dh

LEMMA SkipState ==
    ASSUME NEW s \in RatchetState, NEW pub \in KeyPair, NEW target \in Nat, NEW t \in Nat,
           NEW u, u = SkipMessages(s, pub, target, t)
    PROVE  SkipFacts(s, pub, target, u)
<1> DEFINE gap == Skipped(s, pub, target, t)
<1>f. /\ s.recvChain \in ChainKey /\ s.recvCounter \in Nat
      /\ s.skipList \in SUBSET SkipEntry
  BY StateFields
<1>1. CASE s.recvCounter >= target
  <2>1. u = s
    BY <1>1 DEF SkipMessages
  <2> QED
    BY <1>1, <1>f, <2>1 DEF SkipFacts
<1>2. CASE ~(s.recvCounter >= target)
  <2>1. s.recvCounter < target /\ target - s.recvCounter \in Nat
    BY <1>2, <1>f
  <2>2. u = [s EXCEPT
               !.skipList = {e \in @ : ~(e.pub = pub /\ e.counter \in s.recvCounter .. (target - 1))}
                              \cup gap,
               !.recvChain = Advance(@, target - s.recvCounter),
               !.recvCounter = target]
    BY <1>2 DEF SkipMessages
  <2>3. \A e \in gap : /\ e \in SkipEntry
                       /\ e.pub = pub
                       /\ s.recvCounter <= e.counter /\ e.counter < target
                       /\ e.key.dh = s.recvChain.dh
    <3>1. SUFFICES ASSUME NEW c \in s.recvCounter .. (target - 1)
          PROVE  LET e == [pub |-> pub, counter |-> c,
                           key |-> Advance(s.recvChain, c - s.recvCounter), addedAt |-> t]
                 IN  /\ e \in SkipEntry
                     /\ e.pub = pub
                     /\ s.recvCounter <= e.counter /\ e.counter < target
                     /\ e.key.dh = s.recvChain.dh
      BY DEF Skipped
    <3>2. c \in Nat /\ c - s.recvCounter \in Nat /\ s.recvCounter <= c /\ c < target
      BY <1>f
    <3>3. /\ Advance(s.recvChain, c - s.recvCounter) \in ChainKey
          /\ Advance(s.recvChain, c - s.recvCounter).dh = s.recvChain.dh
      BY <3>2, <1>f, AdvanceChain
    <3> QED
      BY <3>2, <3>3 DEF SkipEntry
  <2>4. /\ u.recvChain = Advance(s.recvChain, target - s.recvCounter)
        /\ u.recvCounter = target
        /\ u.skipList = {e \in s.skipList :
                            ~(e.pub = pub /\ e.counter \in s.recvCounter .. (target - 1))} \cup gap
    BY <2>2 DEF RatchetState
  <2>5. /\ u.recvChain \in ChainKey /\ u.recvChain.dh = s.recvChain.dh
        /\ u.recvChain.step = s.recvChain.step + (target - s.recvCounter)
    BY <2>1, <2>4, <1>f, AdvanceChain
  <2>6. u.skipList \in SUBSET SkipEntry
    BY <2>3, <2>4, <1>f
  <2>7. u \in RatchetState
    BY <2>2, <2>4, <2>5, <2>6 DEF RatchetState
  <2>8. /\ u.root = s.root /\ u.sendChain = s.sendChain
        /\ u.sendCounter = s.sendCounter /\ u.sendPub = s.sendPub
        /\ u.remotePub = s.remotePub
    BY <2>2 DEF RatchetState
  <2>9. s.recvChain.step = s.recvCounter => u.recvChain.step = u.recvCounter
    BY <2>4, <2>5, <1>f
  <2> QED
    BY <2>1, <2>3, <2>4, <2>5, <2>7, <2>8, <2>9, <1>f DEF SkipFacts
<1> QED
  BY <1>1, <1>2, <1>f

\* A DH step starts a fresh receive chain one output deeper than the root and a
\* root one deeper still, and keeps only skipped keys of the chain it leaves.
StepFacts(s, pub, pair, v) ==
    /\ v \in RatchetState
    /\ v.skipList = {e \in s.skipList : e.pub = s.remotePub}
    /\ v.recvChain.step = 0 /\ v.recvCounter = 0
    /\ v.sendChain.step = 0 /\ v.sendCounter = 0
    /\ v.sendPub = pair /\ v.remotePub = pub
    /\ Len(v.recvChain.dh) = Len(s.root) + 1
    /\ Len(v.root) = Len(s.root) + 2

LEMMA StepState ==
    ASSUME NEW s \in RatchetState, NEW pub \in KeyPair, NEW pair \in KeyPair,
           NEW v, v = DhRatchetStep(s, pub, pair)
    PROVE  StepFacts(s, pub, pair, v)
<1> DEFINE recvRoot == Append(s.root, DhOutput(s.sendPub, pub))
           sendRoot == Append(recvRoot, DhOutput(pair, pub))
<1>f. /\ s.root \in Seq(SUBSET KeyPair) /\ s.sendPub \in KeyPair
      /\ s.sendCounter \in Nat /\ s.skipList \in SUBSET SkipEntry
  BY StateFields
<1>1. recvRoot \in Seq(SUBSET KeyPair) /\ Len(recvRoot) = Len(s.root) + 1
  BY <1>f DEF DhOutput
<1>2. sendRoot \in Seq(SUBSET KeyPair) /\ Len(sendRoot) = Len(s.root) + 2
  BY <1>1, <1>f DEF DhOutput
<1>3. ChainFrom(recvRoot) \in ChainKey /\ ChainFrom(sendRoot) \in ChainKey
  BY <1>1, <1>2 DEF ChainFrom, ChainKey
<1>4. v = [root |-> sendRoot,
           sendChain |-> ChainFrom(sendRoot), recvChain |-> ChainFrom(recvRoot),
           sendCounter |-> 0, recvCounter |-> 0, prevSendChainLen |-> s.sendCounter,
           sendPub |-> pair, remotePub |-> pub,
           skipList |-> {e \in s.skipList : e.pub = s.remotePub}]
  BY DEF DhRatchetStep
<1> HIDE DEF recvRoot, sendRoot
<1>5. v \in RatchetState
  <2>1. {e \in s.skipList : e.pub = s.remotePub} \in SUBSET SkipEntry
    BY <1>f
  <2> QED
    BY <2>1, <1>1, <1>2, <1>3, <1>4, <1>f DEF RatchetState
<1>6. /\ v.skipList = {e \in s.skipList : e.pub = s.remotePub}
      /\ v.recvChain = ChainFrom(recvRoot) /\ v.sendChain = ChainFrom(sendRoot)
      /\ v.recvCounter = 0 /\ v.sendCounter = 0
      /\ v.root = sendRoot /\ v.sendPub = pair /\ v.remotePub = pub
  BY <1>4
<1>7. /\ ChainFrom(recvRoot).dh = recvRoot /\ ChainFrom(recvRoot).step = 0
      /\ ChainFrom(sendRoot).step = 0
  BY DEF ChainFrom
<1> QED
  BY <1>1, <1>2, <1>3, <1>5, <1>6, <1>7 DEF StepFacts

----------------------------------------------------------------------------
(* The inductive invariant, one party at a time. *)

\* Chains and counters move together; the receive chain is never deeper than the
\* root, except for the initiator's zero chain before the first reply; no skipped
\* key lies ahead of the current receive chain or deeper than the root.
Sane(s) ==
    /\ s.sendChain.step = s.sendCounter
    /\ s.recvChain.step = s.recvCounter
    /\ \/ Len(s.recvChain.dh) <= Len(s.root)
       \/ s.remotePub = SPK /\ Len(s.recvChain.dh) = 1
    /\ \A e \in s.skipList : /\ e.pub = s.remotePub => e.counter < s.recvCounter
                             /\ Len(e.key.dh) <= Len(s.root)

\* No key of a message in A can be found again from s.
Spent(s, A) ==
    \A m \in A : /\ Len(m.key.dh) <= Len(s.root)
                 /\ m.pub = s.remotePub => m.counter < s.recvCounter
                 /\ \A e \in s.skipList : ~(e.pub = m.pub /\ e.counter = m.counter)

\* What every ciphertext on the network satisfies.
Wellformed(S) ==
    /\ \A m \in S : m.pub # SPK /\ m.key.step = m.counter
    /\ \A m, n \in S : m.pub = n.pub => m.key.dh = n.key.dh

\* Pruning preserves both.
LEMMA PruneKeeps ==
    ASSUME NEW s \in RatchetState, NEW t \in Nat, NEW A \in SUBSET Message,
           NEW w, w = Prune(s, t), Sane(s), Spent(s, A)
    PROVE  w \in RatchetState /\ Sane(w) /\ Spent(w, A)
BY PruneState DEF Sane, Spent

\* m is opened, for the first time, by committing u, which keeps w's send half.
OpenedKeeping(u, A, m, w) ==
    /\ u \in RatchetState /\ m \notin A /\ Sane(u) /\ Spent(u, A \cup {m})
    /\ u.sendPub = w.sendPub /\ u.sendChain = w.sendChain
    /\ u.sendCounter = w.sendCounter

\* Opening with a skipped key: the message was not opened before, and is spent.
LEMMA FiledKeeps ==
    ASSUME NEW w \in RatchetState, NEW A \in SUBSET Message, NEW m \in Message,
           Sane(w), Spent(w, A), OpensFiled(w, m), NEW u, u = AfterFiled(w, m)
    PROVE  OpenedKeeping(u, A, m, w)
<1>1. PICK e \in w.skipList : e.pub = m.pub /\ e.counter = m.counter /\ e.key = m.key
  BY DEF OpensFiled, Filed
<1>2. m \notin A
  BY <1>1 DEF Spent
<1>3. u.skipList = w.skipList \ Filed(w, m) /\ u = [w EXCEPT !.skipList = u.skipList]
  BY DEF AfterFiled, RatchetState
<1>4. /\ u.root = w.root /\ u.sendChain = w.sendChain /\ u.recvChain = w.recvChain
      /\ u.sendCounter = w.sendCounter /\ u.recvCounter = w.recvCounter
      /\ u.sendPub = w.sendPub /\ u.remotePub = w.remotePub /\ u \in RatchetState
  BY <1>3 DEF RatchetState
<1>5. Sane(u)
  BY <1>3, <1>4 DEF Sane
<1>6. \A f \in u.skipList : ~(f.pub = m.pub /\ f.counter = m.counter)
  BY <1>3 DEF Filed
<1>7. Len(m.key.dh) <= Len(u.root) /\ (m.pub = u.remotePub => m.counter < u.recvCounter)
  BY <1>1, <1>4 DEF Sane
<1>8. Spent(u, A)
  BY <1>3, <1>4 DEF Spent
<1> QED
  BY <1>2, <1>4, <1>5, <1>6, <1>7, <1>8 DEF Spent, OpenedKeeping

\* Taking the next key of the receive chain.
LEMMA TakeState ==
    ASSUME NEW s \in RatchetState, NEW u, u = TakeChainKey(s)
    PROVE  /\ u \in RatchetState
           /\ u.root = s.root /\ u.sendChain = s.sendChain /\ u.sendPub = s.sendPub
           /\ u.sendCounter = s.sendCounter /\ u.remotePub = s.remotePub
           /\ u.skipList = s.skipList /\ u.recvChain.dh = s.recvChain.dh
           /\ u.recvChain.step = s.recvChain.step + 1
           /\ u.recvCounter = s.recvCounter + 1
<1>1. s.recvChain \in ChainKey /\ s.recvCounter \in Nat
  BY StateFields
<1>2. /\ Advance(s.recvChain, 1) \in ChainKey
      /\ Advance(s.recvChain, 1).dh = s.recvChain.dh
      /\ Advance(s.recvChain, 1).step = s.recvChain.step + 1
  BY <1>1, AdvanceChain
<1> DEFINE k == Advance(s.recvChain, 1)
           n == s.recvCounter + 1
<1>3. u = [s EXCEPT !.recvChain = k, !.recvCounter = n]
  BY DEF TakeChainKey
<1>4. k \in ChainKey /\ n \in Nat
  BY <1>1, <1>2
<1> HIDE DEF k, n
<1>5. /\ u \in RatchetState
      /\ u.root = s.root /\ u.sendChain = s.sendChain /\ u.sendPub = s.sendPub
      /\ u.sendCounter = s.sendCounter /\ u.remotePub = s.remotePub
      /\ u.skipList = s.skipList /\ u.recvChain = k /\ u.recvCounter = n
  BY <1>3, <1>4 DEF RatchetState
<1> QED
  BY <1>2, <1>5 DEF k, n

\* Opening on the current receive chain.
LEMMA InChainKeeps ==
    ASSUME NEW w \in RatchetState, NEW t \in Nat, NEW S \in SUBSET Message,
           NEW A \in SUBSET S, NEW m \in S, Wellformed(S),
           Sane(w), Spent(w, A), OpensInChain(w, m, t), NEW u, u = AfterInChain(w, m, t)
    PROVE  OpenedKeeping(u, A, m, w)
<1> DEFINE c == Caught(w, m, t)
<1>m. m \in Message /\ m.pub \in KeyPair /\ m.counter \in Nat /\ m.key \in ChainKey
  BY DEF Message
<1>w. /\ w.recvCounter \in Nat /\ w.recvChain \in ChainKey /\ w.sendChain \in ChainKey
      /\ w.root \in Seq(SUBSET KeyPair)
  BY StateFields
<1>c. c = SkipMessages(w, m.pub, m.counter, t)
  BY DEF Caught
<1> HIDE DEF c
<1>f. SkipFacts(w, m.pub, m.counter, c)
  BY <1>c, <1>m, SkipState, Zenon
<1>1. /\ c \in RatchetState
      /\ c.root = w.root /\ c.sendChain = w.sendChain
      /\ c.sendCounter = w.sendCounter /\ c.sendPub = w.sendPub
      /\ c.remotePub = w.remotePub
      /\ c.recvChain.dh = w.recvChain.dh
      /\ w.recvChain.step = w.recvCounter => c.recvChain.step = c.recvCounter
      /\ c.recvCounter = (IF m.counter > w.recvCounter THEN m.counter ELSE w.recvCounter)
      /\ \A e \in c.skipList :
            \/ e \in w.skipList
            \/ /\ e.pub = m.pub
               /\ w.recvCounter <= e.counter /\ e.counter < m.counter
               /\ e.key.dh = w.recvChain.dh
  BY <1>f DEF SkipFacts
<1>3. m.pub = w.remotePub /\ c.recvChain = m.key /\ Filed(w, m) = {}
  BY DEF OpensInChain, c
<1>4. m.counter = c.recvCounter /\ m.counter >= w.recvCounter
  BY <1>1, <1>3, <1>m, <1>w DEF Wellformed, Sane
<1>5. m \notin A
  BY <1>3, <1>4, <1>m, <1>w DEF Spent
<1>6. /\ u \in RatchetState
      /\ u.root = c.root /\ u.sendChain = c.sendChain /\ u.sendPub = c.sendPub
      /\ u.sendCounter = c.sendCounter /\ u.remotePub = c.remotePub
      /\ u.skipList = c.skipList /\ u.recvChain.dh = c.recvChain.dh
      /\ u.recvChain.step = c.recvChain.step + 1
      /\ u.recvCounter = c.recvCounter + 1
  BY <1>1, TakeState DEF AfterInChain, c
<1>7. Len(w.recvChain.dh) <= Len(w.root)
  BY <1>3 DEF Wellformed, Sane
<1>e. \A e \in c.skipList : e \in SkipEntry /\ e.counter \in Nat
  BY <1>1, StateFields DEF SkipEntry
<1>8. Sane(u)
  <2>1. u.sendChain.step = u.sendCounter /\ u.recvChain.step = u.recvCounter
    BY <1>1, <1>6 DEF Sane
  <2>2. Len(u.recvChain.dh) <= Len(u.root)
    BY <1>1, <1>6, <1>7
  <2>3. ASSUME NEW e \in u.skipList
        PROVE  /\ e.pub = u.remotePub => e.counter < u.recvCounter
               /\ Len(e.key.dh) <= Len(u.root)
    BY <1>1, <1>4, <1>6, <1>7, <1>e, <1>m, <1>w DEF Sane
  <2> QED
    BY <2>1, <2>2, <2>3 DEF Sane
<1>9. Spent(u, A)
  <2>1. SUFFICES ASSUME NEW n \in A
        PROVE  /\ Len(n.key.dh) <= Len(u.root)
               /\ n.pub = u.remotePub => n.counter < u.recvCounter
               /\ \A e \in u.skipList : ~(e.pub = n.pub /\ e.counter = n.counter)
    BY DEF Spent
  <2>2. n \in Message /\ n.counter \in Nat
    BY DEF Message
  <2> QED
    BY <2>2, <1>1, <1>3, <1>4, <1>6, <1>e, <1>m, <1>w DEF Spent
<1>10. Spent(u, {m})
  <2>1. Len(m.key.dh) <= Len(u.root) /\ m.counter < u.recvCounter
    BY <1>1, <1>3, <1>4, <1>6, <1>7, <1>m
  <2>2. \A e \in u.skipList : ~(e.pub = m.pub /\ e.counter = m.counter)
    BY <1>1, <1>3, <1>6, <1>e, <1>m DEF Filed
  <2> QED
    BY <2>1, <2>2 DEF Spent
<1> QED
  BY <1>1, <1>5, <1>6, <1>8, <1>9, <1>10 DEF Spent, OpenedKeeping

\* The state committed when a DH step leads to the message with counter n of pub,
\* whose key was found at chain k.
NewChainFacts(w, pub, n, pair, k, u) ==
    /\ u \in RatchetState
    /\ u.sendPub = pair /\ u.remotePub = pub
    /\ u.sendChain.step = 0 /\ u.sendCounter = 0
    /\ u.recvChain.step = n + 1 /\ u.recvCounter = n + 1
    /\ u.recvChain.dh = k.dh
    /\ Len(u.recvChain.dh) = Len(w.root) + 1
    /\ Len(u.root) = Len(w.root) + 2
    /\ \A e \in u.skipList :
          \/ /\ e.pub = w.remotePub
             /\ e \in w.skipList \/ ( /\ w.recvCounter <= e.counter
                                     /\ e.key.dh = w.recvChain.dh )
          \/ /\ e.pub = pub
             /\ e.counter < n
             /\ Len(e.key.dh) = Len(w.root) + 1

LEMMA NewChainState ==
    ASSUME NEW w \in RatchetState, NEW prev \in Nat, NEW pub \in KeyPair, NEW n \in Nat,
           NEW pair \in KeyPair, NEW t \in Nat,
           NEW x, x = SkipMessages(w, w.remotePub, prev, t),
           NEW v, v = DhRatchetStep(x, pub, pair),
           NEW c, c = SkipMessages(v, pub, n, t),
           NEW u, u = TakeChainKey(c)
    PROVE  NewChainFacts(w, pub, n, pair, c.recvChain, u)
<1>w. w.remotePub \in KeyPair
  BY StateFields
<1>x. SkipFacts(w, w.remotePub, prev, x)
  BY <1>w, SkipState, Zenon
<1>1. /\ x \in RatchetState /\ x.root = w.root /\ x.remotePub = w.remotePub
      /\ x.recvChain.dh = w.recvChain.dh
      /\ \A e \in x.skipList :
            \/ e \in w.skipList
            \/ /\ e.pub = w.remotePub
               /\ w.recvCounter <= e.counter /\ e.counter < prev
               /\ e.key.dh = w.recvChain.dh
  BY <1>x DEF SkipFacts
<1>v. StepFacts(x, pub, pair, v)
  BY <1>1, StepState, Zenon
<1>2. /\ v \in RatchetState
      /\ v.skipList = {e \in x.skipList : e.pub = x.remotePub}
      /\ v.recvChain.step = 0 /\ v.recvCounter = 0
      /\ v.sendChain.step = 0 /\ v.sendCounter = 0
      /\ v.sendPub = pair /\ v.remotePub = pub
      /\ Len(v.recvChain.dh) = Len(w.root) + 1
      /\ Len(v.root) = Len(w.root) + 2
  BY <1>v, <1>1 DEF StepFacts
<1>c. SkipFacts(v, pub, n, c)
  BY <1>2, SkipState, Zenon
<1>3. /\ c \in RatchetState
      /\ c.root = v.root /\ c.sendChain = v.sendChain
      /\ c.sendCounter = v.sendCounter /\ c.sendPub = v.sendPub
      /\ c.remotePub = v.remotePub
      /\ c.recvChain.dh = v.recvChain.dh
      /\ v.recvChain.step = v.recvCounter => c.recvChain.step = c.recvCounter
      /\ c.recvCounter = (IF n > v.recvCounter THEN n ELSE v.recvCounter)
      /\ \A e \in c.skipList :
            \/ e \in v.skipList
            \/ /\ e.pub = pub
               /\ v.recvCounter <= e.counter /\ e.counter < n
               /\ e.key.dh = v.recvChain.dh
  BY <1>c DEF SkipFacts
<1>4. /\ u \in RatchetState
      /\ u.root = c.root /\ u.sendChain = c.sendChain /\ u.sendPub = c.sendPub
      /\ u.sendCounter = c.sendCounter /\ u.remotePub = c.remotePub
      /\ u.skipList = c.skipList /\ u.recvChain.dh = c.recvChain.dh
      /\ u.recvChain.step = c.recvChain.step + 1
      /\ u.recvCounter = c.recvCounter + 1
  BY <1>3, TakeState
<1>5. c.recvCounter = n /\ c.recvChain.step = n
  BY <1>2, <1>3
<1>6. ASSUME NEW e \in u.skipList
      PROVE  \/ /\ e.pub = w.remotePub
                /\ e \in w.skipList \/ ( /\ w.recvCounter <= e.counter
                                        /\ e.key.dh = w.recvChain.dh )
             \/ /\ e.pub = pub
                /\ e.counter < n
                /\ Len(e.key.dh) = Len(w.root) + 1
  BY <1>1, <1>2, <1>3, <1>4
<1> QED
  BY <1>2, <1>3, <1>4, <1>5, <1>6 DEF NewChainFacts

\* m is opened, for the first time, by committing u with the fresh pair.
OpenedWith(u, A, m, pair) ==
    /\ u \in RatchetState /\ m \notin A /\ Sane(u) /\ Spent(u, A \cup {m})
    /\ u.sendPub = pair

\* Opening after a DH step.  The new receive chain is deeper than every chain of
\* an opened message, and a ratchet key has one chain, so no opened message is of
\* the chain that is entered.
LEMMA NewChainKeeps ==
    ASSUME NEW w \in RatchetState, NEW t \in Nat, NEW pair \in KeyPair,
           NEW S \in SUBSET Message, NEW A \in SUBSET S, NEW m \in S, Wellformed(S),
           Sane(w), Spent(w, A), OpensNewChain(w, m, pair, t),
           NEW u, u = AfterNewChain(w, m, pair, t)
    PROVE  OpenedWith(u, A, m, pair)
<1> DEFINE x == SkipMessages(w, w.remotePub, m.prevChainLen, t)
           v == DhRatchetStep(x, m.pub, pair)
           c == SkipMessages(v, m.pub, m.counter, t)
<1>m. m.pub \in KeyPair /\ m.counter \in Nat /\ m.prevChainLen \in Nat
  BY DEF Message
<1>w. w.recvCounter \in Nat /\ w.root \in Seq(SUBSET KeyPair) /\ Len(w.root) \in Nat
  BY StateFields
<1>o. /\ m.pub # w.remotePub /\ Filed(w, m) = {} /\ c.recvChain = m.key
      /\ u = TakeChainKey(c)
  BY DEF OpensNewChain, AfterNewChain, Caught, Stepped
<1>f. NewChainFacts(w, m.pub, m.counter, pair, c.recvChain, u)
  BY <1>m, <1>o, NewChainState, Zenon
<1>1. /\ u \in RatchetState
      /\ u.sendPub = pair /\ u.remotePub = m.pub
      /\ u.sendChain.step = 0 /\ u.sendCounter = 0
      /\ u.recvChain.step = m.counter + 1 /\ u.recvCounter = m.counter + 1
      /\ u.recvChain.dh = c.recvChain.dh
      /\ Len(u.recvChain.dh) = Len(w.root) + 1
      /\ Len(u.root) = Len(w.root) + 2
      /\ \A e \in u.skipList :
            \/ /\ e.pub = w.remotePub
               /\ e \in w.skipList \/ ( /\ w.recvCounter <= e.counter
                                       /\ e.key.dh = w.recvChain.dh )
            \/ /\ e.pub = m.pub
               /\ e.counter < m.counter
               /\ Len(e.key.dh) = Len(w.root) + 1
  BY <1>f DEF NewChainFacts
<1> HIDE DEF x, v, c
<1>e. \A e \in u.skipList : e.counter \in Nat
  BY <1>1, StateFields DEF SkipEntry
<1>2. Len(m.key.dh) = Len(w.root) + 1
  BY <1>o, <1>1
<1>6. \A n \in A : n.pub # m.pub
  <2>1. SUFFICES ASSUME NEW n \in A, n.pub = m.pub PROVE FALSE
    OBVIOUS
  <2>2. n.key.dh = m.key.dh
    BY <2>1 DEF Wellformed
  <2>4. Len(n.key.dh) <= Len(w.root)
    BY DEF Spent
  <2> QED
    BY <2>2, <2>4, <1>2, <1>w
<1>7. Sane(u)
  <2>1. u.sendChain.step = u.sendCounter /\ u.recvChain.step = u.recvCounter
    BY <1>1
  <2>2. Len(u.recvChain.dh) <= Len(u.root)
    BY <1>1, <1>w
  <2>3. ASSUME NEW e \in u.skipList
        PROVE  /\ e.pub = u.remotePub => e.counter < u.recvCounter
               /\ Len(e.key.dh) <= Len(u.root)
    <3>1. CASE e.pub = m.pub
      BY <3>1, <1>1, <1>e, <1>m, <1>o, <1>w
    <3>2. CASE e.pub = w.remotePub
      <4>1. Len(e.key.dh) <= Len(w.root) \/ Len(e.key.dh) = 1
        BY <3>2, <1>1, <1>o DEF Sane
      <4>2. SkipEntry \subseteq [key : ChainKey, pub : KeyPair, counter : Nat, addedAt : Nat]
        BY DEF SkipEntry
      <4>3. Len(e.key.dh) \in Nat
        BY <4>2, <1>1, StateFields DEF ChainKey
      <4>4. Len(u.root) = Len(w.root) + 2 /\ e.pub # u.remotePub
        BY <3>2, <1>1, <1>o
      <4>l. Len(w.root) \in Nat
        BY <1>w
      <4>5. ASSUME NEW i \in Nat, NEW j \in Nat, NEW k, i <= j \/ i = 1, k = j + 2 PROVE i <= k
        BY <4>5
      <4>6. Len(e.key.dh) <= Len(u.root)
        BY <4>1, <4>3, <4>4, <4>5, <4>l, Zenon
      <4> QED
        BY <4>4, <4>6
    <3> QED
      BY <3>1, <3>2, <1>1
  <2> QED
    BY <2>1, <2>2, <2>3 DEF Sane
<1>8. Spent(u, A)
  <2>1. SUFFICES ASSUME NEW n \in A
        PROVE  /\ Len(n.key.dh) <= Len(u.root)
               /\ n.pub = u.remotePub => n.counter < u.recvCounter
               /\ \A e \in u.skipList : ~(e.pub = n.pub /\ e.counter = n.counter)
    BY DEF Spent
  <2>2. n.counter \in Nat /\ Len(n.key.dh) \in Nat
    BY DEF Message, ChainKey
  <2>3. /\ Len(n.key.dh) <= Len(w.root)
        /\ n.pub = w.remotePub => n.counter < w.recvCounter
        /\ \A e \in w.skipList : ~(e.pub = n.pub /\ e.counter = n.counter)
    BY DEF Spent
  <2>4. Len(n.key.dh) <= Len(u.root)
    BY <2>2, <2>3, <1>1, <1>w
  <2>5. n.pub # u.remotePub
    BY <1>1, <1>6
  <2>6. ASSUME NEW e \in u.skipList, e.pub = n.pub, e.counter = n.counter PROVE FALSE
    BY <2>2, <2>3, <2>6, <1>1, <1>6, <1>e, <1>w
  <2> QED
    BY <2>4, <2>5, <2>6
<1>9. Spent(u, {m})
  <2>1. Len(m.key.dh) <= Len(u.root) /\ m.counter < u.recvCounter
    BY <1>1, <1>2, <1>m, <1>w
  <2>2. \A e \in u.skipList : ~(e.pub = m.pub /\ e.counter = m.counter)
    BY <1>1, <1>e, <1>m, <1>o
  <2> QED
    BY <2>1, <2>2 DEF Spent
<1> QED
  BY <1>1, <1>6, <1>7, <1>8, <1>9 DEF Spent, OpenedWith

----------------------------------------------------------------------------
(* The inductive invariant of the session. *)

\* The key pairs in use were minted by their owner.
PairsMinted ==
    \A p \in Party : /\ minted[p] >= 1
                    /\ ratchet[p].sendPub[1] = p /\ ratchet[p].sendPub[2] < minted[p]
                    /\ ratchet[p].sendPub # SPK

\* Every ciphertext was made under a pair its sender minted, and those under the
\* current pair are of the current send chain and behind its counter.
SentInv ==
    /\ Wellformed(sent)
    /\ \A m \in sent :
          /\ m.pub[1] = m.from /\ m.pub[2] < minted[m.from]
          /\ m.pub = ratchet[m.from].sendPub =>
                /\ m.key.dh = ratchet[m.from].sendChain.dh
                /\ m.counter < ratchet[m.from].sendCounter

IInv ==
    /\ TypeOK
    /\ AtMostOnce
    /\ PairsMinted
    /\ SentInv
    /\ \A p \in Party : /\ accepted[p] \subseteq Inbound(p)
                       /\ Sane(ratchet[p])
                       /\ Spent(ratchet[p], accepted[p])

LEMMA InitialStates == InitiatorState \in RatchetState /\ ResponderState \in RatchetState
<1>1. Initiator \in Party /\ Responder \in Party
  BY DEF Party
<1>2. EK \in KeyPair /\ SPK \in KeyPair /\ Boot \in KeyPair
  BY <1>1 DEF EK, SPK, Boot, KeyPair
<1>3. <<>> \in Seq(SUBSET KeyPair) /\ <<{}>> \in Seq(SUBSET KeyPair)
      /\ <<DhOutput(Boot, EK)>> \in Seq(SUBSET KeyPair)
  BY <1>2 DEF DhOutput
<1>4. /\ ChainFrom(<<>>) \in ChainKey /\ ZeroChain \in ChainKey
      /\ ChainFrom(<<DhOutput(Boot, EK)>>) \in ChainKey
  BY <1>3 DEF ChainFrom, ZeroChain, ChainKey
<1>5. InitiatorState \in RatchetState
  BY <1>2, <1>3, <1>4 DEF InitiatorState, RatchetState
<1>6. ResponderState \in RatchetState
  BY <1>2, <1>3, <1>4 DEF ResponderState, RatchetState
<1> QED
  BY <1>5, <1>6

LEMMA InitInv == Init => IInv
<1> SUFFICES ASSUME Init PROVE IInv
  OBVIOUS
<1>1. Initiator \in Party /\ Responder \in Party /\ Initiator # Responder
  BY PartiesDiffer DEF Party
<1>2. TypeOK
  <2>1. ratchet \in [Party -> RatchetState]
    BY InitialStates DEF Init
  <2>2. \A p \in Party : IsFiniteSet(accepted[p])
    BY FS_EmptySet DEF Init
  <2> QED
    BY <2>1, <2>2, <1>1 DEF Init, TypeOK
<1>3. AtMostOnce
  BY FS_EmptySet DEF Init, AtMostOnce
<1>4. PairsMinted
  BY <1>1 DEF Init, PairsMinted, InitiatorState, ResponderState, EK, Boot, SPK, Party
<1>5. SentInv
  BY DEF Init, SentInv, Wellformed
<1>6. \A p \in Party : Sane(ratchet[p])
  <2>1. Sane(InitiatorState)
    BY DEF Sane, InitiatorState, ChainFrom, ZeroChain
  <2>2. Sane(ResponderState)
    BY DEF Sane, ResponderState, ChainFrom
  <2> QED
    BY <2>1, <2>2 DEF Init
<1>7. \A p \in Party : accepted[p] \subseteq Inbound(p) /\ Spent(ratchet[p], accepted[p])
  BY DEF Init, Spent
<1> QED
  BY <1>2, <1>3, <1>4, <1>5, <1>6, <1>7 DEF IInv

\* Counting one more opened ciphertext.
LEMMA CountOne ==
    ASSUME NEW A, IsFiniteSet(A), NEW m, m \notin A
    PROVE  IsFiniteSet(A \cup {m}) /\ Cardinality(A \cup {m}) = Cardinality(A) + 1
BY FS_AddElement

\* A send preserves the invariant and emits a ciphertext never seen before.
LEMMA SendInv ==
    ASSUME IInv, NEW p \in Party, Send(p)
    PROVE  IInv' /\ Outgoing(p) \in sent' \ sent
<1> DEFINE s == ratchet[p]
           w == AfterSend(s)
           m == Outgoing(p)
<1>t. /\ s \in RatchetState /\ now \in Nat /\ sent \subseteq Message
      /\ ratchet \in [Party -> RatchetState] /\ accepted \in [Party -> SUBSET Message]
      /\ s.sendChain \in ChainKey /\ s.sendCounter \in Nat /\ s.sendPub \in KeyPair
      /\ s.prevSendChainLen \in Nat
  BY StateFields DEF IInv, TypeOK
<1>k. /\ Advance(s.sendChain, 1) \in ChainKey
      /\ Advance(s.sendChain, 1).dh = s.sendChain.dh
      /\ Advance(s.sendChain, 1).step = s.sendChain.step + 1
  BY <1>t, AdvanceChain
<1>1. /\ w \in RatchetState
      /\ w.sendChain = Advance(s.sendChain, 1) /\ w.sendCounter = s.sendCounter + 1
      /\ w.sendPub = s.sendPub /\ w.root = s.root /\ w.recvChain = s.recvChain
      /\ w.recvCounter = s.recvCounter /\ w.remotePub = s.remotePub
      /\ w.skipList = s.skipList
  <2> DEFINE k == Advance(s.sendChain, 1)
             n == s.sendCounter + 1
  <2>1. w = [s EXCEPT !.sendCounter = n, !.sendChain = k]
    BY DEF AfterSend
  <2>2. k \in ChainKey /\ n \in Nat
    BY <1>k, <1>t
  <2> HIDE DEF s, w, k, n
  <2>3. /\ w \in RatchetState /\ w.sendChain = k /\ w.sendCounter = n
        /\ w.sendPub = s.sendPub /\ w.root = s.root /\ w.recvChain = s.recvChain
        /\ w.recvCounter = s.recvCounter /\ w.remotePub = s.remotePub
        /\ w.skipList = s.skipList
    BY <2>1, <2>2, <1>t DEF RatchetState
  <2> QED
    BY <2>3 DEF k, n
<1>2. /\ m \in Message /\ m.from = p /\ m.pub = s.sendPub /\ m.counter = s.sendCounter
      /\ m.key = s.sendChain
  BY <1>t DEF Outgoing, Message
<1>3. /\ sent' = sent \cup {m}
      /\ ratchet' = [ratchet EXCEPT ![p] = Prune(w, now)]
      /\ UNCHANGED <<established, minted, accepted, opens, now>>
  BY DEF Send
<1>4. Sane(s) /\ Spent(s, accepted[p])
  BY DEF IInv
<1> HIDE DEF s, w, m
<1>5. Sane(w) /\ Spent(w, accepted[p])
  BY <1>1, <1>4, <1>k, <1>t DEF Sane, Spent
<1>p. PICK u : u = Prune(w, now)
  OBVIOUS
<1>6. /\ u \in RatchetState /\ Sane(u) /\ Spent(u, accepted[p])
      /\ u.sendPub = w.sendPub /\ u.sendChain = w.sendChain /\ u.sendCounter = w.sendCounter
  <2>1. u \in RatchetState /\ Sane(u) /\ Spent(u, accepted[p])
    BY <1>1, <1>5, <1>p, <1>t, PruneKeeps
  <2>2. u.sendPub = w.sendPub /\ u.sendChain = w.sendChain /\ u.sendCounter = w.sendCounter
    BY <1>1, <1>p, <1>t, PruneState
  <2> QED
    BY <2>1, <2>2
<1>r. /\ ratchet' = [ratchet EXCEPT ![p] = u] /\ ratchet'[p] = u
      /\ \A q \in Party : q # p => ratchet'[q] = ratchet[q]
  BY <1>3, <1>p, <1>t
<1>7. m \notin sent
  BY <1>2, <1>t DEF IInv, SentInv, s
<1>8. TypeOK'
  BY <1>2, <1>3, <1>6, <1>r DEF IInv, TypeOK
<1>9. AtMostOnce'
  BY <1>3 DEF IInv, AtMostOnce
<1>10. PairsMinted'
  BY <1>1, <1>3, <1>6, <1>r DEF IInv, PairsMinted, s
<1>11. SentInv'
  <2>1. Wellformed(sent')
    <3>1. m.pub # SPK /\ m.key.step = m.counter
      BY <1>2, <1>4 DEF IInv, PairsMinted, Sane, s
    <3>2. \A n \in sent : n.pub = m.pub => n.key.dh = m.key.dh
      BY <1>2 DEF IInv, SentInv, PairsMinted, s
    <3> QED
      BY <3>1, <3>2, <1>3 DEF IInv, SentInv, Wellformed
  <2>2. m.pub[1] = m.from /\ m.pub[2] < minted[m.from]
    BY <1>2 DEF IInv, PairsMinted, s
  <2>3. m.key.dh = u.sendChain.dh /\ m.counter < u.sendCounter
    BY <1>1, <1>2, <1>6, <1>k, <1>t
  <2>4. ASSUME NEW n \in sent
        PROVE  n.pub = ratchet'[n.from].sendPub =>
                  /\ n.key.dh = ratchet'[n.from].sendChain.dh
                  /\ n.counter < ratchet'[n.from].sendCounter
    <3>1. CASE n.from = p
      <4>1. n.counter \in Nat
        BY <1>t DEF Message
      <4> QED
        BY <3>1, <4>1, <1>1, <1>6, <1>k, <1>r, <1>t DEF IInv, SentInv, s
    <3>2. CASE n.from # p
      BY <3>2, <1>r, <1>t DEF IInv, SentInv, Message
    <3> QED
      BY <3>1, <3>2
  <2>5. \A n \in sent : n.pub[1] = n.from /\ n.pub[2] < minted[n.from]
    BY DEF IInv, SentInv
  <2>6. ratchet'[m.from] = u /\ minted' = minted
    BY <1>2, <1>3, <1>r
  <2> QED
    BY <2>1, <2>2, <2>3, <2>4, <2>5, <2>6, <1>3 DEF SentInv
<1>12. \A q \in Party : /\ accepted'[q] \subseteq Inbound(q)'
                       /\ Sane(ratchet'[q])
                       /\ Spent(ratchet'[q], accepted'[q])
  BY <1>3, <1>6, <1>r DEF IInv, Inbound
<1> QED
  BY <1>2, <1>3, <1>7, <1>8, <1>9, <1>10, <1>11, <1>12 DEF IInv, m

\* What committing an opened message does to the invariant: the receiver's new
\* state is sane and spends the message, and its send half is either untouched or
\* belongs to a pair nobody has used.
LEMMA CommitInv ==
    ASSUME IInv, NEW p \in Party, NEW m \in Inbound(p), NEW u \in RatchetState,
           Commit(p, m, u), m \notin accepted[p],
           Sane(u), Spent(u, accepted[p] \cup {m}),
           \/ /\ minted' = minted
              /\ u.sendPub = ratchet[p].sendPub /\ u.sendChain = ratchet[p].sendChain
              /\ u.sendCounter = ratchet[p].sendCounter
           \/ minted' = [minted EXCEPT ![p] = @ + 1] /\ u.sendPub = FreshPair(p)
    PROVE  IInv'
<1>t. /\ ratchet \in [Party -> RatchetState] /\ accepted \in [Party -> SUBSET Message]
      /\ sent \subseteq Message /\ m \in sent /\ m.from # p
      /\ minted \in [Party -> Nat] /\ opens \in [Party -> Nat]
      /\ IsFiniteSet(accepted[p]) /\ opens[p] = Cardinality(accepted[p])
  BY DEF IInv, TypeOK, Inbound, AtMostOnce
<1>1. /\ ratchet' = [ratchet EXCEPT ![p] = u] /\ ratchet'[p] = u
      /\ \A q \in Party : q # p => ratchet'[q] = ratchet[q]
      /\ accepted' = [accepted EXCEPT ![p] = accepted[p] \cup {m}]
      /\ accepted'[p] = accepted[p] \cup {m}
      /\ \A q \in Party : q # p => accepted'[q] = accepted[q]
      /\ opens' = [opens EXCEPT ![p] = opens[p] + 1] /\ opens'[p] = opens[p] + 1
      /\ \A q \in Party : q # p => opens'[q] = opens[q]
      /\ established' = established \cup {p} /\ sent' = sent /\ now' = now
  BY <1>t DEF Commit
<1>2. /\ minted' \in [Party -> Nat] /\ \A q \in Party : minted'[q] >= minted[q]
      /\ \A q \in Party : q # p => minted'[q] = minted[q]
  BY <1>t
<1>3. IsFiniteSet(accepted'[p]) /\ opens'[p] = Cardinality(accepted'[p])
  BY <1>1, <1>t, CountOne
<1>4. TypeOK'
  BY <1>1, <1>2, <1>3, <1>t DEF IInv, TypeOK
<1>5. AtMostOnce'
  BY <1>1, <1>3 DEF IInv, AtMostOnce
<1>6. PairsMinted'
  <2>1. ASSUME NEW q \in Party, q # p
        PROVE  /\ minted'[q] >= 1 /\ ratchet'[q].sendPub[1] = q
               /\ ratchet'[q].sendPub[2] < minted'[q] /\ ratchet'[q].sendPub # SPK
    BY <2>1, <1>1, <1>2 DEF IInv, PairsMinted
  <2>2. /\ minted'[p] >= 1 /\ u.sendPub[1] = p
        /\ u.sendPub[2] < minted'[p] /\ u.sendPub # SPK
    BY <1>t DEF IInv, PairsMinted, FreshPair, SPK
  <2> QED
    BY <2>1, <2>2, <1>1 DEF PairsMinted
<1>7. SentInv'
  <2>1. SUFFICES ASSUME NEW n \in sent
        PROVE  /\ n.pub[1] = n.from /\ n.pub[2] < minted'[n.from]
               /\ n.pub = ratchet'[n.from].sendPub =>
                     /\ n.key.dh = ratchet'[n.from].sendChain.dh
                     /\ n.counter < ratchet'[n.from].sendCounter
    BY <1>1 DEF IInv, SentInv
  <2>2. n.from \in Party /\ n.pub \in KeyPair /\ n.pub[2] \in Nat
    BY <1>t DEF Message, KeyPair
  <2>3. n.pub[1] = n.from /\ n.pub[2] < minted[n.from]
    BY DEF IInv, SentInv
  <2>4. n.pub[2] < minted'[n.from]
    BY <2>2, <2>3, <1>2, <1>t
  <2>5. CASE n.from # p
    BY <2>2, <2>3, <2>4, <2>5, <1>1 DEF IInv, SentInv
  <2>6. CASE n.from = p
    <3>1. CASE u.sendPub = ratchet[p].sendPub /\ u.sendChain = ratchet[p].sendChain
               /\ u.sendCounter = ratchet[p].sendCounter
      BY <3>1, <2>3, <2>4, <2>6, <1>1 DEF IInv, SentInv
    <3>2. CASE u.sendPub = FreshPair(p)
      BY <3>2, <2>2, <2>3, <2>4, <2>6, <1>1, <1>t DEF FreshPair
    <3> QED
      BY <3>1, <3>2
  <2> QED
    BY <2>5, <2>6
<1>8. \A q \in Party : /\ accepted'[q] \subseteq Inbound(q)'
                      /\ Sane(ratchet'[q])
                      /\ Spent(ratchet'[q], accepted'[q])
  BY <1>1, <1>t DEF IInv, Inbound
<1> QED
  BY <1>4, <1>5, <1>6, <1>7, <1>8 DEF IInv

\* Each of the three ways of opening a message preserves the invariant and opens
\* a message that was not open.
LEMMA ReceiveInv ==
    ASSUME IInv, NEW p \in Party, NEW m \in Inbound(p),
           ReceiveFiled(p, m) \/ ReceiveInChain(p, m) \/ ReceiveNewChain(p, m)
    PROVE  IInv' /\ m \notin accepted[p]
<1>w. PICK w : w = Prune(ratchet[p], now)
  OBVIOUS
<1>t. /\ ratchet[p] \in RatchetState /\ now \in Nat /\ minted[p] \in Nat
      /\ sent \in SUBSET Message /\ m \in sent /\ m \in Message
      /\ accepted[p] \in SUBSET sent /\ accepted[p] \in SUBSET Message
      /\ Sane(ratchet[p]) /\ Spent(ratchet[p], accepted[p]) /\ Wellformed(sent)
      /\ FreshPair(p) \in KeyPair
  BY DEF IInv, TypeOK, Inbound, SentInv, FreshPair, KeyPair
<1>1. /\ w \in RatchetState /\ Sane(w) /\ Spent(w, accepted[p])
      /\ w.sendPub = ratchet[p].sendPub /\ w.sendChain = ratchet[p].sendChain
      /\ w.sendCounter = ratchet[p].sendCounter
  <2>1. w \in RatchetState /\ Sane(w) /\ Spent(w, accepted[p])
    BY <1>w, <1>t, PruneKeeps
  <2>2. /\ w.sendPub = ratchet[p].sendPub /\ w.sendChain = ratchet[p].sendChain
        /\ w.sendCounter = ratchet[p].sendCounter
    BY <1>w, <1>t, PruneState
  <2> QED
    BY <2>1, <2>2
<1>2. CASE ReceiveFiled(p, m)
  <2>1. PICK u : u = AfterFiled(w, m)
    OBVIOUS
  <2>2. OpensFiled(w, m) /\ Commit(p, m, u) /\ minted' = minted
    BY <1>2, <1>w, <2>1 DEF ReceiveFiled
  <2>3. OpenedKeeping(u, accepted[p], m, w)
    BY <2>1, <2>2, <1>1, <1>t, FiledKeeps, Zenon
  <2> QED
    <3>1. /\ u \in RatchetState /\ m \notin accepted[p] /\ Sane(u)
          /\ Spent(u, accepted[p] \cup {m}) /\ u.sendPub = w.sendPub
          /\ u.sendChain = w.sendChain /\ u.sendCounter = w.sendCounter
      BY <2>3 DEF OpenedKeeping
    <3> QED
      BY <2>2, <3>1, <1>1, CommitInv, Zenon
<1>3. CASE ReceiveInChain(p, m)
  <2>1. PICK u : u = AfterInChain(w, m, now)
    OBVIOUS
  <2>2. OpensInChain(w, m, now) /\ Commit(p, m, u) /\ minted' = minted
    BY <1>3, <1>w, <2>1 DEF ReceiveInChain
  <2>3. OpenedKeeping(u, accepted[p], m, w)
    <3>1. PICK S, A, t : S = sent /\ A = accepted[p] /\ t = now
      OBVIOUS
    <3>2. /\ t \in Nat /\ S \in SUBSET Message /\ A \in SUBSET S /\ m \in S
          /\ Wellformed(S) /\ Spent(w, A) /\ OpensInChain(w, m, t)
          /\ u = AfterInChain(w, m, t)
      BY <3>1, <2>1, <2>2, <1>1, <1>t
    <3>3. OpenedKeeping(u, A, m, w)
      BY <3>2, <1>1, InChainKeeps, Zenon
    <3> QED
      BY <3>1, <3>3
  <2> QED
    <3>1. /\ u \in RatchetState /\ m \notin accepted[p] /\ Sane(u)
          /\ Spent(u, accepted[p] \cup {m}) /\ u.sendPub = w.sendPub
          /\ u.sendChain = w.sendChain /\ u.sendCounter = w.sendCounter
      BY <2>3 DEF OpenedKeeping
    <3> QED
      BY <2>2, <3>1, <1>1, CommitInv, Zenon
<1>4. CASE ReceiveNewChain(p, m)
  <2>p. PICK pair \in KeyPair : pair = FreshPair(p)
    BY <1>t
  <2>1. PICK u : u = AfterNewChain(w, m, pair, now)
    OBVIOUS
  <2>2. /\ OpensNewChain(w, m, pair, now) /\ Commit(p, m, u)
        /\ minted' = [minted EXCEPT ![p] = @ + 1]
    BY <1>4, <1>w, <2>p, <2>1 DEF ReceiveNewChain
  <2>3. /\ u \in RatchetState /\ m \notin accepted[p] /\ Sane(u)
        /\ Spent(u, accepted[p] \cup {m}) /\ u.sendPub = FreshPair(p)
    <3>1. PICK S, A, t : S = sent /\ A = accepted[p] /\ t = now
      OBVIOUS
    <3>2. /\ t \in Nat /\ S \in SUBSET Message /\ A \in SUBSET S /\ m \in S
          /\ Wellformed(S) /\ Spent(w, A) /\ OpensNewChain(w, m, pair, t)
          /\ u = AfterNewChain(w, m, pair, t)
      BY <3>1, <2>1, <2>2, <1>1, <1>t
    <3>3. OpenedWith(u, A, m, pair)
      BY <3>2, <1>1, NewChainKeeps, Zenon
    <3> QED
      BY <3>1, <3>3, <2>p DEF OpenedWith
  <2> QED
    BY <2>2, <2>3, <1>1, CommitInv, Zenon
<1> QED
  BY <1>2, <1>3, <1>4

LEMMA NextInv == IInv /\ [Next]_vars => IInv'
<1> SUFFICES ASSUME IInv, [Next]_vars PROVE IInv'
  OBVIOUS
<1>1. ASSUME NEW p \in Party, Send(p) PROVE IInv'
  BY <1>1, SendInv
<1>2. ASSUME NEW p \in Party, NEW m \in Inbound(p),
             ReceiveFiled(p, m) \/ ReceiveInChain(p, m) \/ ReceiveNewChain(p, m)
      PROVE  IInv'
  BY <1>2, ReceiveInv
<1>3. ASSUME Tick \/ UNCHANGED <<ratchet, established, minted, sent, accepted, opens>>,
             now' \in Nat
      PROVE  IInv'
  <2>1. UNCHANGED <<ratchet, established, minted, sent, accepted, opens>>
    BY <1>3 DEF Tick
  <2> QED
    BY <1>3, <2>1 DEF IInv, TypeOK, AtMostOnce, PairsMinted, SentInv, Inbound
<1>4. Tick => now' \in Nat
  BY DEF Tick, IInv, TypeOK
<1>5. UNCHANGED vars =>
         UNCHANGED <<ratchet, established, minted, sent, accepted, opens>> /\ now' \in Nat
  BY DEF vars, IInv, TypeOK
<1> QED
  BY <1>1, <1>2, <1>3, <1>4, <1>5 DEF Next

----------------------------------------------------------------------------
(* Theorems. *)

\* The state of a session keeps its types for every budget, TTL and bound.
THEOREM TypesHold == Spec => []TypeOK
<1>1. IInv => TypeOK
  BY DEF IInv
<1> QED
  BY <1>1, InitInv, NextInv, PTL DEF Spec

\* However often and in whatever order the network serves a ciphertext, its
\* plaintext reaches the application at most once.
THEOREM NoDoubleOpen == Spec => []AtMostOnce
<1>1. IInv => AtMostOnce
  BY DEF IInv
<1> QED
  BY <1>1, InitInv, NextInv, PTL DEF Spec

\* The ratchet implements the abstract channel: no ciphertext is emitted twice,
\* so no message key serves two messages, and none is opened twice.
THEOREM Refinement == Spec => ImplementsOnceChannel
<1>1. Init => Channel!Init
  BY DEF Init, Channel!Init
<1>2. IInv /\ [Next]_vars => [Channel!Next]_<<sent, accepted, opens>>
  <2> SUFFICES ASSUME IInv, Next PROVE [Channel!Next]_<<sent, accepted, opens>>
    BY DEF vars
  <2>1. ASSUME NEW p \in Party, Send(p) PROVE Channel!Next
    <3>1. Outgoing(p) \in sent' \ sent /\ Outgoing(p).from = p
          /\ sent' = sent \cup {Outgoing(p)} /\ UNCHANGED <<accepted, opens>>
      BY <2>1, SendInv DEF Send, Outgoing
    <3>2. Channel!Send(p)
      BY <3>1 DEF Channel!Send
    <3> QED
      BY <3>2 DEF Channel!Next
  <2>2. ASSUME NEW p \in Party, NEW m \in Inbound(p),
               ReceiveFiled(p, m) \/ ReceiveInChain(p, m) \/ ReceiveNewChain(p, m)
        PROVE  Channel!Next
    <3>1. m \notin accepted[p]
      BY <2>2, ReceiveInv
    <3>2. m \in sent /\ m.from # p
      BY DEF Inbound
    <3>3. /\ accepted' = [accepted EXCEPT ![p] = @ \cup {m}]
          /\ opens' = [opens EXCEPT ![p] = @ + 1] /\ sent' = sent
      BY <2>2 DEF ReceiveFiled, ReceiveInChain, ReceiveNewChain, Commit
    <3>4. Channel!Open(p, m)
      BY <3>1, <3>2, <3>3 DEF Channel!Open
    <3> QED
      BY <3>2, <3>4 DEF Channel!Next
  <2>3. Tick => UNCHANGED <<sent, accepted, opens>>
    BY DEF Tick
  <2> QED
    BY <2>1, <2>2, <2>3 DEF Next
<1> QED
  BY <1>1, <1>2, InitInv, NextInv, PTL DEF Spec, ImplementsOnceChannel, Channel!Spec
----------------------------------------------------------------------------
(* The two parties in step: what their chains, their skipped keys and the  *)
(* ciphertexts sent have to do with each other.  A chain is named by the   *)
(* number of DH outputs it was derived from: the initiator's are even, the *)
(* responder's odd.                                                        *)

Length(m) == Len(m.key.dh)
Side(p, n) == \E k \in Nat : n = 2 * k + (IF p = Initiator THEN 0 ELSE 1)

\* Of the ciphertexts S, chain n of p has those with the counters below k.
Has(S, p, n, c) == \E m \in S : m.from = p /\ Length(m) = n /\ m.counter = c
SentUpTo(S, p, n, k) == \A c \in Nat : Has(S, p, n, c) <=> c < k

\* The send half: the chain is the root's; a chain is told by its length; the newest
\* chain and the one before it are complete, and so is what a ciphertext says of them.
SendHalf ==
    /\ \A p \in Party :
          LET s == ratchet[p] IN
          /\ s.sendChain.dh = s.root /\ Side(p, Len(s.root))
          /\ SentUpTo(sent, p, Len(s.root), s.sendCounter)
          /\ SentUpTo(sent, p, Len(s.root) - 2, s.prevSendChainLen)
    /\ \A m \in sent :
          LET s == ratchet[m.from] IN
          /\ Side(m.from, Length(m)) /\ Length(m) <= Len(s.root)
          /\ Length(m) = Len(s.root) => m.pub = s.sendPub
          /\ SentUpTo(sent, m.from, Length(m) - 2, m.prevChainLen)
          /\ \A c \in 0..m.counter : Has(sent, m.from, Length(m), c)
    /\ \A m, n \in sent : m.from = n.from /\ Length(m) = Length(n) => m.pub = n.pub

\* The initiator before the first reply.
Waiting(p) ==
    LET s == ratchet[p] IN
    /\ s.root = <<>> /\ s.recvChain = ZeroChain /\ s.recvCounter = 0
    /\ s.remotePub = SPK /\ s.skipList = {} /\ accepted[p] = {}

\* a has stepped on b's newest chain, b not yet on a's.
Ahead(a, b) ==
    LET s == ratchet[a]
        r == ratchet[b] IN
    /\ s.root = Append(r.root, DhOutput(r.sendPub, s.sendPub))
    /\ s.remotePub = r.sendPub /\ s.recvChain.dh = r.root /\ s.recvCounter <= r.sendCounter
    /\ r.remotePub # s.sendPub
    /\ Len(r.recvChain.dh) = Len(r.root) - 1 \/ Waiting(b)
Lockstep == \E a, b \in Party : a # b /\ Ahead(a, b)

\* The receive half: the chain is the sender's; skipped keys are of ciphertexts sent, one
\* each, of this chain or an earlier one; and while none can expire, what was skipped in
\* this chain and the one before is opened or filed.
ReadsChain(s, S) ==
    \A m \in S :
       /\ m.pub = s.remotePub <=> Length(m) = Len(s.recvChain.dh)
       /\ m.pub = s.remotePub => m.key.dh = s.recvChain.dh
FiledFrom(s, S, t) ==
    /\ \A e \in s.skipList :
          /\ e.addedAt <= t /\ Len(e.key.dh) <= Len(s.recvChain.dh)
          /\ \E m \in S : m.pub = e.pub /\ m.counter = e.counter /\ m.key = e.key
    /\ \A e, f \in s.skipList : e.pub = f.pub /\ e.counter = f.counter => e = f
Behind(s, m) ==
    \/ Len(s.recvChain.dh) - 2 <= Length(m) /\ Length(m) < Len(s.recvChain.dh)
    \/ m.pub = s.remotePub /\ m.counter < s.recvCounter
KeptFrom(s, S) ==
    \A m \in S : Behind(s, m) => \E e \in s.skipList : e.pub = m.pub /\ e.counter = m.counter
ReadHalf(p) ==
    /\ Waiting(p) \/ ReadsChain(ratchet[p], Inbound(p))
    /\ FiledFrom(ratchet[p], Inbound(p), now)
    /\ now <= SkippedKeyTtl => KeptFrom(ratchet[p], Pending(p))

InStep == SendHalf /\ Lockstep /\ \A p \in Party : ReadHalf(p)

LEMMA SidesDiffer ==
    ASSUME NEW p \in Party, NEW q \in Party, p # q, NEW n \in Nat, Side(p, n), Side(q, n)
    PROVE  FALSE
BY PartiesDiffer DEF Party, Side

LEMMA SideGap ==
    ASSUME NEW p \in Party, NEW i \in Nat, NEW j \in Nat, Side(p, i), Side(p, j), i < j
    PROVE  i + 2 <= j
BY DEF Side

LEMMA SideNext ==
    ASSUME NEW p \in Party, NEW q \in Party, p # q, NEW n \in Nat, Side(p, n)
    PROVE  Side(q, n + 1) /\ Side(p, n + 2)
<1>1. PICK k \in Nat : n = 2 * k + (IF p = Initiator THEN 0 ELSE 1)
  BY DEF Side
<1>2. k + 1 \in Nat
  OBVIOUS
<1>3. Side(p, n + 2)
  BY <1>1, <1>2 DEF Side
<1>4. CASE p = Initiator
  BY <1>1, <1>4 DEF Side
<1>5. CASE p # Initiator
  <2>1. q = Initiator
    BY <1>5 DEF Party
  <2> QED
    BY <1>1, <1>2, <1>5, <2>1 DEF Side
<1> QED
  BY <1>3, <1>4, <1>5

\* A chain key is its derivation and its step.
LEMMA KeyIs ==
    ASSUME NEW k \in ChainKey, NEW l \in ChainKey, k.dh = l.dh, k.step = l.step
    PROVE  k = l
BY DEF ChainKey

\* The types of a ciphertext.
LEMMA MessageIs ==
    ASSUME TypeOK, NEW m \in sent
    PROVE  /\ m.from \in Party /\ m.pub \in KeyPair /\ m.counter \in Nat /\ m.prevChainLen \in Nat
           /\ m.key \in ChainKey /\ m.key.dh \in Seq(SUBSET KeyPair) /\ Length(m) \in Nat
           /\ m = [from |-> m.from, pub |-> m.pub, counter |-> m.counter,
                   prevChainLen |-> m.prevChainLen, key |-> m.key]
BY DEF TypeOK, Message, ChainKey, Length

\* Ciphertexts of one chain have one sender, one pair and one derivation.
LEMMA SameChain ==
    ASSUME IInv, SendHalf, NEW m \in sent, NEW n \in sent
    PROVE  /\ m.pub = n.pub <=> m.from = n.from /\ Length(m) = Length(n)
           /\ m.pub = n.pub => m.key.dh = n.key.dh
           /\ m.pub = n.pub /\ m.counter = n.counter => m = n
<1>1. m.pub = n.pub => m.key.dh = n.key.dh /\ Length(m) = Length(n) /\ m.from = n.from
  BY DEF IInv, SentInv, Wellformed, Length
<1>2. m.from = n.from /\ Length(m) = Length(n) => m.pub = n.pub
  BY DEF SendHalf
<1>3. ASSUME m.pub = n.pub, m.counter = n.counter PROVE m = n
  <2>t. TypeOK
    BY DEF IInv
  <2>1. m.key = n.key
    <3>1. m.key.step = n.key.step
      BY <1>3 DEF IInv, SentInv, Wellformed
    <3> QED
      BY <2>t, <3>1, <1>1, <1>3, KeyIs, MessageIs
  <2>2. m.prevChainLen = n.prevChainLen
    <3>1. /\ SentUpTo(sent, m.from, Length(m) - 2, m.prevChainLen)
          /\ SentUpTo(sent, m.from, Length(m) - 2, n.prevChainLen)
      BY <1>1, <1>3 DEF SendHalf
    <3>2. m.prevChainLen \in Nat /\ n.prevChainLen \in Nat
      BY <2>t, MessageIs
    <3>3. \A c \in Nat : c < m.prevChainLen <=> c < n.prevChainLen
      BY <3>1 DEF SentUpTo
    <3> QED
      BY <3>2, <3>3
  <2> QED
    BY <2>t, <2>1, <2>2, <1>1, <1>3, MessageIs
<1> QED
  BY <1>1, <1>2, <1>3

\* What p may still read is of the chain p reads, or behind it, or p is behind.
LEMMA LengthBound ==
    ASSUME IInv, SendHalf, NEW a \in Party, NEW b \in Party, a # b, Ahead(a, b)
    PROVE  /\ Len(ratchet[a].root) \in Nat /\ Len(ratchet[b].root) \in Nat
           /\ Len(ratchet[a].root) = Len(ratchet[b].root) + 1
           /\ \A m \in Inbound(a) : m.from = b /\ Length(m) <= Len(ratchet[b].root)
           /\ \A m \in Inbound(b) : m.from = a /\ Length(m) <= Len(ratchet[a].root)
           /\ Len(ratchet[a].recvChain.dh) = Len(ratchet[b].root)
<1>1. /\ ratchet[a] \in RatchetState /\ ratchet[b] \in RatchetState /\ sent \subseteq Message
  BY DEF IInv, TypeOK
<1>2. /\ ratchet[a].root \in Seq(SUBSET KeyPair) /\ ratchet[b].root \in Seq(SUBSET KeyPair)
      /\ DhOutput(ratchet[b].sendPub, ratchet[a].sendPub) \in SUBSET KeyPair
  BY <1>1, StateFields DEF DhOutput
<1>3. /\ Len(ratchet[a].root) \in Nat /\ Len(ratchet[b].root) \in Nat
      /\ Len(ratchet[a].root) = Len(ratchet[b].root) + 1
  BY <1>2 DEF Ahead
<1>4. /\ \A m \in Inbound(a) : m.from = b
      /\ \A m \in Inbound(b) : m.from = a
  BY <1>1 DEF Inbound, Message, Party
<1> QED
  BY <1>3, <1>4 DEF SendHalf, Inbound, Ahead

(* What follows of the messages that may be read. *)

LEMMA WaitingReads ==
    ASSUME IInv, NEW p \in Party, Waiting(p), NEW m \in sent
    PROVE  m.pub # ratchet[p].remotePub
BY DEF Waiting, IInv, SentInv, Wellformed

LEMMA OpenedGone ==
    ASSUME IInv, InStep
    PROVE  OpenedKeysAreGone
<1>t. TypeOK /\ SendHalf
  BY DEF IInv, InStep
<1>l. PICK a \in Party, b \in Party : a # b /\ Ahead(a, b)
  BY DEF InStep, Lockstep
<1> SUFFICES ASSUME NEW p \in Party, NEW q \in Party, NEW m \in accepted[p]
             PROVE  ~Derives(ratchet[q], m.key)
  BY DEF OpenedKeysAreGone
<1> DEFINE s == ratchet[q]
<1>1. /\ m \in sent /\ m \in Inbound(p) /\ m.from # p /\ m.from \in Party /\ m.counter \in Nat
      /\ m.key.step = m.counter /\ Length(m) \in Nat /\ Side(m.from, Length(m))
      /\ Spent(ratchet[p], accepted[p])
  <2>1. m \in sent /\ m \in Inbound(p) /\ m.from # p
    BY DEF IInv, Inbound
  <2> QED
    BY <1>t, <2>1, MessageIs DEF IInv, SentInv, Wellformed, SendHalf
<1>2. ASSUME NEW e \in s.skipList, e.key = m.key  PROVE FALSE
  <2>1. PICK n \in Inbound(q) : n.pub = e.pub /\ n.counter = e.counter /\ n.key = e.key
    BY DEF InStep, ReadHalf, FiledFrom
  <2>2. /\ n \in sent /\ n.from # q /\ n.from \in Party /\ Length(n) = Length(m)
        /\ Side(n.from, Length(n)) /\ n.counter = n.key.step
    BY <1>t, <1>2, <2>1, MessageIs DEF Inbound, Length, SendHalf, IInv, SentInv, Wellformed
  <2>3. n.from = m.from
    BY <1>1, <2>2, SidesDiffer
  <2>4. q = p /\ n.pub = m.pub
    BY <1>t, <1>1, <2>2, <2>3, SameChain DEF Party
  <2> QED
    BY <1>1, <1>2, <2>1, <2>2, <2>4 DEF Spent
<1>3. ASSUME s.recvChain.dh = m.key.dh, s.recvChain.step <= m.key.step  PROVE FALSE
  <2>1. Len(s.recvChain.dh) = Length(m)
    BY <1>3 DEF Length
  <2>2. ~Waiting(q)
    <3> SUFFICES ASSUME Waiting(q)  PROVE FALSE
      OBVIOUS
    <3>1. Length(m) = 1 /\ Len(s.root) = 0
      BY <2>1 DEF Waiting, ZeroChain
    <3>2. m.from # q
      BY <1>1, <1>t, <3>1 DEF SendHalf
    <3>3. q = p
      BY <1>1, <3>2 DEF Party
    <3> QED
      BY <3>3 DEF Waiting
  <2>3. m.from # q
    <3> SUFFICES ASSUME m.from = q  PROVE FALSE
      OBVIOUS
    <3>1. CASE q = a
      <4>1. Side(b, Length(m))
        BY <1>l, <1>t, <2>1, <3>1, LengthBound DEF SendHalf
      <4> QED
        BY <1>1, <1>l, <3>1, <4>1, SidesDiffer
    <3>2. CASE q = b
      <4>1. Length(m) = Len(s.root) - 1 /\ Len(s.root) \in Nat /\ Side(b, Len(s.root))
        <5>1. Len(s.recvChain.dh) = Len(s.root) - 1
          BY <1>l, <2>2, <3>2 DEF Ahead
        <5>2. Len(s.root) \in Nat
          BY <1>l, <1>t, <3>2, LengthBound
        <5>3. Side(b, Len(s.root))
          BY <1>t, <3>2 DEF SendHalf
        <5> QED
          BY <2>1, <5>1, <5>2, <5>3
      <4> QED
        BY <1>1, <3>2, <4>1, SideGap
    <3> QED
      BY <1>l, <3>1, <3>2 DEF Party
  <2>4. q = p
    BY <1>1, <2>3 DEF Party
  <2>5. m.pub = s.remotePub
    BY <1>1, <2>1, <2>2, <2>4 DEF InStep, ReadHalf, ReadsChain
  <2>6. m.counter < s.recvCounter /\ s.recvChain.step = s.recvCounter
    BY <1>1, <2>4, <2>5 DEF Spent, IInv, Sane
  <2>7. s.recvCounter \in Nat
    BY <1>t, StateFields DEF TypeOK
  <2> QED
    BY <1>1, <1>3, <2>6, <2>7
<1>4. ASSUME s.sendChain.dh = m.key.dh, s.sendChain.step <= m.key.step  PROVE FALSE
  <2>1. Length(m) = Len(s.root) /\ Side(q, Length(m))
    BY <1>t, <1>4 DEF SendHalf, Length
  <2>2. m.from = q
    BY <1>1, <2>1, SidesDiffer
  <2>3. m.counter < s.sendCounter /\ s.sendChain.step = s.sendCounter
    BY <1>t, <1>1, <2>1, <2>2 DEF SendHalf, IInv, SentInv, Sane
  <2>4. s.sendCounter \in Nat
    BY <1>t, StateFields DEF TypeOK
  <2> QED
    BY <1>1, <1>4, <2>3, <2>4
<1> QED
  BY <1>2, <1>3, <1>4 DEF Derives

\* A ciphertext of the chain that is read, not yet passed, has the key the chain leads to.
LEMMA ChainLeadsTo ==
    ASSUME IInv, InStep, NEW p \in Party, NEW m \in Inbound(p), NEW w \in RatchetState, NEW t \in Nat,
           w.recvChain = ratchet[p].recvChain, w.recvCounter = ratchet[p].recvCounter,
           m.pub = ratchet[p].remotePub, m.counter >= ratchet[p].recvCounter
    PROVE  Caught(w, m, t).recvChain = m.key
<1>1. m \in sent /\ TypeOK
  BY DEF IInv, Inbound
<1>2. m.pub \in KeyPair /\ m.counter \in Nat /\ m.key \in ChainKey /\ m.key.step = m.counter
  BY <1>1, MessageIs DEF IInv, SentInv, Wellformed
<1>p. PICK c : c = SkipMessages(w, m.pub, m.counter, t)
  OBVIOUS
<1>3. SkipFacts(w, m.pub, m.counter, c)
  BY <1>2, <1>p, SkipState
<1>4. w.recvChain.step = w.recvCounter /\ w.recvCounter \in Nat
  BY StateFields DEF IInv, Sane
<1>5. c \in RatchetState /\ c.recvChain.dh = w.recvChain.dh /\ c.recvChain.step = m.counter
  BY <1>2, <1>3, <1>4 DEF SkipFacts
<1>6. m.key.dh = ratchet[p].recvChain.dh
  <2>1. ~Waiting(p)
    BY <1>1, WaitingReads
  <2> QED
    BY <2>1 DEF InStep, ReadHalf, ReadsChain
<1>7. c.recvChain = m.key
  BY <1>2, <1>5, <1>6, StateFields, KeyIs
<1> QED
  BY <1>p, <1>7 DEF Caught

LEMMA Recovers ==
    ASSUME IInv, InStep
    PROVE  BudgetRecovers
<1> SUFFICES ASSUME NEW p \in Party, NEW m \in Pending(p), m.pub = ratchet[p].remotePub,
                    m.counter >= ratchet[p].recvCounter,
                    m.counter - ratchet[p].recvCounter <= MaxSkipped
             PROVE  CanOpenAt(p, m, now + SkippedKeyTtl + 1)
  BY DEF BudgetRecovers
<1> DEFINE t == now + SkippedKeyTtl + 1
<1>t. TypeOK /\ ratchet[p] \in RatchetState /\ t \in Nat /\ m \in Inbound(p) /\ now \in Nat
  BY TtlIsNat DEF IInv, TypeOK, Pending
<1>p. PICK w : w = Prune(ratchet[p], t)
  OBVIOUS
<1>1. /\ w \in RatchetState /\ w.remotePub = ratchet[p].remotePub
      /\ w.recvChain = ratchet[p].recvChain /\ w.recvCounter = ratchet[p].recvCounter
  <2>1. PICK r \in RatchetState : r = ratchet[p]
    BY <1>t
  <2>2. PICK u \in Nat : u = t
    BY <1>t
  <2>3. w = Prune(r, u)
    BY <1>p, <2>1, <2>2
  <2>4. /\ w \in RatchetState /\ w.remotePub = r.remotePub
        /\ w.recvChain = r.recvChain /\ w.recvCounter = r.recvCounter
    BY <2>3, PruneState
  <2> QED
    BY <2>1, <2>4
<1>2. w.skipList = {}
  <2>1. w.skipList = {e \in ratchet[p].skipList : t - e.addedAt <= SkippedKeyTtl}
    BY <1>p, <1>t DEF Prune, RatchetState
  <2>2. \A e \in ratchet[p].skipList : e.addedAt \in Nat /\ e.addedAt <= now
    BY <1>t, StateFields DEF SkipEntry, InStep, ReadHalf, FiledFrom
  <2>3. \A e \in ratchet[p].skipList : ~(t - e.addedAt <= SkippedKeyTtl)
    BY <1>t, <2>2, TtlIsNat
  <2> QED
    BY <2>1, <2>3
<1> HIDE DEF t
<1>3. Filed(w, m) = {} /\ CanSkip(w, m.counter)
  <2>1. Cardinality(w.skipList) = 0
    BY <1>2, FS_EmptySet
  <2>2. m.counter \in Nat /\ w.recvCounter \in Nat
    BY <1>t, <1>1, StateFields, MessageIs DEF Inbound
  <2> QED
    BY <1>1, <1>2, <2>1, <2>2, BudgetIsNat DEF Filed, CanSkip
<1>4. Caught(w, m, t).recvChain = m.key
  BY <1>t, <1>1, ChainLeadsTo
<1>5. OpensInChain(w, m, t)
  BY <1>1, <1>3, <1>4 DEF OpensInChain
<1> QED
  BY <1>p, <1>5 DEF CanOpenAt, t

(* A ciphertext is sent. *)

\* Nothing expires before the first key could.
LEMMA PruneKeepsAll ==
    ASSUME NEW s \in RatchetState, NEW t \in Nat, t <= SkippedKeyTtl, NEW w, w = Prune(s, t)
    PROVE  w.skipList = s.skipList
<1>1. w.skipList = {e \in s.skipList : t - e.addedAt <= SkippedKeyTtl}
  BY DEF Prune, RatchetState
<1>2. \A e \in s.skipList : e.addedAt \in Nat
  BY StateFields DEF SkipEntry
<1>3. \A e \in s.skipList : t - e.addedAt <= SkippedKeyTtl
  BY <1>2, TtlIsNat
<1> QED
  BY <1>1, <1>3

LEMMA SentState ==
    ASSUME NEW s \in RatchetState, NEW t \in Nat, NEW u, u = Prune(AfterSend(s), t)
    PROVE  /\ u.root = s.root /\ u.sendChain.dh = s.sendChain.dh /\ u.sendPub = s.sendPub
           /\ u.remotePub = s.remotePub /\ u.recvChain = s.recvChain
           /\ u.recvCounter = s.recvCounter /\ u.prevSendChainLen = s.prevSendChainLen
           /\ u.sendCounter = s.sendCounter + 1
           /\ u.skipList \subseteq s.skipList
           /\ t <= SkippedKeyTtl => u.skipList = s.skipList
<1>w. PICK w : w = AfterSend(s)
  OBVIOUS
<1> DEFINE k == Advance(s.sendChain, 1)
<1>k. k \in ChainKey /\ k.dh = s.sendChain.dh /\ s.sendCounter + 1 \in Nat
  <2>1. s.sendChain \in ChainKey /\ s.sendCounter \in Nat /\ 1 \in Nat
    BY StateFields
  <2>2. PICK c \in ChainKey, n \in Nat : c = s.sendChain /\ n = 1
    BY <2>1
  <2>3. Advance(c, n) \in ChainKey /\ Advance(c, n).dh = c.dh
    BY AdvanceChain
  <2> QED
    BY <2>1, <2>2, <2>3
<1>1. w = [s EXCEPT !.sendCounter = s.sendCounter + 1, !.sendChain = k]
  BY <1>w DEF AfterSend
<1> HIDE DEF k
<1>2. /\ w \in RatchetState /\ w.root = s.root /\ w.sendChain = k /\ w.sendPub = s.sendPub
      /\ w.remotePub = s.remotePub /\ w.recvChain = s.recvChain
      /\ w.recvCounter = s.recvCounter /\ w.prevSendChainLen = s.prevSendChainLen
      /\ w.sendCounter = s.sendCounter + 1 /\ w.skipList = s.skipList
  BY <1>1, <1>k DEF RatchetState
<1>3. /\ u.root = w.root /\ u.sendChain = w.sendChain /\ u.sendPub = w.sendPub
      /\ u.remotePub = w.remotePub /\ u.recvChain = w.recvChain
      /\ u.recvCounter = w.recvCounter /\ u.prevSendChainLen = w.prevSendChainLen
      /\ u.sendCounter = w.sendCounter /\ u.skipList \subseteq w.skipList
  BY <1>2, <1>w DEF Prune, RatchetState
<1>4. t <= SkippedKeyTtl => u.skipList = w.skipList
  BY <1>2, <1>w, PruneKeepsAll
<1> QED
  BY <1>2, <1>3, <1>4, <1>k

\* What Send changes, as the lemmas below need it.
SentBy(p, m) ==
    LET s == ratchet[p]
        u == ratchet'[p] IN
    /\ m = Outgoing(p) /\ m \notin sent /\ sent' = sent \cup {m}
    /\ UNCHANGED <<accepted, now>>
    /\ \A q \in Party : q # p => ratchet'[q] = ratchet[q]
    /\ u.root = s.root /\ u.sendChain.dh = s.sendChain.dh /\ u.sendPub = s.sendPub
    /\ u.remotePub = s.remotePub /\ u.recvChain = s.recvChain
    /\ u.recvCounter = s.recvCounter /\ u.prevSendChainLen = s.prevSendChainLen
    /\ u.sendCounter = s.sendCounter + 1
    /\ u.skipList \subseteq s.skipList
    /\ now <= SkippedKeyTtl => u.skipList = s.skipList

LEMMA SendDoes ==
    ASSUME IInv, NEW p \in Party, Send(p)
    PROVE  SentBy(p, Outgoing(p))
<1>1. ratchet \in [Party -> RatchetState] /\ now \in Nat
  BY DEF IInv, TypeOK
<1>2. PICK u : u = Prune(AfterSend(ratchet[p]), now)
  OBVIOUS
<1>3. /\ ratchet' = [ratchet EXCEPT ![p] = u] /\ sent' = sent \cup {Outgoing(p)}
      /\ UNCHANGED <<accepted, now>>
  BY <1>2 DEF Send
<1>4. ratchet'[p] = u /\ \A q \in Party : q # p => ratchet'[q] = ratchet[q]
  BY <1>1, <1>3
<1>5. Outgoing(p) \notin sent
  BY SendInv
<1>6. PICK s \in RatchetState, t \in Nat : s = ratchet[p] /\ t = now
  BY <1>1
<1> QED
  BY <1>2, <1>3, <1>4, <1>5, <1>6, SentState DEF SentBy

LEMMA SendKeepsSendHalf ==
    ASSUME IInv, SendHalf, NEW p \in Party, NEW m, SentBy(p, m)
    PROVE  SendHalf'
<1> DEFINE s == ratchet[p]
           u == ratchet'[p]
           N == Len(s.root)
<1>t. /\ TypeOK /\ s \in RatchetState /\ s.root \in Seq(SUBSET KeyPair) /\ N \in Nat
      /\ s.sendCounter \in Nat /\ s.prevSendChainLen \in Nat /\ s.sendPub \in KeyPair
  BY StateFields DEF IInv, TypeOK
<1>m. /\ m.from = p /\ m.pub = s.sendPub /\ m.counter = s.sendCounter
      /\ m.prevChainLen = s.prevSendChainLen /\ m.key = s.sendChain /\ Length(m) = N
  BY DEF SentBy, Outgoing, SendHalf, Length
<1>s. sent' = sent \cup {m}
  BY DEF SentBy
<1>u. /\ u.root = s.root /\ u.sendChain.dh = s.sendChain.dh /\ u.sendPub = s.sendPub
      /\ u.prevSendChainLen = s.prevSendChainLen /\ u.sendCounter = s.sendCounter + 1
      /\ \A q \in Party : q # p => ratchet'[q] = ratchet[q]
  BY DEF SentBy
<1>h. /\ \A q \in Party :
            /\ ratchet[q].sendChain.dh = ratchet[q].root /\ Side(q, Len(ratchet[q].root))
            /\ SentUpTo(sent, q, Len(ratchet[q].root), ratchet[q].sendCounter)
            /\ SentUpTo(sent, q, Len(ratchet[q].root) - 2, ratchet[q].prevSendChainLen)
      /\ \A n \in sent :
            /\ Side(n.from, Length(n)) /\ Length(n) <= Len(ratchet[n.from].root)
            /\ Length(n) = Len(ratchet[n.from].root) => n.pub = ratchet[n.from].sendPub
            /\ SentUpTo(sent, n.from, Length(n) - 2, n.prevChainLen)
            /\ \A c \in 0..n.counter : Has(sent, n.from, Length(n), c)
      /\ \A n, k \in sent : n.from = k.from /\ Length(n) = Length(k) => n.pub = k.pub
  BY DEF SendHalf
<1>f. \A n \in sent : n.from \in Party /\ Length(n) \in Nat /\ n.counter \in Nat
  BY <1>t, MessageIs
<1> HIDE DEF s, u, N
<1>1. ASSUME NEW q, NEW n, NEW c
      PROVE  Has(sent', q, n, c) <=> Has(sent, q, n, c) \/ (q = p /\ n = N /\ c = s.sendCounter)
  BY <1>m, <1>s DEF Has
<1>2. ASSUME NEW q, NEW n, NEW k, q # p \/ n # N, SentUpTo(sent, q, n, k)
      PROVE  SentUpTo(sent', q, n, k)
  BY <1>1, <1>2 DEF SentUpTo
<1>3. SentUpTo(sent', p, N, s.sendCounter + 1)
  <2>1. SentUpTo(sent, p, N, s.sendCounter)
    BY <1>h DEF s, N
  <2>2. ASSUME NEW c \in Nat  PROVE Has(sent', p, N, c) <=> c < s.sendCounter + 1
    BY <1>1, <1>t, <2>1 DEF SentUpTo
  <2> QED
    BY <2>2 DEF SentUpTo
<1>4. ASSUME NEW q \in Party
      PROVE  /\ ratchet'[q].sendChain.dh = ratchet'[q].root /\ Side(q, Len(ratchet'[q].root))
             /\ SentUpTo(sent', q, Len(ratchet'[q].root), ratchet'[q].sendCounter)
             /\ SentUpTo(sent', q, Len(ratchet'[q].root) - 2, ratchet'[q].prevSendChainLen)
  <2>1. CASE q = p
    <3>1. u.sendChain.dh = u.root /\ Side(p, Len(u.root))
      BY <1>h, <1>u DEF s, N
    <3>2. SentUpTo(sent', p, Len(u.root), u.sendCounter)
      BY <1>3, <1>u DEF N
    <3>3. SentUpTo(sent', p, Len(u.root) - 2, u.prevSendChainLen)
      <4>1. SentUpTo(sent, p, N - 2, s.prevSendChainLen)
        BY <1>h DEF s, N
      <4>2. N - 2 # N
        BY <1>t
      <4>3. SentUpTo(sent', p, N - 2, s.prevSendChainLen)
        BY <1>2, <4>1, <4>2
      <4> QED
        BY <4>3, <1>u DEF N
    <3> QED
      BY <2>1, <3>1, <3>2, <3>3 DEF u
  <2>2. CASE q # p
    <3>1. ratchet'[q] = ratchet[q]
      BY <1>u, <2>2
    <3> QED
      BY <1>2, <1>h, <2>2, <3>1
  <2> QED
    BY <2>1, <2>2
<1>5. \A q \in Party : ratchet'[q].root = ratchet[q].root /\ ratchet'[q].sendPub = ratchet[q].sendPub
  BY <1>u DEF s, u
<1>6. ASSUME NEW n \in sent'
      PROVE  /\ Side(n.from, Length(n)) /\ Length(n) <= Len(ratchet'[n.from].root)
             /\ Length(n) = Len(ratchet'[n.from].root) => n.pub = ratchet'[n.from].sendPub
             /\ SentUpTo(sent', n.from, Length(n) - 2, n.prevChainLen)
             /\ \A c \in 0..n.counter : Has(sent', n.from, Length(n), c)
  <2>1. CASE n \in sent
    <3>1. /\ Side(n.from, Length(n)) /\ Length(n) <= Len(ratchet'[n.from].root)
          /\ Length(n) = Len(ratchet'[n.from].root) => n.pub = ratchet'[n.from].sendPub
      BY <1>h, <1>f, <1>5, <2>1
    <3>2. \A c \in 0..n.counter : Has(sent', n.from, Length(n), c)
      BY <1>1, <1>h, <2>1
    <3>3. SentUpTo(sent', n.from, Length(n) - 2, n.prevChainLen)
      <4>1. n.from = p => Length(n) <= N
        BY <1>h, <2>1 DEF N, s
      <4>2. n.from # p \/ Length(n) - 2 # N
        BY <1>f, <1>t, <2>1, <4>1
      <4> QED
        BY <1>2, <1>h, <2>1, <4>2
    <3> QED
      BY <3>1, <3>2, <3>3
  <2>2. CASE n = m
    <3>1. /\ Side(p, N) /\ N <= Len(ratchet'[p].root) /\ ratchet'[p].sendPub = s.sendPub
      BY <1>h, <1>t, <1>5 DEF s, N
    <3>2. SentUpTo(sent', p, N - 2, s.prevSendChainLen)
      BY <1>4, <1>u DEF u, N
    <3>3. \A c \in 0..s.sendCounter : Has(sent', p, N, c)
      BY <1>3, <1>t DEF SentUpTo
    <3> QED
      BY <1>m, <2>2, <3>1, <3>2, <3>3
  <2> QED
    BY <1>s, <2>1, <2>2
<1>7. ASSUME NEW n \in sent', NEW k \in sent', n.from = k.from, Length(n) = Length(k)
      PROVE  n.pub = k.pub
  BY <1>h, <1>m, <1>s, <1>7 DEF N, s
<1> QED
  BY <1>4, <1>6, <1>7 DEF SendHalf

LEMMA SendKeepsLockstep ==
    ASSUME IInv, Lockstep, NEW p \in Party, NEW m, SentBy(p, m)
    PROVE  Lockstep'
<1>1. PICK a \in Party, b \in Party : a # b /\ Ahead(a, b)
  BY DEF Lockstep
<1>2. \A q \in Party : LET r == ratchet[q]
                           u == ratchet'[q] IN
         /\ u.root = r.root /\ u.sendPub = r.sendPub /\ u.remotePub = r.remotePub
         /\ u.recvChain = r.recvChain /\ u.recvCounter = r.recvCounter
         /\ u.sendCounter = r.sendCounter \/ u.sendCounter = r.sendCounter + 1
         /\ u.skipList \subseteq r.skipList
  BY DEF SentBy
<1>3. \A q \in Party : ratchet[q].sendCounter \in Nat /\ ratchet[q].recvCounter \in Nat
  BY StateFields DEF IInv, TypeOK
<1>4. Waiting(b) => Waiting(b)'
  BY <1>2 DEF Waiting, SentBy
<1>5. ratchet'[a].recvCounter <= ratchet'[b].sendCounter
  BY <1>1, <1>2, <1>3 DEF Ahead
<1>6. Ahead(a, b)'
  BY <1>1, <1>2, <1>4, <1>5 DEF Ahead
<1> QED
  BY <1>1, <1>6 DEF Lockstep

LEMMA SendKeepsReadHalf ==
    ASSUME IInv, InStep, NEW p \in Party, NEW m, SentBy(p, m), NEW q \in Party
    PROVE  ReadHalf(q)'
<1>t. TypeOK /\ SendHalf /\ ReadHalf(q)
  BY DEF IInv, InStep
<1>r. PICK r, u, n : r = ratchet[q] /\ u = ratchet'[q] /\ n = Len(r.recvChain.dh)
  OBVIOUS
<1>1. /\ u.remotePub = r.remotePub /\ u.recvChain = r.recvChain /\ u.recvCounter = r.recvCounter
      /\ u.root = r.root /\ u.skipList \subseteq r.skipList
      /\ now <= SkippedKeyTtl => u.skipList = r.skipList
  BY <1>r DEF SentBy
<1>2. accepted' = accepted /\ now' = now /\ sent' = sent \cup {m}
  BY DEF SentBy
<1>h. /\ Waiting(q) \/ ReadsChain(r, Inbound(q))
      /\ FiledFrom(r, Inbound(q), now)
      /\ now <= SkippedKeyTtl => KeptFrom(r, Pending(q))
  BY <1>t, <1>r DEF ReadHalf
<1>3. Waiting(q) => Waiting(q)'
  BY <1>1, <1>2, <1>r DEF Waiting
<1>4. Inbound(q)' = Inbound(q) \cup (IF m.from = q THEN {} ELSE {m})
  BY <1>2 DEF Inbound
<1>m. m.from = p /\ m.pub = ratchet[p].sendPub /\ m.counter = ratchet[p].sendCounter
      /\ m.key.dh = ratchet[p].root /\ Length(m) = Len(ratchet[p].root)
  BY <1>t DEF SentBy, Outgoing, SendHalf, Length
\* The new ciphertext is of the chain q reads and not passed, or of a chain to come.
<1>5. ASSUME q # p
      PROVE  (Waiting(q) \/ ReadsChain(r, {m})) /\ ~Behind(r, m)
  <2>1. Ahead(q, p) \/ Ahead(p, q)
    BY <1>5 DEF InStep, Lockstep, Party
  <2>2. CASE Ahead(q, p)
    <3>1. /\ r.remotePub = ratchet[p].sendPub /\ r.recvChain.dh = ratchet[p].root
          /\ r.recvCounter <= ratchet[p].sendCounter
      BY <1>r, <2>2 DEF Ahead
    <3>2. ratchet[p].sendCounter \in Nat /\ r.recvCounter \in Nat /\ n \in Nat
      <4>1. ratchet[p] \in RatchetState /\ ratchet[q] \in RatchetState
        BY <1>t DEF TypeOK
      <4>2. Len(ratchet[p].root) \in Nat
        BY <4>1, StateFields
      <4> QED
        BY <1>r, <3>1, <4>1, <4>2, StateFields
    <3> QED
      BY <1>m, <1>r, <3>1, <3>2 DEF ReadsChain, Behind
  <2>3. CASE Ahead(p, q)
    <3>1. m.pub # r.remotePub
      BY <1>m, <1>r, <2>3 DEF Ahead
    <3>2. Length(m) = Len(r.root) + 1 /\ Len(r.root) \in Nat
      BY <1>5, <1>m, <1>r, <1>t, <2>3, LengthBound
    <3>3. n = Len(r.root) - 1 \/ (Waiting(q) /\ n = 1 /\ Len(r.root) = 0)
      <4>1. Waiting(q) => r.recvChain = ZeroChain /\ r.root = <<>>
        BY <1>r DEF Waiting
      <4>2. Waiting(q) => n = 1 /\ Len(r.root) = 0
        BY <1>r, <4>1 DEF ZeroChain
      <4> QED
        BY <1>r, <2>3, <4>2 DEF Ahead
    <3> QED
      <4>1. ~Behind(r, m)
        <5>1. ~(Length(m) < n)
          BY <3>2, <3>3
        <5> QED
          BY <1>r, <3>1, <5>1 DEF Behind
      <4>2. Waiting(q) \/ Length(m) # Len(r.recvChain.dh)
        BY <1>r, <3>2, <3>3
      <4> QED
        BY <3>1, <4>1, <4>2 DEF ReadsChain
  <2> QED
    BY <2>1, <2>2, <2>3
<1>6. \A x \in Inbound(q)' : x \in Inbound(q) \/ (x = m /\ q # p)
  BY <1>4, <1>m
<1>7. Waiting(q)' \/ ReadsChain(u, Inbound(q)')
  BY <1>1, <1>3, <1>5, <1>6, <1>h DEF ReadsChain
<1>8. FiledFrom(u, Inbound(q)', now')
  BY <1>1, <1>2, <1>4, <1>h DEF FiledFrom
<1>9. now' <= SkippedKeyTtl => KeptFrom(u, Pending(q)')
  <2>1. SUFFICES ASSUME now <= SkippedKeyTtl, NEW x \in Pending(q)', Behind(u, x)
                 PROVE  \E e \in u.skipList : e.pub = x.pub /\ e.counter = x.counter
    BY <1>2 DEF KeptFrom
  <2>2. Behind(r, x)
    BY <1>1, <2>1 DEF Behind
  <2>3. x \in Pending(q)
    BY <1>2, <1>5, <1>6, <2>2 DEF Pending
  <2> QED
    BY <1>1, <1>h, <2>1, <2>2, <2>3 DEF KeptFrom
<1> QED
  BY <1>7, <1>8, <1>9, <1>r DEF ReadHalf

LEMMA SendKeepsInStep ==
    ASSUME IInv, InStep, NEW p \in Party, Send(p)
    PROVE  InStep'
<1>1. PICK m : SentBy(p, m)
  BY SendDoes
<1> QED
  BY <1>1, SendKeepsSendHalf, SendKeepsLockstep, SendKeepsReadHalf DEF InStep

(* A ciphertext is opened. *)

Keyed(s) == \A e, f \in s.skipList : e.pub = f.pub /\ e.counter = f.counter => e = f

\* The skip list after a gap is filed: what was there but for the counters of the gap, and
\* one key for each of these.
SkipListFacts(s, pub, target, t, u) ==
    /\ \A e \in u.skipList :
          \/ e \in s.skipList
          \/ /\ e.pub = pub /\ e.counter \in s.recvCounter .. (target - 1) /\ e.addedAt = t
             /\ e.key \in ChainKey /\ e.key.dh = s.recvChain.dh /\ e.key.step = e.counter
    /\ \A e \in s.skipList :
          (e.pub = pub => e.counter < s.recvCounter) => e \in u.skipList
    /\ \A c \in s.recvCounter .. (target - 1) :
          \E e \in u.skipList : e.pub = pub /\ e.counter = c
    /\ Keyed(s) => Keyed(u)

LEMMA SkipList ==
    ASSUME NEW s \in RatchetState, NEW pub, NEW target \in Nat, NEW t \in Nat,
           NEW u, u = SkipMessages(s, pub, target, t), s.recvChain.step = s.recvCounter
    PROVE  SkipListFacts(s, pub, target, t, u)
<1>f. /\ s.recvChain \in ChainKey /\ s.recvCounter \in Nat /\ s.skipList \in SUBSET SkipEntry
  BY StateFields
<1>1. CASE s.recvCounter >= target
  <2>1. u = s
    BY <1>1 DEF SkipMessages
  <2>2. s.recvCounter .. (target - 1) = {}
    BY <1>1, <1>f
  <2> QED
    BY <2>1, <2>2 DEF SkipListFacts
<1>2. CASE ~(s.recvCounter >= target)
  <2> DEFINE gap == Skipped(s, pub, target, t)
             kept == {e \in s.skipList :
                         ~(e.pub = pub /\ e.counter \in s.recvCounter .. (target - 1))}
  <2>1. u.skipList = kept \cup gap
    BY <1>2 DEF SkipMessages, RatchetState
  <2>2. \A c \in s.recvCounter .. (target - 1) :
           [pub |-> pub, counter |-> c, key |-> Advance(s.recvChain, c - s.recvCounter),
            addedAt |-> t] \in gap
    BY DEF Skipped
  <2>3. ASSUME NEW e \in gap
        PROVE  /\ e.pub = pub /\ e.counter \in s.recvCounter .. (target - 1) /\ e.addedAt = t
               /\ e.key \in ChainKey /\ e.key.dh = s.recvChain.dh /\ e.key.step = e.counter
               /\ e = [pub |-> pub, counter |-> e.counter,
                       key |-> Advance(s.recvChain, e.counter - s.recvCounter), addedAt |-> t]
    <3>1. PICK c \in s.recvCounter .. (target - 1) :
             e = [pub |-> pub, counter |-> c,
                  key |-> Advance(s.recvChain, c - s.recvCounter), addedAt |-> t]
      BY DEF Skipped
    <3>2. PICK k \in ChainKey, n \in Nat : k = s.recvChain /\ n = c - s.recvCounter
      BY <1>f
    <3>3. /\ Advance(k, n) \in ChainKey /\ Advance(k, n).dh = k.dh
          /\ Advance(k, n).step = k.step + n
      BY AdvanceChain
    <3> QED
      BY <1>f, <3>1, <3>2, <3>3
  <2> HIDE DEF gap, kept
  <2>4. \A e \in u.skipList : e \in s.skipList \/ e \in gap
    BY <2>1 DEF kept
  <2>5. \A e \in s.skipList : (e.pub = pub => e.counter < s.recvCounter) => e \in u.skipList
    BY <1>f, <2>1 DEF kept, SkipEntry
  <2>6. \A c \in s.recvCounter .. (target - 1) : \E e \in u.skipList : e.pub = pub /\ e.counter = c
    <3> SUFFICES ASSUME NEW c \in s.recvCounter .. (target - 1)
                 PROVE  \E e \in u.skipList : e.pub = pub /\ e.counter = c
      OBVIOUS
    <3>1. PICK e \in gap : e = [pub |-> pub, counter |-> c,
                                key |-> Advance(s.recvChain, c - s.recvCounter), addedAt |-> t]
      BY <2>2
    <3>2. e \in u.skipList /\ e.pub = pub /\ e.counter = c
      BY <2>1, <3>1
    <3> QED
      BY <3>2
  <2>7. ASSUME Keyed(s), NEW e \in u.skipList, NEW f \in u.skipList,
               e.pub = f.pub, e.counter = f.counter
        PROVE  e = f
    <3>1. (e \in kept \/ e \in gap) /\ (f \in kept \/ f \in gap)
      BY <2>1
    <3>2. \A g \in kept : g \in s.skipList /\ ~(g.pub = pub /\ g.counter \in s.recvCounter .. (target - 1))
      BY DEF kept
    <3>3. CASE e \in kept /\ f \in kept
      BY <2>7, <3>2, <3>3 DEF Keyed
    <3>4. CASE e \in gap /\ f \in gap
      BY <2>3, <2>7, <3>4
    <3>5. CASE (e \in kept /\ f \in gap) \/ (e \in gap /\ f \in kept)
      BY <2>3, <2>7, <3>2, <3>5
    <3> QED
      BY <3>1, <3>3, <3>4, <3>5
  <2> QED
    BY <2>3, <2>4, <2>5, <2>6, <2>7 DEF Keyed, SkipListFacts
<1> QED
  BY <1>1, <1>2, <1>f

\* The state that decrypt works on, and that it is the receiver's own as long as no
\* skipped key can have expired.
LEMMA Working ==
    ASSUME IInv, NEW p \in Party, NEW w, w = Prune(ratchet[p], now)
    PROVE  /\ w \in RatchetState /\ w.root = ratchet[p].root /\ w.sendChain = ratchet[p].sendChain
           /\ w.sendCounter = ratchet[p].sendCounter /\ w.sendPub = ratchet[p].sendPub
           /\ w.remotePub = ratchet[p].remotePub /\ w.recvChain = ratchet[p].recvChain
           /\ w.recvCounter = ratchet[p].recvCounter
           /\ w.prevSendChainLen = ratchet[p].prevSendChainLen
           /\ w.skipList \subseteq ratchet[p].skipList
           /\ now <= SkippedKeyTtl => w.skipList = ratchet[p].skipList
           /\ w.recvChain.step = w.recvCounter
<1>1. ratchet[p] \in RatchetState /\ now \in Nat
  BY DEF IInv, TypeOK
<1>2. PICK s \in RatchetState, t \in Nat : s = ratchet[p] /\ t = now
  BY <1>1
<1>3. w.prevSendChainLen = s.prevSendChainLen
  BY <1>2 DEF Prune, RatchetState
<1>4. now <= SkippedKeyTtl => w.skipList = s.skipList
  BY <1>2, PruneKeepsAll
<1> QED
  BY <1>2, <1>3, <1>4, PruneState DEF IInv, Sane

\* What committing u for m does, when u keeps the send half, or not.
Opened(p, m, u) ==
    /\ ratchet'[p] = u /\ \A q \in Party : q # p => ratchet'[q] = ratchet[q]
    /\ accepted'[p] = accepted[p] \cup {m} /\ \A q \in Party : q # p => accepted'[q] = accepted[q]
    /\ UNCHANGED <<sent, now>>

LEMMA CommitDoes ==
    ASSUME IInv, NEW p \in Party, NEW m, NEW u, Commit(p, m, u)
    PROVE  Opened(p, m, u)
BY DEF Commit, Opened, IInv, TypeOK

\* Opening on the chain that is read leaves the send halves alone.
LEMMA OpenedKeepsRest ==
    ASSUME IInv, InStep, NEW p \in Party, NEW m \in Inbound(p), NEW u, Opened(p, m, u),
           u.root = ratchet[p].root, u.sendChain = ratchet[p].sendChain,
           u.sendCounter = ratchet[p].sendCounter, u.sendPub = ratchet[p].sendPub,
           u.prevSendChainLen = ratchet[p].prevSendChainLen,
           u.remotePub = ratchet[p].remotePub, u.recvChain.dh = ratchet[p].recvChain.dh,
           ~Waiting(p), \A a \in Party : a # p /\ Ahead(p, a) => u.recvCounter <= ratchet[a].sendCounter
    PROVE  SendHalf' /\ Lockstep' /\ \A q \in Party : q # p => ReadHalf(q)'
<1>1. \A q \in Party :
         /\ ratchet'[q].root = ratchet[q].root /\ ratchet'[q].sendChain = ratchet[q].sendChain
         /\ ratchet'[q].sendCounter = ratchet[q].sendCounter
         /\ ratchet'[q].sendPub = ratchet[q].sendPub
         /\ ratchet'[q].prevSendChainLen = ratchet[q].prevSendChainLen
         /\ ratchet'[q].remotePub = ratchet[q].remotePub
         /\ ratchet'[q].recvChain.dh = ratchet[q].recvChain.dh
  BY DEF Opened
<1>2. sent' = sent /\ now' = now
  BY DEF Opened
<1>3. SendHalf'
  <2>1. \A x \in sent : x.from \in Party
    BY MessageIs DEF IInv
  <2> QED
    BY <1>1, <1>2, <2>1 DEF InStep, SendHalf
<1>4. \A q \in Party : q # p => (Waiting(q) <=> Waiting(q)')
  BY DEF Opened, Waiting
<1>5. Lockstep'
  <2>1. PICK a \in Party, b \in Party : a # b /\ Ahead(a, b)
    BY DEF InStep, Lockstep
  <2>2. ratchet'[a].recvCounter <= ratchet'[b].sendCounter
    BY <1>1, <2>1 DEF Opened, Ahead
  <2>3. Waiting(b) => Waiting(b)'
    BY <1>4
  <2>4. Ahead(a, b)'
    BY <1>1, <2>1, <2>2, <2>3 DEF Ahead
  <2> QED
    BY <2>1, <2>4 DEF Lockstep
<1>6. ASSUME NEW q \in Party, q # p  PROVE ReadHalf(q)'
  <2>1. ratchet'[q] = ratchet[q] /\ accepted'[q] = accepted[q] /\ ReadHalf(q)
    BY <1>6 DEF Opened, InStep
  <2> QED
    BY <1>2, <1>4, <1>6, <2>1 DEF ReadHalf, Inbound, Pending
<1> QED
  BY <1>3, <1>5, <1>6

\* Opening with a skipped key.
LEMMA FiledKeepsInStep ==
    ASSUME IInv, InStep, NEW p \in Party, NEW m \in Inbound(p), ReceiveFiled(p, m)
    PROVE  InStep'
<1>w. PICK w : w = Prune(ratchet[p], now)
  OBVIOUS
<1>1. /\ w \in RatchetState /\ w.root = ratchet[p].root /\ w.sendChain = ratchet[p].sendChain
      /\ w.sendCounter = ratchet[p].sendCounter /\ w.sendPub = ratchet[p].sendPub
      /\ w.remotePub = ratchet[p].remotePub /\ w.recvChain = ratchet[p].recvChain
      /\ w.recvCounter = ratchet[p].recvCounter
      /\ w.prevSendChainLen = ratchet[p].prevSendChainLen
      /\ w.skipList \subseteq ratchet[p].skipList
      /\ now <= SkippedKeyTtl => w.skipList = ratchet[p].skipList
  BY <1>w, Working
<1>u. PICK u : u = AfterFiled(w, m)
  OBVIOUS
<1>2. /\ u.root = w.root /\ u.sendChain = w.sendChain /\ u.sendCounter = w.sendCounter
      /\ u.sendPub = w.sendPub /\ u.remotePub = w.remotePub /\ u.recvChain = w.recvChain
      /\ u.recvCounter = w.recvCounter /\ u.prevSendChainLen = w.prevSendChainLen
      /\ u.skipList = w.skipList \ Filed(w, m)
  BY <1>1, <1>u DEF AfterFiled, RatchetState
<1>3. Opened(p, m, u)
  BY <1>u, <1>w, CommitDoes DEF ReceiveFiled
<1>4. ~Waiting(p)
  <2>1. w.skipList # {}
    BY <1>w DEF ReceiveFiled, OpensFiled, Filed
  <2> QED
    BY <1>1, <2>1 DEF Waiting
<1>5. \A a \in Party : a # p /\ Ahead(p, a) => u.recvCounter <= ratchet[a].sendCounter
  BY <1>1, <1>2 DEF Ahead
<1>6. SendHalf' /\ Lockstep' /\ \A q \in Party : q # p => ReadHalf(q)'
  BY <1>1, <1>2, <1>3, <1>4, <1>5, OpenedKeepsRest
<1>7. ReadHalf(p)'
  <2>1. ReadHalf(p)
    BY DEF InStep
  <2>2. Inbound(p)' = Inbound(p) /\ now' = now /\ ratchet'[p] = u /\ Pending(p)' = Pending(p) \ {m}
    BY <1>3 DEF Opened, Inbound, Pending
  <2>3. ReadsChain(u, Inbound(p))
    BY <1>1, <1>2, <1>4, <2>1 DEF ReadHalf, ReadsChain
  <2>4. FiledFrom(u, Inbound(p), now)
    BY <1>1, <1>2, <2>1 DEF ReadHalf, FiledFrom
  <2>5. ASSUME now <= SkippedKeyTtl, NEW x \in Pending(p), x # m, Behind(u, x)
        PROVE  \E e \in u.skipList : e.pub = x.pub /\ e.counter = x.counter
    <3>1. Behind(ratchet[p], x)
      BY <1>1, <1>2, <2>5 DEF Behind
    <3>2. PICK e \in ratchet[p].skipList : e.pub = x.pub /\ e.counter = x.counter
      BY <2>1, <2>5, <3>1 DEF ReadHalf, KeptFrom
    <3>3. ~(e.pub = m.pub /\ e.counter = m.counter)
      BY <2>5, <3>2, SameChain DEF InStep, Pending, Inbound
    <3> QED
      BY <1>1, <1>2, <2>5, <3>2, <3>3 DEF Filed
  <2>6. now <= SkippedKeyTtl => KeptFrom(u, Pending(p) \ {m})
    BY <2>5 DEF KeptFrom
  <2> QED
    BY <2>2, <2>3, <2>4, <2>6 DEF ReadHalf
<1> QED
  BY <1>6, <1>7 DEF InStep

\* Opening on the chain that is read, the ciphertexts passed over being filed.
LEMMA InChainKeepsInStep ==
    ASSUME IInv, InStep, NEW p \in Party, NEW m \in Inbound(p), ReceiveInChain(p, m)
    PROVE  InStep'
<1>m. /\ m \in sent /\ m.from # p /\ m.pub \in KeyPair /\ m.counter \in Nat /\ now \in Nat /\ m.pub # SPK
      /\ m.key.step = m.counter /\ TypeOK /\ SendHalf
  BY MessageIs DEF Inbound, IInv, SentInv, Wellformed, TypeOK, InStep
<1>w. PICK w : w = Prune(ratchet[p], now)
  OBVIOUS
<1>1. /\ w \in RatchetState /\ w.root = ratchet[p].root /\ w.sendChain = ratchet[p].sendChain
      /\ w.sendCounter = ratchet[p].sendCounter /\ w.sendPub = ratchet[p].sendPub
      /\ w.remotePub = ratchet[p].remotePub /\ w.recvChain = ratchet[p].recvChain
      /\ w.recvCounter = ratchet[p].recvCounter
      /\ w.prevSendChainLen = ratchet[p].prevSendChainLen
      /\ w.skipList \subseteq ratchet[p].skipList
      /\ now <= SkippedKeyTtl => w.skipList = ratchet[p].skipList
      /\ w.recvChain.step = w.recvCounter
  BY <1>w, Working
<1>c. PICK c : c = SkipMessages(w, m.pub, m.counter, now)
  OBVIOUS
<1>u. PICK u : u = TakeChainKey(c)
  OBVIOUS
<1>o. /\ m.pub = w.remotePub /\ c.recvChain = m.key /\ Opened(p, m, u)
  <2>1. OpensInChain(w, m, now) /\ Commit(p, m, u)
    BY <1>w, <1>c, <1>u DEF ReceiveInChain, AfterInChain, Caught
  <2> QED
    BY <1>c, <2>1, CommitDoes DEF OpensInChain, Caught
<1>2. SkipFacts(w, m.pub, m.counter, c) /\ c.prevSendChainLen = w.prevSendChainLen
  BY <1>1, <1>m, <1>c, SkipState DEF SkipMessages, RatchetState
<1>3. /\ c \in RatchetState /\ c.root = w.root /\ c.sendChain = w.sendChain
      /\ c.sendCounter = w.sendCounter /\ c.sendPub = w.sendPub /\ c.remotePub = w.remotePub
      /\ c.recvChain.dh = w.recvChain.dh /\ c.recvCounter = m.counter /\ m.counter >= w.recvCounter
  <2>1. c.recvChain.step = c.recvCounter /\ w.recvCounter \in Nat
    BY <1>1, <1>2, StateFields DEF SkipFacts
  <2> QED
    BY <1>2, <1>m, <1>o, <2>1 DEF SkipFacts
<1>4. /\ u.root = w.root /\ u.sendChain = w.sendChain /\ u.sendCounter = w.sendCounter
      /\ u.sendPub = w.sendPub /\ u.remotePub = w.remotePub /\ u.recvChain.dh = w.recvChain.dh
      /\ u.recvCounter = m.counter + 1 /\ u.skipList = c.skipList
  BY <1>3, <1>u, TakeState
<1>p. u.prevSendChainLen = w.prevSendChainLen
  BY <1>2, <1>3, <1>u DEF TakeChainKey, RatchetState
<1>5. ~Waiting(p)
  BY <1>1, <1>m, <1>o DEF Waiting
<1>6. ASSUME NEW a \in Party, a # p, Ahead(p, a)  PROVE u.recvCounter <= ratchet[a].sendCounter
  <2>1. m.from = a /\ m.pub = ratchet[a].sendPub
    BY <1>1, <1>m, <1>o, <1>6, MessageIs DEF Ahead, Party
  <2>2. m.counter < ratchet[a].sendCounter /\ ratchet[a].sendCounter \in Nat
    BY <1>m, <2>1, StateFields DEF IInv, SentInv, TypeOK
  <2> QED
    BY <1>4, <1>m, <2>2
<1>7. SendHalf' /\ Lockstep' /\ \A q \in Party : q # p => ReadHalf(q)'
  BY <1>1, <1>4, <1>p, <1>o, <1>5, <1>6, OpenedKeepsRest
<1>8. ReadHalf(p)'
  <2>1. ReadHalf(p)
    BY DEF InStep
  <2>2. Inbound(p)' = Inbound(p) /\ now' = now /\ ratchet'[p] = u /\ Pending(p)' = Pending(p) \ {m}
    BY <1>o DEF Opened, Inbound, Pending
  <2>3. ReadsChain(u, Inbound(p))
    BY <1>1, <1>4, <1>5, <2>1 DEF ReadHalf, ReadsChain
  <2>k. /\ \A e \in u.skipList :
              \/ e \in w.skipList
              \/ /\ e.pub = m.pub /\ e.counter \in w.recvCounter .. (m.counter - 1) /\ e.addedAt = now
                 /\ e.key \in ChainKey /\ e.key.dh = w.recvChain.dh /\ e.key.step = e.counter
        /\ \A e \in w.skipList : (e.pub = m.pub => e.counter < w.recvCounter) => e \in u.skipList
        /\ \A k \in w.recvCounter .. (m.counter - 1) :
              \E e \in u.skipList : e.pub = m.pub /\ e.counter = k
        /\ Keyed(w) => Keyed(u)
    <3>1. SkipListFacts(w, m.pub, m.counter, now, c)
      BY <1>1, <1>c, <1>m, SkipList, Zenon
    <3>4. Keyed(u) <=> Keyed(c)
      BY <1>4 DEF Keyed
    <3> QED
      BY <1>4, <3>1, <3>4 DEF SkipListFacts
  <2>4. FiledFrom(u, Inbound(p), now)
    <3>1. ASSUME NEW e \in u.skipList
          PROVE  /\ e.addedAt <= now /\ Len(e.key.dh) <= Len(u.recvChain.dh)
                 /\ \E x \in Inbound(p) : x.pub = e.pub /\ x.counter = e.counter /\ x.key = e.key
      <4>1. CASE e \in w.skipList
        BY <1>1, <1>4, <2>1, <4>1 DEF ReadHalf, FiledFrom
      <4>2. CASE /\ e.pub = m.pub /\ e.counter \in w.recvCounter .. (m.counter - 1) /\ e.addedAt = now
                 /\ e.key \in ChainKey /\ e.key.dh = w.recvChain.dh /\ e.key.step = e.counter
        <5>1. e.counter \in 0..m.counter
          BY <1>1, <1>m, <4>2, StateFields
        <5>2. PICK x \in sent : x.from = m.from /\ Length(x) = Length(m) /\ x.counter = e.counter
          BY <1>m, <5>1 DEF SendHalf, Has
        <5>3. x.pub = m.pub /\ x.key.dh = m.key.dh
          BY <1>m, <5>2, SameChain
        <5>4. x.key.dh = e.key.dh /\ x.key.step = e.key.step
          BY <1>3, <1>o, <4>2, <5>2, <5>3 DEF IInv, SentInv, Wellformed
        <5>5. x.key = e.key
          BY <1>m, <4>2, <5>4, KeyIs, MessageIs
        <5>6. Len(e.key.dh) <= Len(u.recvChain.dh)
          <6>1. e.key.dh = u.recvChain.dh /\ Len(e.key.dh) \in Nat
            BY <1>4, <4>2 DEF ChainKey
          <6> QED
            BY <6>1
        <5> QED
          BY <1>m, <4>2, <5>2, <5>3, <5>5, <5>6 DEF Inbound
      <4> QED
        BY <2>k, <4>1, <4>2
    <3>2. Keyed(u)
      BY <1>1, <2>1, <2>k DEF ReadHalf, FiledFrom, Keyed
    <3> QED
      BY <3>1, <3>2 DEF FiledFrom, Keyed
  <2>5. ASSUME now <= SkippedKeyTtl, NEW x \in Pending(p), x # m, Behind(u, x)
        PROVE  \E e \in u.skipList : e.pub = x.pub /\ e.counter = x.counter
    <3>x. x \in sent /\ x.counter \in Nat /\ w.recvCounter \in Nat
      BY <1>1, <1>m, MessageIs, StateFields DEF Pending, Inbound
    <3>1. CASE x.pub = m.pub /\ x.counter >= w.recvCounter
      <4>1. x.counter < m.counter + 1
        <5>1. Length(x) = Length(m) /\ Length(m) = Len(u.recvChain.dh) /\ Length(m) \in Nat
          BY <1>3, <1>4, <1>m, <1>o, <3>1, <3>x, SameChain, MessageIs DEF Length
        <5> QED
          BY <1>4, <2>5, <5>1 DEF Behind
      <4>2. x.counter # m.counter
        BY <1>m, <2>5, <3>1, <3>x, SameChain
      <4>3. x.counter \in w.recvCounter .. (m.counter - 1)
        BY <1>m, <3>1, <3>x, <4>1, <4>2
      <4> QED
        BY <2>k, <3>1, <4>3
    <3>2. CASE ~(x.pub = m.pub /\ x.counter >= w.recvCounter)
      <4>1. Behind(ratchet[p], x)
        BY <1>1, <1>4, <1>o, <2>5, <3>2, <3>x DEF Behind
      <4>2. PICK e \in ratchet[p].skipList : e.pub = x.pub /\ e.counter = x.counter
        BY <2>1, <2>5, <4>1 DEF ReadHalf, KeptFrom
      <4>3. e \in u.skipList
        BY <1>1, <2>5, <2>k, <3>2, <3>x, <4>2
      <4> QED
        BY <4>2, <4>3
    <3> QED
      BY <3>1, <3>2
  <2>6. now <= SkippedKeyTtl => KeptFrom(u, Pending(p) \ {m})
    BY <2>5 DEF KeptFrom
  <2> QED
    BY <2>2, <2>3, <2>4, <2>6 DEF ReadHalf
<1> QED
  BY <1>7, <1>8 DEF InStep

\* The state after a DH step that leads to m, whose key was found on the new chain.
EnteredFacts(w, m, pair, t, u) ==
    /\ m.key.dh = Append(w.root, DhOutput(w.sendPub, m.pub))
    /\ u.root = Append(m.key.dh, DhOutput(pair, m.pub)) /\ u.sendChain.dh = u.root
    /\ u.sendCounter = 0 /\ u.prevSendChainLen = w.sendCounter
    /\ u.sendPub = pair /\ u.remotePub = m.pub
    /\ u.recvChain.dh = m.key.dh /\ u.recvCounter = m.counter + 1
    /\ \A e \in u.skipList :
          \/ e \in w.skipList /\ e.pub = w.remotePub
          \/ /\ e.pub = w.remotePub /\ e.counter \in w.recvCounter .. (m.prevChainLen - 1)
             /\ e.addedAt = t /\ e.key \in ChainKey /\ e.key.dh = w.recvChain.dh
             /\ e.key.step = e.counter
          \/ /\ e.pub = m.pub /\ e.counter \in 0 .. (m.counter - 1) /\ e.addedAt = t
             /\ e.key \in ChainKey /\ e.key.dh = m.key.dh /\ e.key.step = e.counter
    /\ \A e \in w.skipList : e.pub = w.remotePub /\ e.counter < w.recvCounter => e \in u.skipList
    /\ \A k \in w.recvCounter .. (m.prevChainLen - 1) :
          \E e \in u.skipList : e.pub = w.remotePub /\ e.counter = k
    /\ \A k \in 0 .. (m.counter - 1) : \E e \in u.skipList : e.pub = m.pub /\ e.counter = k
    /\ Keyed(w) => Keyed(u)

StepDetails(x, pub, pair, v) ==
    /\ v \in RatchetState
    /\ v.recvChain.dh = Append(x.root, DhOutput(x.sendPub, pub))
    /\ v.root = Append(v.recvChain.dh, DhOutput(pair, pub)) /\ v.sendChain.dh = v.root
    /\ v.sendCounter = 0 /\ v.prevSendChainLen = x.sendCounter
    /\ v.sendPub = pair /\ v.remotePub = pub
    /\ v.recvChain.step = 0 /\ v.recvCounter = 0
    /\ v.skipList = {e \in x.skipList : e.pub = x.remotePub}

LEMMA StepDetail ==
    ASSUME NEW x \in RatchetState, NEW pub \in KeyPair, NEW pair \in KeyPair,
           NEW v, v = DhRatchetStep(x, pub, pair)
    PROVE  StepDetails(x, pub, pair, v)
<1>1. v \in RatchetState
  BY StepState DEF StepFacts
<1> QED
  BY <1>1 DEF DhRatchetStep, ChainFrom, StepDetails

LEMMA Entered ==
    ASSUME NEW w \in RatchetState, NEW t \in Nat, NEW pair \in KeyPair, NEW m \in Message,
           m.pub # w.remotePub, w.recvChain.step = w.recvCounter,
           OpensNewChain(w, m, pair, t), NEW u, u = AfterNewChain(w, m, pair, t)
    PROVE  EnteredFacts(w, m, pair, t, u)
<1>m. m.pub \in KeyPair /\ m.counter \in Nat /\ m.prevChainLen \in Nat
  BY DEF Message
<1>w. w.remotePub \in KeyPair /\ w.recvCounter \in Nat
  BY StateFields
<1>p. PICK x : x = SkipMessages(w, w.remotePub, m.prevChainLen, t)
  OBVIOUS
<1>q. PICK v : v = DhRatchetStep(x, m.pub, pair)
  OBVIOUS
<1>r. PICK c : c = SkipMessages(v, m.pub, m.counter, t)
  OBVIOUS
<1>o. c.recvChain = m.key /\ u = TakeChainKey(c)
  BY <1>p, <1>q, <1>r DEF OpensNewChain, AfterNewChain, Caught, Stepped
<1>1. /\ SkipFacts(w, w.remotePub, m.prevChainLen, x)
      /\ SkipListFacts(w, w.remotePub, m.prevChainLen, t, x)
  <2>1. SkipFacts(w, w.remotePub, m.prevChainLen, x)
    BY <1>m, <1>w, <1>p, SkipState, Zenon
  <2>2. SkipListFacts(w, w.remotePub, m.prevChainLen, t, x)
    BY <1>m, <1>p, SkipList, Zenon
  <2> QED
    BY <2>1, <2>2
<1>2. /\ x \in RatchetState /\ x.root = w.root /\ x.sendPub = w.sendPub
      /\ x.sendCounter = w.sendCounter /\ x.remotePub = w.remotePub
  BY <1>1 DEF SkipFacts
<1>3. /\ v \in RatchetState
      /\ v.recvChain.dh = Append(x.root, DhOutput(x.sendPub, m.pub))
      /\ v.root = Append(v.recvChain.dh, DhOutput(pair, m.pub)) /\ v.sendChain.dh = v.root
      /\ v.sendCounter = 0 /\ v.prevSendChainLen = x.sendCounter
      /\ v.sendPub = pair /\ v.remotePub = m.pub
      /\ v.recvChain.step = 0 /\ v.recvCounter = 0
      /\ v.skipList = {e \in x.skipList : e.pub = x.remotePub}
  <2>1. StepDetails(x, m.pub, pair, v)
    BY <1>2, <1>m, <1>q, StepDetail, Zenon
  <2> QED
    BY <2>1 DEF StepDetails
<1>4. SkipFacts(v, m.pub, m.counter, c) /\ SkipListFacts(v, m.pub, m.counter, t, c)
  <2>1. SkipFacts(v, m.pub, m.counter, c)
    BY <1>3, <1>m, <1>r, SkipState, Zenon
  <2>2. v.recvChain.step = v.recvCounter
    BY <1>3
  <2>3. SkipListFacts(v, m.pub, m.counter, t, c)
    BY <1>3, <1>m, <1>r, <2>2, SkipList, Zenon
  <2> QED
    BY <2>1, <2>3
<1>5. /\ c \in RatchetState /\ c.root = v.root /\ c.sendChain = v.sendChain
      /\ c.sendCounter = v.sendCounter /\ c.sendPub = v.sendPub /\ c.remotePub = v.remotePub
      /\ c.recvChain.dh = v.recvChain.dh
      /\ c.recvCounter = m.counter
  BY <1>3, <1>4, <1>m DEF SkipFacts
<1>6. c.prevSendChainLen = v.prevSendChainLen
  BY <1>3, <1>r DEF SkipMessages, RatchetState
<1>7. /\ u \in RatchetState /\ u.root = c.root /\ u.sendChain = c.sendChain
      /\ u.sendCounter = c.sendCounter /\ u.sendPub = c.sendPub /\ u.remotePub = c.remotePub
      /\ u.recvChain.dh = c.recvChain.dh
      /\ u.recvCounter = c.recvCounter + 1 /\ u.skipList = c.skipList
  BY <1>5, <1>o, TakeState
<1>8. u.prevSendChainLen = c.prevSendChainLen
  BY <1>5, <1>o DEF TakeChainKey, RatchetState
<1>9. m.key.dh = v.recvChain.dh
  BY <1>5, <1>o
<1>10. ASSUME NEW e \in u.skipList
       PROVE  \/ e \in w.skipList /\ e.pub = w.remotePub
              \/ /\ e.pub = w.remotePub /\ e.counter \in w.recvCounter .. (m.prevChainLen - 1)
                 /\ e.addedAt = t /\ e.key \in ChainKey /\ e.key.dh = w.recvChain.dh
                 /\ e.key.step = e.counter
              \/ /\ e.pub = m.pub /\ e.counter \in 0 .. (m.counter - 1) /\ e.addedAt = t
                 /\ e.key \in ChainKey /\ e.key.dh = m.key.dh /\ e.key.step = e.counter
  <2>1. CASE e \in v.skipList
    BY <1>1, <1>2, <1>3, <2>1 DEF SkipListFacts
  <2>2. CASE e \notin v.skipList
    BY <1>3, <1>4, <1>7, <1>9, <2>2 DEF SkipListFacts
  <2> QED
    BY <2>1, <2>2
<1>11. \A e \in v.skipList : e \in u.skipList
  BY <1>2, <1>3, <1>4, <1>7 DEF SkipListFacts
<1>12. \A e \in w.skipList : e.pub = w.remotePub /\ e.counter < w.recvCounter => e \in u.skipList
  BY <1>1, <1>2, <1>3, <1>11 DEF SkipListFacts
<1>13. \A k \in w.recvCounter .. (m.prevChainLen - 1) :
          \E e \in u.skipList : e.pub = w.remotePub /\ e.counter = k
  BY <1>1, <1>2, <1>3, <1>11 DEF SkipListFacts
<1>14. \A k \in 0 .. (m.counter - 1) : \E e \in u.skipList : e.pub = m.pub /\ e.counter = k
  BY <1>3, <1>4, <1>7 DEF SkipListFacts
<1>15. Keyed(w) => Keyed(u)
  <2>1. Keyed(w) => Keyed(x)
    BY <1>1 DEF SkipListFacts
  <2>2. Keyed(x) => Keyed(v)
    BY <1>3 DEF Keyed
  <2>3. Keyed(v) => Keyed(c)
    BY <1>4 DEF SkipListFacts
  <2>4. Keyed(c) => Keyed(u)
    BY <1>7 DEF Keyed
  <2> QED
    BY <2>1, <2>2, <2>3, <2>4
<1>16. /\ m.key.dh = Append(w.root, DhOutput(w.sendPub, m.pub))
       /\ u.root = Append(m.key.dh, DhOutput(pair, m.pub)) /\ u.sendChain.dh = u.root
       /\ u.sendCounter = 0 /\ u.prevSendChainLen = w.sendCounter
       /\ u.sendPub = pair /\ u.remotePub = m.pub
       /\ u.recvChain.dh = m.key.dh /\ u.recvCounter = m.counter + 1
  BY <1>2, <1>3, <1>5, <1>6, <1>7, <1>8, <1>9
<1> QED
  BY <1>10, <1>12, <1>13, <1>14, <1>15, <1>16 DEF EnteredFacts

\* A ciphertext that makes p step is of the newest chain of a peer that is ahead of p.
LeadsOn(p, a, m) ==
    /\ a # p /\ m.from = a /\ Ahead(a, p)
    /\ Length(m) = Len(ratchet[p].root) + 1 /\ Length(m) = Len(ratchet[a].root)
    /\ m.pub = ratchet[a].sendPub /\ m.key.dh = ratchet[a].root

LEMMA LeadsOnFrom ==
    ASSUME IInv, InStep, NEW p \in Party, NEW m \in Inbound(p),
           Length(m) = Len(ratchet[p].root) + 1,
           m.key.dh = Append(ratchet[p].root, DhOutput(ratchet[p].sendPub, m.pub))
    PROVE  LeadsOn(p, m.from, m)
<1> DEFINE a == m.from
<1>t. TypeOK /\ SendHalf /\ m \in sent /\ a \in Party /\ a # p
  BY MessageIs DEF IInv, InStep, Inbound
<1>1. Ahead(a, p)
  <2>1. Ahead(a, p) \/ Ahead(p, a)
    BY <1>t DEF InStep, Lockstep, Party
  <2>2. CASE Ahead(p, a)
    <3>1. /\ Length(m) <= Len(ratchet[a].root)
          /\ Len(ratchet[p].root) = Len(ratchet[a].root) + 1 /\ Len(ratchet[a].root) \in Nat
      BY <1>t, <2>2, LengthBound
    <3> QED
      BY <3>1
  <2> QED
    BY <2>1, <2>2
<1>2. Length(m) = Len(ratchet[a].root)
  BY <1>t, <1>1, LengthBound
<1>3. m.pub = ratchet[a].sendPub
  BY <1>t, <1>2 DEF SendHalf
<1> HIDE DEF a
<1>4. m.key.dh = ratchet[a].root
  BY <1>1, <1>3 DEF Ahead, DhOutput
<1> QED
  BY <1>t, <1>1, <1>2, <1>3, <1>4 DEF LeadsOn, a

\* The chain p reads is the one before it, unless p waits for the first.
LEMMA ChainBefore ==
    ASSUME IInv, InStep, NEW p \in Party, NEW a \in Party, NEW m \in Inbound(p), LeadsOn(p, a, m)
    PROVE  /\ Len(ratchet[p].root) \in Nat
           /\ Waiting(p) => Len(ratchet[p].root) = 0 /\ m.prevChainLen = 0
           /\ ~Waiting(p) => Len(ratchet[p].recvChain.dh) = Len(ratchet[p].root) - 1
           /\ SentUpTo(sent, a, Len(ratchet[p].root) - 1, m.prevChainLen)
<1>t. TypeOK /\ SendHalf /\ m \in sent /\ m.prevChainLen \in Nat
  BY MessageIs DEF IInv, InStep, Inbound
<1>1. Len(ratchet[p].root) \in Nat /\ Length(m) - 2 = Len(ratchet[p].root) - 1
  BY <1>t, LengthBound DEF LeadsOn
<1>2. SentUpTo(sent, a, Len(ratchet[p].root) - 1, m.prevChainLen)
  BY <1>t, <1>1 DEF SendHalf, LeadsOn
<1>3. ASSUME Waiting(p)  PROVE Len(ratchet[p].root) = 0 /\ m.prevChainLen = 0
  <2>1. Len(ratchet[p].root) = 0
    BY <1>3 DEF Waiting
  <2>2. ~Has(sent, a, Len(ratchet[p].root) - 1, 0)
    BY <1>t, <2>1, MessageIs DEF Has
  <2> QED
    BY <1>t, <1>2, <2>1, <2>2 DEF SentUpTo
<1> QED
  BY <1>1, <1>2, <1>3 DEF LeadsOn, Ahead

\* Opening after a DH step: p gets ahead of its peer.
LEMMA EnteredKeepsHalves ==
    ASSUME IInv, InStep, NEW p \in Party, NEW a \in Party, NEW m \in Inbound(p), NEW w, NEW u, NEW pair,
           pair = FreshPair(p), Opened(p, m, u), LeadsOn(p, a, m),
           EnteredFacts(w, m, pair, now, u), w.sendCounter = ratchet[p].sendCounter
    PROVE  SendHalf' /\ Ahead(p, a)' /\ ReadHalf(a)'
<1>t. /\ TypeOK /\ SendHalf /\ a # p /\ m \in sent /\ m.counter \in Nat
      /\ ratchet[a] \in RatchetState /\ ratchet[p] \in RatchetState
      /\ \A q \in Party : q = p \/ q = a
  BY MessageIs DEF IInv, TypeOK, InStep, LeadsOn, Inbound, Party
<1>r. PICK N, r : N = Len(ratchet[p].root) /\ r = ratchet[a].root
  OBVIOUS
<1>n. N \in Nat /\ r \in Seq(SUBSET KeyPair) /\ Len(r) = N + 1
  BY <1>t, <1>r, LengthBound, StateFields DEF LeadsOn
<1>o. /\ ratchet'[p] = u /\ ratchet'[a] = ratchet[a] /\ sent' = sent /\ now' = now
      /\ accepted'[a] = accepted[a]
  BY <1>t DEF Opened
<1>l. /\ Ahead(a, p) /\ m.from = a /\ m.pub = ratchet[a].sendPub /\ m.key.dh = r
  BY <1>r DEF LeadsOn
<1>e. /\ u.root = Append(m.key.dh, DhOutput(pair, m.pub)) /\ u.sendChain.dh = u.root
      /\ u.sendCounter = 0 /\ u.prevSendChainLen = ratchet[p].sendCounter
      /\ u.sendPub = pair /\ u.remotePub = m.pub
      /\ u.recvChain.dh = m.key.dh /\ u.recvCounter = m.counter + 1
  BY DEF EnteredFacts
<1>1. u.root = Append(r, DhOutput(ratchet[a].sendPub, pair)) /\ Len(u.root) = N + 2
  <2>1. DhOutput(pair, m.pub) = DhOutput(ratchet[a].sendPub, pair)
    BY <1>l DEF DhOutput
  <2>2. u.root = Append(r, DhOutput(ratchet[a].sendPub, pair))
    BY <1>e, <1>l, <2>1
  <2>3. DhOutput(ratchet[a].sendPub, pair) \in SUBSET KeyPair
    <3>1. pair \in KeyPair /\ ratchet[a].sendPub \in KeyPair
      BY <1>t, StateFields DEF FreshPair, KeyPair, TypeOK
    <3> QED
      BY <3>1 DEF DhOutput
  <2> QED
    BY <1>n, <2>2, <2>3
<1>2. Ahead(p, a)'
  <2>1. u.recvCounter <= ratchet[a].sendCounter
    <3>1. m.counter < ratchet[a].sendCounter /\ ratchet[a].sendCounter \in Nat
      BY <1>t, <1>l, StateFields DEF IInv, SentInv
    <3> QED
      BY <1>e, <1>t, <3>1
  <2>2. ratchet[a].remotePub # pair
    <3>1. ratchet[a].remotePub = ratchet[p].sendPub
      BY <1>l DEF Ahead
    <3>2. ratchet[p].sendPub[2] < minted[p] /\ pair[2] = minted[p] /\ minted[p] \in Nat
      BY <1>t DEF IInv, PairsMinted, FreshPair, TypeOK
    <3> QED
      BY <3>1, <3>2
  <2>3. Len(ratchet[a].recvChain.dh) = Len(ratchet[a].root) - 1
    <3>1. ratchet[a].recvChain.dh = ratchet[p].root
      BY <1>l DEF Ahead
    <3> QED
      BY <1>n, <1>r, <3>1
  <2> QED
    BY <1>1, <1>e, <1>l, <1>o, <1>r, <2>1, <2>2, <2>3 DEF Ahead
<1>3. SendHalf'
  <2>1. \A x \in sent : x.from = p => Length(x) \in Nat /\ Length(x) <= N
    BY <1>r, <1>t, MessageIs DEF SendHalf
  <2>2. Side(p, N + 2) /\ SentUpTo(sent, p, N + 2, 0) /\ SentUpTo(sent, p, N, ratchet[p].sendCounter)
    <3>1. Side(p, N) /\ SentUpTo(sent, p, N, ratchet[p].sendCounter)
      BY <1>r, <1>t DEF SendHalf
    <3>2. Side(p, N + 2)
      BY <1>n, <1>t, <3>1, SideNext
    <3>3. \A c \in Nat : ~Has(sent, p, N + 2, c)
      BY <1>n, <2>1 DEF Has
    <3> QED
      BY <3>1, <3>2, <3>3 DEF SentUpTo
  <2>3. /\ u.sendChain.dh = u.root /\ Side(p, Len(u.root))
        /\ SentUpTo(sent, p, Len(u.root), u.sendCounter)
        /\ SentUpTo(sent, p, Len(u.root) - 2, u.prevSendChainLen)
    <3>1. Len(u.root) - 2 = N
      BY <1>n, <1>1
    <3> QED
      BY <1>1, <1>e, <2>2, <3>1
  <2>4. ASSUME NEW q \in Party
        PROVE  /\ ratchet'[q].sendChain.dh = ratchet'[q].root /\ Side(q, Len(ratchet'[q].root))
               /\ SentUpTo(sent', q, Len(ratchet'[q].root), ratchet'[q].sendCounter)
               /\ SentUpTo(sent', q, Len(ratchet'[q].root) - 2, ratchet'[q].prevSendChainLen)
    <3>1. CASE q = p
      BY <1>o, <2>3, <3>1
    <3>2. CASE q = a
      <4>1. /\ ratchet[a].sendChain.dh = ratchet[a].root /\ Side(a, Len(ratchet[a].root))
            /\ SentUpTo(sent, a, Len(ratchet[a].root), ratchet[a].sendCounter)
            /\ SentUpTo(sent, a, Len(ratchet[a].root) - 2, ratchet[a].prevSendChainLen)
        BY <1>t DEF SendHalf
      <4> QED
        BY <1>o, <3>2, <4>1
    <3> QED
      BY <1>t, <3>1, <3>2
  <2>5. ASSUME NEW x \in sent
        PROVE  /\ Side(x.from, Length(x)) /\ Length(x) <= Len(ratchet'[x.from].root)
               /\ Length(x) = Len(ratchet'[x.from].root) => x.pub = ratchet'[x.from].sendPub
               /\ SentUpTo(sent, x.from, Length(x) - 2, x.prevChainLen)
               /\ \A c \in 0..x.counter : Has(sent, x.from, Length(x), c)
    <3>1. /\ Side(x.from, Length(x)) /\ Length(x) <= Len(ratchet[x.from].root)
          /\ Length(x) = Len(ratchet[x.from].root) => x.pub = ratchet[x.from].sendPub
          /\ SentUpTo(sent, x.from, Length(x) - 2, x.prevChainLen)
          /\ \A c \in 0..x.counter : Has(sent, x.from, Length(x), c)
      BY <1>t DEF SendHalf
    <3>2. x.from = p \/ x.from = a
      BY <1>t, MessageIs
    <3>3. CASE x.from = p
      <4>1. Length(x) \in Nat /\ Length(x) <= N /\ Len(ratchet'[x.from].root) = N + 2
        BY <1>1, <1>o, <2>1, <3>3
      <4> QED
        BY <1>n, <3>1, <4>1
    <3>4. CASE x.from = a
      BY <1>o, <3>1, <3>4
    <3> QED
      BY <3>2, <3>3, <3>4
  <2>6. \A x, y \in sent : x.from = y.from /\ Length(x) = Length(y) => x.pub = y.pub
    BY <1>t DEF SendHalf
  <2> QED
    BY <1>o, <2>4, <2>5, <2>6 DEF SendHalf
<1>4. ReadHalf(a)'
  <2>1. ReadHalf(a)
    BY DEF InStep
  <2>2. Inbound(a)' = Inbound(a) /\ Pending(a)' = Pending(a)
    BY <1>o DEF Inbound, Pending
  <2>3. Waiting(a)' <=> Waiting(a)
    BY <1>o DEF Waiting
  <2> QED
    BY <1>o, <2>1, <2>2, <2>3 DEF ReadHalf
<1> QED
  BY <1>2, <1>3, <1>4

LEMMA EnteredReads ==
    ASSUME IInv, InStep, NEW p \in Party, NEW a \in Party, NEW m \in Inbound(p), NEW w \in RatchetState,
           NEW u, NEW pair, LeadsOn(p, a, m), EnteredFacts(w, m, pair, now, u),
           w.remotePub = ratchet[p].remotePub, w.recvChain = ratchet[p].recvChain,
           w.recvCounter = ratchet[p].recvCounter, w.skipList \subseteq ratchet[p].skipList,
           now <= SkippedKeyTtl => w.skipList = ratchet[p].skipList
    PROVE  /\ ReadsChain(u, Inbound(p))
           /\ FiledFrom(u, Inbound(p), now)
           /\ now <= SkippedKeyTtl => KeptFrom(u, Pending(p) \ {m})
<1>r. PICK r, N, K : r = ratchet[p] /\ N = Len(ratchet[p].root) /\ K = Len(r.recvChain.dh)
  OBVIOUS
<1>t. /\ TypeOK /\ SendHalf /\ m \in sent /\ m.counter \in Nat /\ m.prevChainLen \in Nat
      /\ r.recvCounter \in Nat /\ r \in RatchetState
      /\ m.key.dh \in Seq(SUBSET KeyPair)
  BY <1>r, MessageIs, StateFields DEF IInv, TypeOK, InStep, Inbound
<1>x. \A x \in Inbound(p) : /\ x \in sent /\ x.from = a /\ x.from = m.from /\ Length(x) \in Nat
                            /\ x.counter \in Nat /\ x.key \in ChainKey /\ x.key.step = x.counter
                            /\ Side(a, Length(x))
  BY <1>t, MessageIs DEF Inbound, LeadsOn, Party, IInv, SentInv, Wellformed, SendHalf
<1>n. /\ N \in Nat /\ K \in Nat /\ Length(m) = N + 1
      /\ Waiting(p) => N = 0 /\ m.prevChainLen = 0
      /\ ~Waiting(p) => K = N - 1
      /\ SentUpTo(sent, a, N - 1, m.prevChainLen)
  <2>1. Length(m) = N + 1
    BY <1>r DEF LeadsOn
  <2>2. K \in Nat
    BY <1>r, <1>t, StateFields DEF ChainKey
  <2> QED
    BY <1>r, <2>1, <2>2, ChainBefore
<1>e. /\ u.remotePub = m.pub /\ u.recvChain.dh = m.key.dh /\ u.recvCounter = m.counter + 1
      /\ Len(u.recvChain.dh) = N + 1
      /\ \A e \in u.skipList :
            \/ e \in w.skipList /\ e.pub = w.remotePub
            \/ /\ e.pub = w.remotePub /\ e.counter \in w.recvCounter .. (m.prevChainLen - 1)
               /\ e.addedAt = now /\ e.key \in ChainKey /\ e.key.dh = w.recvChain.dh
               /\ e.key.step = e.counter
            \/ /\ e.pub = m.pub /\ e.counter \in 0 .. (m.counter - 1) /\ e.addedAt = now
               /\ e.key \in ChainKey /\ e.key.dh = m.key.dh /\ e.key.step = e.counter
      /\ \A e \in w.skipList : e.pub = w.remotePub /\ e.counter < w.recvCounter => e \in u.skipList
      /\ \A k \in w.recvCounter .. (m.prevChainLen - 1) :
            \E e \in u.skipList : e.pub = w.remotePub /\ e.counter = k
      /\ \A k \in 0 .. (m.counter - 1) : \E e \in u.skipList : e.pub = m.pub /\ e.counter = k
      /\ Keyed(w) => Keyed(u)
  BY <1>n DEF EnteredFacts, Length
<1>w. w.remotePub = r.remotePub /\ w.recvChain = r.recvChain /\ w.recvCounter = r.recvCounter
  BY <1>r
<1>h. /\ Waiting(p) \/ ReadsChain(r, Inbound(p))
      /\ FiledFrom(r, Inbound(p), now)
      /\ now <= SkippedKeyTtl => KeptFrom(r, Pending(p))
  BY <1>r DEF InStep, ReadHalf
<1>1. ReadsChain(u, Inbound(p))
  <2> SUFFICES ASSUME NEW x \in Inbound(p)
               PROVE  /\ x.pub = m.pub <=> Length(x) = N + 1
                      /\ x.pub = m.pub => x.key.dh = m.key.dh
    BY <1>e DEF ReadsChain
  <2> QED
    BY <1>n, <1>t, <1>x, SameChain
\* The ciphertexts of the chain left, while p does not wait for its first.
<1>2. ASSUME NEW x \in Inbound(p), Length(x) = N - 1
      PROVE  ~Waiting(p) /\ x.pub = r.remotePub /\ x.key.dh = r.recvChain.dh
             /\ x.counter < m.prevChainLen
  <2>1. ~Waiting(p)
    BY <1>2, <1>n, <1>x
  <2>2. x.pub = r.remotePub /\ x.key.dh = r.recvChain.dh
    BY <1>2, <1>h, <1>n, <1>r, <2>1 DEF ReadsChain
  <2>3. Has(sent, a, N - 1, x.counter)
    BY <1>2, <1>x DEF Has
  <2> QED
    BY <1>n, <1>x, <2>1, <2>2, <2>3 DEF SentUpTo
<1>3. ASSUME NEW c \in Nat, c < m.prevChainLen
      PROVE  \E x \in Inbound(p) : Length(x) = N - 1 /\ x.counter = c
  <2>1. PICK x \in sent : x.from = a /\ Length(x) = N - 1 /\ x.counter = c
    BY <1>3, <1>n DEF SentUpTo, Has
  <2> QED
    BY <2>1 DEF Inbound, LeadsOn
<1>4. ASSUME NEW c \in Nat, c < m.counter
      PROVE  \E x \in Inbound(p) : x.pub = m.pub /\ x.key.dh = m.key.dh /\ x.counter = c
  <2>1. PICK x \in sent : x.from = m.from /\ Length(x) = Length(m) /\ x.counter = c
    BY <1>4, <1>t DEF SendHalf, Has
  <2>2. x \in Inbound(p)
    BY <2>1 DEF Inbound
  <2> QED
    BY <1>t, <2>1, <2>2, SameChain
<1>5. FiledFrom(u, Inbound(p), now)
  <2>1. ASSUME NEW e \in u.skipList
        PROVE  /\ e.addedAt <= now /\ Len(e.key.dh) <= Len(u.recvChain.dh)
               /\ \E x \in Inbound(p) : x.pub = e.pub /\ x.counter = e.counter /\ x.key = e.key
    <3>1. CASE e \in w.skipList
      <4>1. e \in r.skipList
        BY <1>r, <3>1
      <4>2. /\ e.addedAt <= now /\ Len(e.key.dh) <= K
            /\ \E x \in Inbound(p) : x.pub = e.pub /\ x.counter = e.counter /\ x.key = e.key
        BY <1>h, <1>r, <4>1 DEF FiledFrom
      <4>3. ~Waiting(p)
        BY <1>r, <4>1 DEF Waiting
      <4>4. Len(e.key.dh) \in Nat
        BY <1>t, <4>1, StateFields DEF SkipEntry, ChainKey
      <4> QED
        BY <1>e, <1>n, <4>2, <4>3, <4>4
    <3>2. CASE /\ e.pub = w.remotePub /\ e.counter \in w.recvCounter .. (m.prevChainLen - 1)
               /\ e.addedAt = now /\ e.key \in ChainKey /\ e.key.dh = w.recvChain.dh
               /\ e.key.step = e.counter
      <4>1. e.counter \in Nat /\ e.counter < m.prevChainLen
        BY <1>t, <1>w, <3>2
      <4>2. PICK x \in Inbound(p) : Length(x) = N - 1 /\ x.counter = e.counter
        BY <1>3, <4>1
      <4>3. ~Waiting(p) /\ x.pub = e.pub /\ x.key.dh = e.key.dh
        BY <1>2, <1>w, <3>2, <4>2
      <4>4. x.key = e.key
        BY <1>x, <3>2, <4>2, <4>3, KeyIs
      <4>5. Len(e.key.dh) <= Len(u.recvChain.dh)
        BY <1>e, <1>n, <4>2, <4>4 DEF Length
      <4>6. now \in Nat
        BY <1>t DEF TypeOK
      <4> QED
        BY <3>2, <4>2, <4>3, <4>4, <4>5, <4>6
    <3>3. CASE /\ e.pub = m.pub /\ e.counter \in 0 .. (m.counter - 1) /\ e.addedAt = now
               /\ e.key \in ChainKey /\ e.key.dh = m.key.dh /\ e.key.step = e.counter
      <4>1. e.counter \in Nat /\ e.counter < m.counter
        BY <1>t, <3>3
      <4>2. PICK x \in Inbound(p) : x.pub = m.pub /\ x.key.dh = m.key.dh /\ x.counter = e.counter
        BY <1>4, <4>1
      <4>4. x.key = e.key
        BY <1>x, <3>3, <4>2, KeyIs
      <4>5. Len(e.key.dh) <= Len(u.recvChain.dh)
        BY <1>e, <1>n, <3>3
      <4>6. now \in Nat
        BY <1>t DEF TypeOK
      <4> QED
        BY <3>3, <4>2, <4>4, <4>5, <4>6
    <3> QED
      BY <1>e, <3>1, <3>2, <3>3
  <2>2. Keyed(w)
    BY <1>h, <1>r DEF FiledFrom, Keyed
  <2> QED
    BY <1>e, <2>1, <2>2 DEF FiledFrom, Keyed
<1>6. ASSUME now <= SkippedKeyTtl, NEW x \in Pending(p), x # m, Behind(u, x)
      PROVE  \E e \in u.skipList : e.pub = x.pub /\ e.counter = x.counter
  <2>1. x \in Inbound(p)
    BY DEF Pending
  <2>2. CASE x.pub = m.pub
    <3>1. x.counter < m.counter
      <4>1. Length(x) = N + 1
        BY <1>n, <1>t, <1>x, <2>1, <2>2, SameChain
      <4>2. x.counter < m.counter + 1
        BY <1>e, <1>n, <1>6, <4>1 DEF Behind
      <4>3. x.counter # m.counter
        BY <1>t, <1>x, <1>6, <2>1, <2>2, SameChain
      <4> QED
        BY <1>t, <1>x, <2>1, <4>2, <4>3
    <3>2. x.counter \in 0 .. (m.counter - 1)
      BY <1>t, <1>x, <2>1, <3>1
    <3> QED
      BY <1>e, <2>2, <3>2
  <2>3. CASE x.pub # m.pub
    <3>1. N - 1 <= Length(x) /\ Length(x) < N + 1
      BY <1>e, <1>n, <1>6, <2>3 DEF Behind
    <3>2. Length(x) = N - 1
      <4>1. Side(a, N + 1)
        BY <1>n, <1>x
      <4>2. Length(x) + 2 <= N + 1
        BY <1>n, <1>x, <2>1, <3>1, <4>1, SideGap
      <4> QED
        BY <1>n, <1>x, <2>1, <3>1, <4>2
    <3>3. x.pub = r.remotePub /\ x.counter < m.prevChainLen
      BY <1>2, <2>1, <3>2
    <3>4. CASE x.counter < r.recvCounter
      <4>1. Behind(r, x)
        BY <3>3, <3>4 DEF Behind
      <4>2. PICK e \in r.skipList : e.pub = x.pub /\ e.counter = x.counter
        BY <1>h, <1>6, <4>1 DEF KeptFrom
      <4>3. e \in w.skipList /\ e.pub = w.remotePub /\ e.counter < w.recvCounter
        BY <1>6, <1>r, <1>w, <3>3, <3>4, <4>2
      <4> QED
        BY <1>e, <4>2, <4>3
    <3>5. CASE ~(x.counter < r.recvCounter)
      <4>1. x.counter \in w.recvCounter .. (m.prevChainLen - 1)
        BY <1>t, <1>w, <1>x, <2>1, <3>3, <3>5
      <4> QED
        BY <1>e, <1>w, <3>3, <4>1
    <3> QED
      BY <3>4, <3>5
  <2> QED
    BY <2>2, <2>3
<1> QED
  BY <1>1, <1>5, <1>6 DEF KeptFrom

LEMMA NewChainKeepsInStep ==
    ASSUME IInv, InStep, NEW p \in Party, NEW m \in Inbound(p), ReceiveNewChain(p, m)
    PROVE  InStep'
<1>w. PICK w : w = Prune(ratchet[p], now)
  OBVIOUS
<1>1. /\ w \in RatchetState /\ w.root = ratchet[p].root
      /\ w.sendCounter = ratchet[p].sendCounter /\ w.sendPub = ratchet[p].sendPub
      /\ w.remotePub = ratchet[p].remotePub /\ w.recvChain = ratchet[p].recvChain
      /\ w.recvCounter = ratchet[p].recvCounter
      /\ w.skipList \subseteq ratchet[p].skipList
      /\ now <= SkippedKeyTtl => w.skipList = ratchet[p].skipList
      /\ w.recvChain.step = w.recvCounter
  BY <1>w, Working
<1>p. PICK pair : pair = FreshPair(p)
  OBVIOUS
<1>u. PICK u : u = AfterNewChain(w, m, pair, now)
  OBVIOUS
<1>o. OpensNewChain(w, m, pair, now) /\ Opened(p, m, u)
  BY <1>w, <1>p, <1>u, CommitDoes DEF ReceiveNewChain
<1>t. /\ now \in Nat /\ m \in Message /\ pair \in KeyPair /\ m \in sent /\ m.from \in Party
      /\ w.root \in Seq(SUBSET KeyPair)
  <2>1. minted[p] \in Nat /\ m \in sent /\ sent \subseteq Message /\ now \in Nat
    BY DEF IInv, TypeOK, Inbound
  <2> QED
    BY <1>1, <1>p, <2>1, StateFields DEF FreshPair, KeyPair, Message
<1>2. EnteredFacts(w, m, pair, now, u)
  <2>1. m.pub # w.remotePub /\ w.recvChain.step = w.recvCounter
    BY <1>1, <1>o DEF OpensNewChain
  <2>2. PICK t \in Nat : t = now
    BY <1>t
  <2>3. EnteredFacts(w, m, pair, t, u)
    BY <1>1, <1>o, <1>t, <1>u, <2>1, <2>2, Entered
  <2> QED
    BY <2>2, <2>3
<1>3. LeadsOn(p, m.from, m)
  <2>1. m.key.dh = Append(ratchet[p].root, DhOutput(ratchet[p].sendPub, m.pub))
    BY <1>1, <1>2 DEF EnteredFacts
  <2>2. DhOutput(w.sendPub, m.pub) \in SUBSET KeyPair
    <3>1. w.sendPub \in KeyPair /\ m.pub \in KeyPair
      BY <1>1, <1>t, StateFields DEF Message
    <3> QED
      BY <3>1 DEF DhOutput
  <2>3. Length(m) = Len(ratchet[p].root) + 1
    BY <1>1, <1>t, <2>1, <2>2 DEF Length
  <2> QED
    BY <2>1, <2>3, LeadsOnFrom
<1>4. SendHalf' /\ Ahead(p, m.from)' /\ ReadHalf(m.from)'
  BY <1>1, <1>2, <1>3, <1>o, <1>p, <1>t, EnteredKeepsHalves
<1>5. /\ ReadsChain(u, Inbound(p))
      /\ FiledFrom(u, Inbound(p), now)
      /\ now <= SkippedKeyTtl => KeptFrom(u, Pending(p) \ {m})
  BY <1>1, <1>2, <1>3, <1>t, EnteredReads
<1>6. ReadHalf(p)'
  <2>1. Inbound(p)' = Inbound(p) /\ now' = now /\ ratchet'[p] = u /\ Pending(p)' = Pending(p) \ {m}
    BY <1>o DEF Opened, Inbound, Pending
  <2> QED
    BY <1>5, <2>1 DEF ReadHalf
<1>7. \A q \in Party : q = p \/ q = m.from
  BY <1>3, <1>t DEF LeadsOn, Party
<1> QED
  BY <1>3, <1>4, <1>6, <1>7, <1>t DEF InStep, Lockstep, LeadsOn

(* The clock ticks, and how it all starts. *)

LEMMA TickKeepsInStep ==
    ASSUME IInv, InStep, UNCHANGED <<ratchet, established, minted, sent, accepted, opens>>,
           now' \in Nat, now <= now'
    PROVE  InStep'
<1>1. SendHalf'
  BY DEF InStep, SendHalf
<1>2. \A p \in Party : Waiting(p) <=> Waiting(p)'
  BY DEF Waiting
<1>3. Lockstep'
  BY <1>2 DEF InStep, Lockstep, Ahead
<1>4. ASSUME NEW p \in Party  PROVE ReadHalf(p)'
  <2>1. ReadHalf(p) /\ Inbound(p)' = Inbound(p) /\ Pending(p)' = Pending(p)
    BY DEF InStep, Inbound, Pending
  <2>2. now \in Nat /\ \A e \in ratchet[p].skipList : e.addedAt \in Nat
    BY StateFields DEF IInv, TypeOK, SkipEntry
  <2>3. FiledFrom(ratchet[p], Inbound(p), now')
    BY <2>1, <2>2 DEF ReadHalf, FiledFrom
  <2>4. now' <= SkippedKeyTtl => now <= SkippedKeyTtl
    BY <2>2, TtlIsNat
  <2> QED
    BY <1>2, <2>1, <2>3, <2>4 DEF ReadHalf
<1> QED
  BY <1>1, <1>3, <1>4 DEF InStep

LEMMA InitInStep == Init => InStep
<1> SUFFICES ASSUME Init  PROVE InStep
  OBVIOUS
<1>1. Initiator \in Party /\ Responder \in Party /\ Initiator # Responder
  BY PartiesDiffer DEF Party
<1>2. ratchet[Initiator] = InitiatorState /\ ratchet[Responder] = ResponderState
      /\ sent = {} /\ accepted[Initiator] = {} /\ now = 0
  BY <1>1 DEF Init
<1>3. /\ InitiatorState.root = <<>> /\ InitiatorState.sendChain.dh = <<>>
      /\ InitiatorState.sendCounter = 0 /\ InitiatorState.prevSendChainLen = 0
      /\ InitiatorState.sendPub = EK /\ InitiatorState.remotePub = SPK
      /\ InitiatorState.recvChain = ZeroChain /\ InitiatorState.recvCounter = 0
      /\ InitiatorState.skipList = {}
  BY DEF InitiatorState, ChainFrom
<1>4. /\ ResponderState.root = <<DhOutput(Boot, EK)>>
      /\ ResponderState.sendChain.dh = <<DhOutput(Boot, EK)>>
      /\ ResponderState.sendCounter = 0 /\ ResponderState.prevSendChainLen = 0
      /\ ResponderState.sendPub = Boot /\ ResponderState.remotePub = EK
      /\ ResponderState.recvChain.dh = <<>> /\ ResponderState.recvCounter = 0
      /\ ResponderState.skipList = {}
  BY DEF ResponderState, ChainFrom
<1>5. Side(Initiator, 0) /\ Side(Responder, 1)
  BY <1>1 DEF Side
<1>6. \A q, n, c : ~Has(sent, q, n, c)
  BY <1>2 DEF Has
<1>7. SendHalf
  <2>1. \A q, n : SentUpTo(sent, q, n, 0)
    BY <1>6 DEF SentUpTo
  <2>2. ASSUME NEW p \in Party
        PROVE  /\ ratchet[p].sendChain.dh = ratchet[p].root /\ Side(p, Len(ratchet[p].root))
               /\ ratchet[p].sendCounter = 0 /\ ratchet[p].prevSendChainLen = 0
    <3>1. Len(<<>>) = 0 /\ Len(<<DhOutput(Boot, EK)>>) = 1
      OBVIOUS
    <3> QED
      BY <1>2, <1>3, <1>4, <1>5, <3>1 DEF Party
  <2> QED
    BY <1>2, <2>1, <2>2 DEF SendHalf
<1>8. Waiting(Initiator)
  BY <1>2, <1>3 DEF Waiting
<1>9. Lockstep
  <2>1. Append(<<>>, DhOutput(EK, Boot)) = <<DhOutput(Boot, EK)>>
    BY DEF DhOutput
  <2>2. SPK # Boot
    BY DEF SPK, Boot
  <2>3. Ahead(Responder, Initiator)
    BY <1>2, <1>3, <1>4, <1>8, <2>1, <2>2 DEF Ahead
  <2> QED
    BY <1>1, <2>3 DEF Lockstep
<1>10. ASSUME NEW p \in Party  PROVE ReadHalf(p)
  <2>1. Inbound(p) = {} /\ Pending(p) = {} /\ ratchet[p].skipList = {}
    BY <1>2, <1>3, <1>4 DEF Inbound, Pending, Party
  <2> QED
    BY <2>1 DEF ReadHalf, ReadsChain, FiledFrom, KeptFrom
<1> QED
  BY <1>7, <1>9, <1>10 DEF InStep

LEMMA NextInStep == IInv /\ InStep /\ [Next]_vars => InStep'
<1> SUFFICES ASSUME IInv, InStep, [Next]_vars PROVE InStep'
  OBVIOUS
<1>1. ASSUME NEW p \in Party, Send(p) PROVE InStep'
  BY <1>1, SendKeepsInStep
<1>2. ASSUME NEW p \in Party, NEW m \in Inbound(p), ReceiveFiled(p, m) PROVE InStep'
  BY <1>2, FiledKeepsInStep
<1>3. ASSUME NEW p \in Party, NEW m \in Inbound(p), ReceiveInChain(p, m) PROVE InStep'
  BY <1>3, InChainKeepsInStep
<1>4. ASSUME NEW p \in Party, NEW m \in Inbound(p), ReceiveNewChain(p, m) PROVE InStep'
  BY <1>4, NewChainKeepsInStep
<1>5. CASE Tick \/ UNCHANGED vars
  <2>1. now \in Nat
    BY DEF IInv, TypeOK
  <2>2. UNCHANGED <<ratchet, established, minted, sent, accepted, opens>> /\ now' \in Nat /\ now <= now'
    BY <1>5, <2>1 DEF Tick, vars
  <2> QED
    BY <2>2, TickKeepsInStep
<1> QED
  BY <1>1, <1>2, <1>3, <1>4, <1>5 DEF Next

(* Genuine traffic opens. *)

\* The skipped keys of L and those of a gap each have a ciphertext of P to themselves.
EachHasOne(L, pub, i, j, P) ==
    /\ \A e, f \in L : e.pub = f.pub /\ e.counter = f.counter => e = f
    /\ \A e \in L : \E x \in P : x.pub = e.pub /\ x.counter = e.counter
    /\ \A c \in i .. (j - 1) : \E x \in P : x.pub = pub /\ x.counter = c
    /\ \A e \in L : e.pub = pub => e.counter \notin i .. (j - 1)

LEMMA Fits ==
    ASSUME NEW P, IsFiniteSet(P), NEW L, NEW pub, NEW i \in Nat, NEW j \in Nat,
           EachHasOne(L, pub, i, j, P)
    PROVE  Cardinality(L) \in Nat /\ Cardinality(L) + (j - i) <= Cardinality(P)
<1>h. /\ \A e, f \in L : e.pub = f.pub /\ e.counter = f.counter => e = f
      /\ \A e \in L : \E x \in P : x.pub = e.pub /\ x.counter = e.counter
      /\ \A c \in i .. (j - 1) : \E x \in P : x.pub = pub /\ x.counter = c
      /\ \A e \in L : e.pub = pub => e.counter \notin i .. (j - 1)
  BY DEF EachHasOne
<1> DEFINE A == {x \in P : \E e \in L : x.pub = e.pub /\ x.counter = e.counter}
           B == {x \in P : x.pub = pub /\ x.counter \in i .. (j - 1)}
           f == [e \in L |-> CHOOSE x \in A : x.pub = e.pub /\ x.counter = e.counter]
           g == [c \in i .. (j - 1) |-> CHOOSE x \in B : x.counter = c]
<1>1. f \in Injection(L, A)
  <2>1. ASSUME NEW e \in L  PROVE f[e] \in A /\ f[e].pub = e.pub /\ f[e].counter = e.counter
    <3>1. \E x \in A : x.pub = e.pub /\ x.counter = e.counter
      BY <1>h
    <3> HIDE DEF A
    <3> QED
      BY <3>1
  <2>2. f \in [L -> A]
    BY <2>1
  <2> HIDE DEF f, A
  <2>3. \A d, e \in L : f[d] = f[e] => d = e
    BY <1>h, <2>1
  <2> QED
    BY <2>2, <2>3, Fun_IsInj
<1>2. g \in Injection(i .. (j - 1), B)
  <2>1. ASSUME NEW c \in i .. (j - 1)  PROVE g[c] \in B /\ g[c].counter = c
    <3>1. \E x \in B : x.counter = c
      BY <1>h
    <3> HIDE DEF B
    <3> QED
      BY <3>1
  <2>2. g \in [i .. (j - 1) -> B]
    BY <2>1
  <2> HIDE DEF g, B
  <2>3. \A c, d \in i .. (j - 1) : g[c] = g[d] => c = d
    BY <2>1
  <2> QED
    BY <2>2, <2>3, Fun_IsInj
<1>3. A \cap B = {}
  BY <1>h
<1>4. A \in SUBSET P /\ B \in SUBSET P
  OBVIOUS
<1> HIDE DEF A, B, f, g
<1>5. IsFiniteSet(A) /\ IsFiniteSet(B)
  BY <1>4, FS_Subset
<1>6. IsFiniteSet(L) /\ Cardinality(L) <= Cardinality(A)
  BY <1>1, <1>5, FS_Injection
<1>7. Cardinality(i .. (j - 1)) <= Cardinality(B)
  BY <1>2, <1>5, FS_Injection
<1>8. j - i <= Cardinality(B)
  <2>1. Cardinality(i .. (j - 1)) = IF i > j - 1 THEN 0 ELSE (j - 1) - i + 1
    <3>1. i \in Int /\ j - 1 \in Int
      OBVIOUS
    <3> QED
      BY <3>1, FS_Interval
  <2> QED
    BY <1>5, <1>7, <2>1, FS_CardinalityType
<1>9. Cardinality(A) + Cardinality(B) <= Cardinality(P)
  <2>1. Cardinality(A \cup B) = Cardinality(A) + Cardinality(B)
    <3>1. Cardinality(A \cup B) = Cardinality(A) + Cardinality(B) - Cardinality(A \cap B)
      BY <1>5, FS_Union
    <3>2. Cardinality(A \cap B) = 0
      BY <1>3, FS_EmptySet
    <3>3. Cardinality(A) \in Nat /\ Cardinality(B) \in Nat
      BY <1>5, FS_CardinalityType
    <3> QED
      BY <3>1, <3>2, <3>3
  <2>2. A \cup B \in SUBSET P
    BY <1>4
  <2> QED
    BY <2>1, <2>2, FS_Subset
<1>10. Cardinality(L) \in Nat /\ Cardinality(A) \in Nat /\ Cardinality(B) \in Nat /\ Cardinality(P) \in Nat
  BY <1>5, <1>6, FS_CardinalityType
<1> QED
  BY <1>6, <1>8, <1>9, <1>10

\* Nothing opened is ahead in the chain that is read, of a chain to come, or filed.
LEMMA StillPending ==
    ASSUME IInv, NEW p \in Party, NEW x \in Inbound(p),
           \/ x.pub = ratchet[p].remotePub /\ x.counter >= ratchet[p].recvCounter
           \/ Length(x) > Len(ratchet[p].root)
           \/ \E e \in ratchet[p].skipList : e.pub = x.pub /\ e.counter = x.counter
    PROVE  x \in Pending(p)
<1> SUFFICES ASSUME x \in accepted[p]  PROVE FALSE
  BY DEF Pending
<1>1. Spent(ratchet[p], accepted[p]) /\ ratchet[p] \in RatchetState /\ x \in sent /\ TypeOK
  BY DEF IInv, TypeOK, Inbound
<1>2. x.counter \in Nat /\ Length(x) \in Nat /\ ratchet[p].recvCounter \in Nat
      /\ Len(ratchet[p].root) \in Nat
  BY <1>1, MessageIs, StateFields
<1> QED
  BY <1>1, <1>2 DEF Spent, Length

\* What the three ways of opening m share.
Genuine(p, m, w, P) ==
    /\ m \in Pending(p) /\ P = Pending(p) \ {m}
    /\ IsFiniteSet(P) /\ Cardinality(P) <= MaxSkipped
    /\ now <= SkippedKeyTtl
    /\ w \in RatchetState /\ w.root = ratchet[p].root /\ w.sendPub = ratchet[p].sendPub
    /\ w.remotePub = ratchet[p].remotePub /\ w.recvChain = ratchet[p].recvChain
    /\ w.recvCounter = ratchet[p].recvCounter /\ w.skipList = ratchet[p].skipList
    /\ w.recvChain.step = w.recvCounter

\* Each skipped key is of a pending ciphertext.
LEMMA FiledPending ==
    ASSUME IInv, InStep, NEW p \in Party, NEW m, NEW w, NEW P, Genuine(p, m, w, P),
           Filed(w, m) = {}
    PROVE  /\ Keyed(w)
           /\ \A e \in w.skipList : \E x \in P : x.pub = e.pub /\ x.counter = e.counter
<1>1. FiledFrom(ratchet[p], Inbound(p), now) /\ w.skipList = ratchet[p].skipList
  BY DEF InStep, ReadHalf, Genuine
<1>2. ASSUME NEW e \in w.skipList
      PROVE  \E x \in P : x.pub = e.pub /\ x.counter = e.counter
  <2>1. PICK x \in Inbound(p) : x.pub = e.pub /\ x.counter = e.counter
    BY <1>1 DEF FiledFrom
  <2>2. x \in Pending(p)
    BY <1>1, <2>1, StillPending
  <2>3. x # m
    BY <2>1 DEF Filed
  <2> QED
    BY <2>1, <2>2, <2>3 DEF Genuine
<1> QED
  BY <1>1, <1>2 DEF FiledFrom, Keyed

LEMMA OpensBehind ==
    ASSUME IInv, InStep, NEW p \in Party, NEW m, NEW w, NEW P, Genuine(p, m, w, P),
           Behind(ratchet[p], m)
    PROVE  OpensFiled(w, m)
<1>1. /\ KeptFrom(ratchet[p], Pending(p)) /\ FiledFrom(ratchet[p], Inbound(p), now)
      /\ w.skipList = ratchet[p].skipList /\ m \in Pending(p)
  BY DEF InStep, ReadHalf, Genuine
<1>2. PICK e \in w.skipList : e.pub = m.pub /\ e.counter = m.counter
  BY <1>1 DEF KeptFrom
<1>3. PICK x \in Inbound(p) : x.pub = e.pub /\ x.counter = e.counter /\ x.key = e.key
  BY <1>1, <1>2 DEF FiledFrom
<1>4. x = m
  BY <1>1, <1>2, <1>3, SameChain DEF InStep, Pending, Inbound
<1> QED
  BY <1>2, <1>3, <1>4 DEF OpensFiled, Filed

LEMMA OpensHere ==
    ASSUME IInv, InStep, NEW p \in Party, NEW m, NEW w, NEW P, Genuine(p, m, w, P),
           ~Behind(ratchet[p], m), m.pub = ratchet[p].remotePub
    PROVE  OpensInChain(w, m, now)
<1>t. /\ TypeOK /\ SendHalf /\ m \in Inbound(p) /\ m \in sent /\ m.counter \in Nat /\ now \in Nat
      /\ w \in RatchetState /\ w.recvCounter \in Nat /\ m.from # p
  BY MessageIs, StateFields DEF IInv, InStep, TypeOK, Genuine, Pending, Inbound
<1>w. /\ w.recvCounter = ratchet[p].recvCounter /\ w.remotePub = ratchet[p].remotePub
      /\ w.recvChain = ratchet[p].recvChain /\ w.skipList = ratchet[p].skipList
      /\ P = Pending(p) \ {m} /\ IsFiniteSet(P) /\ Cardinality(P) <= MaxSkipped
  BY DEF Genuine
<1>1. m.counter >= w.recvCounter
  BY <1>t, <1>w DEF Behind
<1>2. \A e \in w.skipList : e.counter \in Nat /\ (e.pub = m.pub => e.counter < w.recvCounter)
  BY <1>t, <1>w, StateFields DEF IInv, Sane, SkipEntry
<1>3. Filed(w, m) = {}
  BY <1>1, <1>2, <1>t DEF Filed
<1>4. CanSkip(w, m.counter)
  <2>1. ASSUME NEW c \in w.recvCounter .. (m.counter - 1)
        PROVE  \E x \in P : x.pub = m.pub /\ x.counter = c
    <3>1. c \in 0..m.counter /\ c >= w.recvCounter /\ c # m.counter
      BY <1>t
    <3>2. PICK x \in sent : x.from = m.from /\ Length(x) = Length(m) /\ x.counter = c
      BY <1>t, <3>1 DEF SendHalf, Has
    <3>3. x \in Inbound(p) /\ x.pub = m.pub
      BY <1>t, <3>2, SameChain DEF Inbound
    <3>4. x \in Pending(p) /\ x # m
      BY <1>w, <3>1, <3>2, <3>3, StillPending
    <3> QED
      BY <1>w, <3>2, <3>3, <3>4
  <2>2. EachHasOne(w.skipList, m.pub, w.recvCounter, m.counter, P)
    <3>1. \A e \in w.skipList : e.pub = m.pub => e.counter \notin w.recvCounter .. (m.counter - 1)
      BY <1>2, <1>t
    <3>2. Keyed(w) /\ \A e \in w.skipList : \E x \in P : x.pub = e.pub /\ x.counter = e.counter
      BY <1>3, FiledPending
    <3> QED
      BY <2>1, <3>1, <3>2 DEF EachHasOne, Keyed
  <2>3. /\ Cardinality(w.skipList) \in Nat
        /\ Cardinality(w.skipList) + (m.counter - w.recvCounter) <= Cardinality(P)
    BY <1>t, <1>w, <2>2, Fits, Zenon
  <2> QED
    BY <1>t, <1>w, <2>3, FS_CardinalityType, BudgetIsNat DEF CanSkip
<1>5. Caught(w, m, now).recvChain = m.key
  BY <1>1, <1>t, <1>w, ChainLeadsTo
<1> QED
  BY <1>3, <1>4, <1>5, <1>w DEF OpensInChain

\* What is neither behind p nor of the chain p reads is of its peer's newest chain.
LEMMA LeadsOnElse ==
    ASSUME IInv, InStep, NEW p \in Party, NEW m \in Inbound(p),
           ~Behind(ratchet[p], m), m.pub # ratchet[p].remotePub,
           Length(m) >= Len(ratchet[p].recvChain.dh) - 2
    PROVE  LeadsOn(p, m.from, m) /\ Len(ratchet[p].recvChain.dh) <= Len(ratchet[p].root) + 1
           /\ (~Waiting(p) => Len(ratchet[p].recvChain.dh) < Length(m))
<1>r. PICK a, N, K : a = m.from /\ N = Len(ratchet[p].root) /\ K = Len(ratchet[p].recvChain.dh)
  OBVIOUS
<1>t. /\ TypeOK /\ SendHalf /\ m \in sent /\ a \in Party /\ a # p /\ Length(m) \in Nat
      /\ Side(a, Length(m)) /\ ratchet[p] \in RatchetState
  BY <1>r, MessageIs DEF IInv, InStep, TypeOK, Inbound, SendHalf
<1>k. K \in Nat
  BY <1>r, <1>t, StateFields DEF ChainKey
<1>1. K <= Length(m)
  BY <1>k, <1>r, <1>t DEF Behind
<1>2. ~Waiting(p) => K < Length(m)
  <2>1. ~Waiting(p) => Length(m) # K
    BY <1>r DEF InStep, ReadHalf, ReadsChain
  <2> QED
    BY <1>1, <1>k, <1>t, <2>1
<1>z. Waiting(p) => N = 0 /\ K = 1
  <2>1. Waiting(p) => ratchet[p].root = <<>> /\ ratchet[p].recvChain = ZeroChain
    BY DEF Waiting
  <2> QED
    BY <1>r, <2>1 DEF ZeroChain
<1>3. Ahead(a, p)
  <2>1. Ahead(a, p) \/ Ahead(p, a)
    BY <1>t DEF InStep, Lockstep, Party
  <2>2. CASE Ahead(p, a)
    <3>1. /\ Length(m) <= K /\ N = Len(ratchet[a].root) + 1 /\ Len(ratchet[a].root) \in Nat
      BY <1>r, <1>t, <2>2, LengthBound DEF Ahead
    <3>2. ~Waiting(p)
      BY <1>z, <3>1
    <3> QED
      BY <1>2, <1>k, <1>t, <3>1, <3>2
  <2> QED
    BY <2>1, <2>2
<1>4. /\ N \in Nat /\ Len(ratchet[a].root) = N + 1 /\ Length(m) <= N + 1 /\ Side(a, N + 1)
  <2>1. N \in Nat /\ Len(ratchet[a].root) = N + 1 /\ Length(m) <= N + 1
    BY <1>r, <1>t, <1>3, LengthBound
  <2> QED
    BY <1>t, <2>1 DEF SendHalf
<1>5. ~Waiting(p) => K = N - 1
  BY <1>3, <1>r DEF Ahead
<1>6. Length(m) = N + 1
  <2>1. Length(m) >= N
    BY <1>2, <1>4, <1>5, <1>k, <1>t, <1>z
  <2>2. Length(m) = N + 1 \/ Length(m) < N + 1
    BY <1>4, <1>t
  <2>3. ~(Length(m) < N + 1)
    BY <1>4, <1>t, <2>1, SideGap
  <2> QED
    BY <2>2, <2>3
<1>7. m.pub = ratchet[a].sendPub /\ m.key.dh = ratchet[a].root
  BY <1>4, <1>6, <1>r, <1>t DEF SendHalf, IInv, SentInv
<1>8. LeadsOn(p, a, m)
  BY <1>3, <1>4, <1>6, <1>7, <1>r, <1>t DEF LeadsOn
<1>9. K <= N + 1 /\ (~Waiting(p) => K < Length(m))
  BY <1>2, <1>4, <1>5, <1>z
<1> QED
  BY <1>8, <1>9, <1>r

\* A chain's messages up to one that is pending are pending, where none is passed.
LEMMA GapPending ==
    ASSUME IInv, InStep, NEW p \in Party, NEW a \in Party, NEW m \in Inbound(p), LeadsOn(p, a, m)
    PROVE  /\ \A c \in ratchet[p].recvCounter .. (m.prevChainLen - 1) :
                 \E x \in Pending(p) \ {m} : x.pub = ratchet[p].remotePub /\ x.counter = c
           /\ \A c \in 0 .. (m.counter - 1) :
                 \E x \in Pending(p) \ {m} : x.pub = m.pub /\ x.counter = c
<1>r. PICK N : N = Len(ratchet[p].root)
  OBVIOUS
<1>t. /\ TypeOK /\ SendHalf /\ m \in sent /\ m.counter \in Nat /\ m.prevChainLen \in Nat
      /\ ratchet[p].recvCounter \in Nat /\ Length(m) = N + 1 /\ m.from = a /\ a # p
  BY <1>r, MessageIs, StateFields DEF IInv, InStep, TypeOK, Inbound, LeadsOn
<1>n. /\ N \in Nat /\ (Waiting(p) => m.prevChainLen = 0)
      /\ (~Waiting(p) => Len(ratchet[p].recvChain.dh) = N - 1)
      /\ SentUpTo(sent, a, N - 1, m.prevChainLen)
  BY <1>r, ChainBefore
<1>1. ASSUME NEW c \in ratchet[p].recvCounter .. (m.prevChainLen - 1)
      PROVE  \E x \in Pending(p) \ {m} : x.pub = ratchet[p].remotePub /\ x.counter = c
  <2>1. c \in Nat /\ c < m.prevChainLen /\ c >= ratchet[p].recvCounter
    BY <1>t
  <2>2. PICK x \in sent : x.from = a /\ Length(x) = N - 1 /\ x.counter = c
    BY <1>n, <2>1 DEF SentUpTo, Has
  <2>3. x \in Inbound(p) /\ ~Waiting(p) /\ x # m
    BY <1>n, <1>t, <2>1, <2>2 DEF Inbound
  <2>4. x.pub = ratchet[p].remotePub
    BY <1>n, <2>2, <2>3 DEF InStep, ReadHalf, ReadsChain
  <2>5. x \in Pending(p)
    BY <2>1, <2>2, <2>3, <2>4, StillPending
  <2> QED
    BY <2>2, <2>3, <2>4, <2>5
<1>2. ASSUME NEW c \in 0 .. (m.counter - 1)
      PROVE  \E x \in Pending(p) \ {m} : x.pub = m.pub /\ x.counter = c
  <2>1. c \in 0..m.counter /\ c # m.counter
    BY <1>t
  <2>2. PICK x \in sent : x.from = m.from /\ Length(x) = Length(m) /\ x.counter = c
    BY <1>t, <2>1 DEF SendHalf, Has
  <2>3. x \in Inbound(p) /\ x.pub = m.pub
    BY <1>t, <2>2, SameChain DEF Inbound
  <2>4. x \in Pending(p)
    BY <1>n, <1>r, <1>t, <2>2, <2>3, StillPending
  <2> QED
    BY <2>1, <2>2, <2>3, <2>4
<1> QED
  BY <1>1, <1>2

LEMMA OpensNext ==
    ASSUME IInv, InStep, NEW p \in Party, NEW m, NEW w, NEW P, Genuine(p, m, w, P),
           ~Behind(ratchet[p], m), m.pub # ratchet[p].remotePub,
           Length(m) >= Len(ratchet[p].recvChain.dh) - 2, NEW pair \in KeyPair
    PROVE  OpensNewChain(w, m, pair, now)
<1>t. /\ TypeOK /\ m \in Inbound(p) /\ m \in sent /\ m.counter \in Nat /\ now \in Nat
      /\ m.pub \in KeyPair /\ m.prevChainLen \in Nat /\ m.key \in ChainKey /\ m.key.step = m.counter
      /\ w \in RatchetState /\ w.recvCounter \in Nat /\ m.from \in Party /\ w.remotePub \in KeyPair
  BY MessageIs, StateFields DEF IInv, InStep, TypeOK, Genuine, Pending, Inbound, SentInv, Wellformed
<1>w. /\ w.recvCounter = ratchet[p].recvCounter /\ w.remotePub = ratchet[p].remotePub
      /\ w.recvChain = ratchet[p].recvChain /\ w.skipList = ratchet[p].skipList
      /\ w.root = ratchet[p].root /\ w.sendPub = ratchet[p].sendPub
      /\ w.recvChain.step = w.recvCounter
      /\ P = Pending(p) \ {m} /\ IsFiniteSet(P) /\ Cardinality(P) <= MaxSkipped
  BY DEF Genuine
<1>a. PICK a \in Party : a = m.from
  BY <1>t
<1>l. /\ LeadsOn(p, a, m) /\ (~Waiting(p) => Len(ratchet[p].recvChain.dh) < Length(m))
  BY <1>a, <1>t, LeadsOnElse
<1>g. /\ \A c \in w.recvCounter .. (m.prevChainLen - 1) :
            \E x \in P : x.pub = w.remotePub /\ x.counter = c
      /\ \A c \in 0 .. (m.counter - 1) : \E x \in P : x.pub = m.pub /\ x.counter = c
  BY <1>l, <1>t, <1>w, GapPending
<1>1. Filed(w, m) = {}
  <2> SUFFICES ASSUME NEW e \in w.skipList, e.pub = m.pub  PROVE FALSE
    BY DEF Filed
  <2>1. ~Waiting(p)
    BY <1>w DEF Waiting
  <2>2. Len(e.key.dh) <= Len(ratchet[p].recvChain.dh)
    BY <1>w DEF InStep, ReadHalf, FiledFrom
  <2>3. PICK x \in Inbound(p) : x.pub = e.pub /\ x.key = e.key
    BY <1>w DEF InStep, ReadHalf, FiledFrom
  <2>4. Length(x) = Length(m) /\ Len(e.key.dh) = Length(m)
    BY <1>t, <2>3, SameChain DEF InStep, Inbound, Length
  <2>5. Length(m) \in Nat /\ Len(ratchet[p].recvChain.dh) \in Nat
    BY <1>t, MessageIs, StateFields DEF TypeOK, ChainKey
  <2> QED
    BY <1>l, <2>1, <2>2, <2>4, <2>5
<1>k. Keyed(w) /\ \A e \in w.skipList : \E x \in P : x.pub = e.pub /\ x.counter = e.counter
  BY <1>1, FiledPending
<1>e. \A e \in w.skipList : e.counter \in Nat /\ (e.pub = w.remotePub => e.counter < w.recvCounter)
  BY <1>t, <1>w, StateFields DEF IInv, Sane, SkipEntry
<1>2. CanSkip(w, m.prevChainLen)
  <2>1. EachHasOne(w.skipList, w.remotePub, w.recvCounter, m.prevChainLen, P)
    <3>1. \A e \in w.skipList : e.pub = w.remotePub => e.counter \notin w.recvCounter .. (m.prevChainLen - 1)
      BY <1>e, <1>t
    <3> QED
      BY <1>g, <1>k, <3>1 DEF EachHasOne, Keyed
  <2>2. /\ Cardinality(w.skipList) \in Nat
        /\ Cardinality(w.skipList) + (m.prevChainLen - w.recvCounter) <= Cardinality(P)
    BY <1>t, <1>w, <2>1, Fits, Zenon
  <2> QED
    BY <1>t, <1>w, <2>2, FS_CardinalityType, BudgetIsNat DEF CanSkip
<1>p. PICK x : x = SkipMessages(w, w.remotePub, m.prevChainLen, now)
  OBVIOUS
<1>q. PICK v : v = DhRatchetStep(x, m.pub, pair)
  OBVIOUS
<1>r. PICK c : c = SkipMessages(v, m.pub, m.counter, now)
  OBVIOUS
<1>3. /\ SkipFacts(w, w.remotePub, m.prevChainLen, x)
      /\ SkipListFacts(w, w.remotePub, m.prevChainLen, now, x)
  <2>1. SkipFacts(w, w.remotePub, m.prevChainLen, x)
    BY <1>t, <1>p, SkipState, Zenon
  <2>2. SkipListFacts(w, w.remotePub, m.prevChainLen, now, x)
    BY <1>t, <1>w, <1>p, SkipList, Zenon
  <2> QED
    BY <2>1, <2>2
<1>4. /\ x \in RatchetState /\ x.root = w.root /\ x.sendPub = w.sendPub /\ x.remotePub = w.remotePub
  BY <1>3 DEF SkipFacts
<1>5. StepDetails(x, m.pub, pair, v)
  BY <1>4, <1>t, <1>q, StepDetail, Zenon
<1>6. /\ v \in RatchetState /\ v.recvCounter = 0 /\ v.recvChain.step = 0
      /\ v.recvChain.dh = Append(w.root, DhOutput(w.sendPub, m.pub))
      /\ v.skipList = {e \in x.skipList : e.pub = w.remotePub}
  BY <1>4, <1>5 DEF StepDetails
<1>7. CanSkip(v, m.counter)
  <2>1. EachHasOne(v.skipList, m.pub, 0, m.counter, P)
    <3>1. \A e \in v.skipList : e.pub # m.pub
      BY <1>6, <1>w
    <3>2. \A e \in v.skipList : \E y \in P : y.pub = e.pub /\ y.counter = e.counter
      BY <1>3, <1>6, <1>g, <1>k DEF SkipListFacts
    <3>3. Keyed(v)
      BY <1>3, <1>6, <1>k DEF SkipListFacts, Keyed
    <3> QED
      BY <1>g, <3>1, <3>2, <3>3 DEF EachHasOne, Keyed
  <2>2. /\ Cardinality(v.skipList) \in Nat
        /\ Cardinality(v.skipList) + (m.counter - 0) <= Cardinality(P)
    <3>1. 0 \in Nat
      OBVIOUS
    <3> QED
      BY <1>t, <1>w, <2>1, <3>1, Fits, Zenon
  <2> QED
    BY <1>6, <1>t, <1>w, <2>2, FS_CardinalityType, BudgetIsNat DEF CanSkip
<1>8. c.recvChain = m.key
  <2>1. SkipFacts(v, m.pub, m.counter, c)
    BY <1>6, <1>t, <1>r, SkipState, Zenon
  <2>2. c \in RatchetState /\ c.recvChain.dh = v.recvChain.dh /\ c.recvChain.step = m.counter
    BY <1>6, <1>t, <2>1 DEF SkipFacts
  <2>3. v.recvChain.dh = m.key.dh
    BY <1>6, <1>l, <1>w DEF LeadsOn, Ahead, DhOutput
  <2> QED
    BY <1>t, <2>2, <2>3, StateFields, KeyIs
<1> QED
  BY <1>1, <1>2, <1>7, <1>8, <1>p, <1>q, <1>r, <1>w DEF OpensNewChain, Stepped, Caught

LEMMA GenuineOpens ==
    ASSUME IInv, InStep, IsFiniteSet(sent)
    PROVE  GenuineTrafficOpens
<1> SUFFICES ASSUME NEW p \in Party, NEW m \in Pending(p),
                    Len(m.key.dh) >= Len(ratchet[p].recvChain.dh) - 2,
                    Cardinality(Pending(p) \ {m}) <= MaxSkipped, now <= SkippedKeyTtl
             PROVE  CanOpenAt(p, m, now)
  BY DEF GenuineTrafficOpens
<1>w. PICK w : w = Prune(ratchet[p], now)
  OBVIOUS
<1>p. PICK P, pair : P = Pending(p) \ {m} /\ pair = FreshPair(p)
  OBVIOUS
<1>1. Genuine(p, m, w, P)
  <2>1. P \in SUBSET sent
    BY <1>p DEF Pending, Inbound
  <2>2. IsFiniteSet(P)
    BY <2>1, FS_Subset
  <2> QED
    BY <1>p, <1>w, <2>2, Working DEF Genuine
<1>2. pair \in KeyPair /\ Length(m) >= Len(ratchet[p].recvChain.dh) - 2
  BY <1>p DEF FreshPair, KeyPair, IInv, TypeOK, Length
<1>3. CASE Behind(ratchet[p], m)
  BY <1>1, <1>3, <1>w, OpensBehind DEF CanOpenAt
<1>4. CASE ~Behind(ratchet[p], m) /\ m.pub = ratchet[p].remotePub
  BY <1>1, <1>4, <1>w, OpensHere DEF CanOpenAt
<1>5. CASE ~Behind(ratchet[p], m) /\ m.pub # ratchet[p].remotePub
  <2>1. OpensNewChain(w, m, pair, now)
    BY <1>1, <1>2, <1>5, OpensNext
  <2> QED
    BY <1>p, <1>w, <2>1 DEF CanOpenAt
<1> QED
  BY <1>3, <1>4, <1>5

\* Only finitely much has ever been sent.
LEMMA SentFinite == IsFiniteSet(sent) /\ [Next]_vars => IsFiniteSet(sent)'
<1> SUFFICES ASSUME IsFiniteSet(sent), [Next]_vars  PROVE IsFiniteSet(sent')
  OBVIOUS
<1>1. ASSUME NEW p \in Party, Send(p)  PROVE IsFiniteSet(sent')
  <2>1. sent' = sent \cup {Outgoing(p)}
    BY <1>1 DEF Send
  <2> QED
    BY <2>1, FS_AddElement
<1>2. ASSUME NEW p \in Party, NEW m \in Inbound(p),
             ReceiveFiled(p, m) \/ ReceiveInChain(p, m) \/ ReceiveNewChain(p, m)
      PROVE  sent' = sent
  BY <1>2 DEF ReceiveFiled, ReceiveInChain, ReceiveNewChain, Commit
<1>3. Tick \/ UNCHANGED vars => sent' = sent
  BY DEF Tick, vars
<1> QED
  BY <1>1, <1>2, <1>3 DEF Next

\* Forward secrecy of what was read: once a ciphertext is opened, no chain and no skipped
\* key of either party leads to its message key again, whatever is lost, repeated or
\* reordered, for any budget, TTL and number of messages (TakeChainKey, serializeRatchet).
THEOREM OpenedKeysStayGone == Spec => []OpenedKeysAreGone
<1>1. IInv /\ InStep => OpenedKeysAreGone
  BY OpenedGone
<1> QED
  BY <1>1, InitInv, InitInStep, NextInv, NextInStep, PTL DEF Spec

\* The budget never wedges the session: one TTL on, the next messages of the current chain
\* open whatever is filed now (SKIPPED_KEY_TTL_MS).
THEOREM BudgetAlwaysRecovers == Spec => []BudgetRecovers
<1>1. IInv /\ InStep => BudgetRecovers
  BY Recovers
<1> QED
  BY <1>1, InitInv, InitInStep, NextInv, NextInStep, PTL DEF Spec

\* The session keeps decrypting genuine traffic (ratchetDecrypt): every unopened message of
\* the peer's newest chain and of the one before opens, in whatever order they come, while
\* the others fit the budget and no key had time to expire.
THEOREM GenuineAlwaysOpens == Spec => []GenuineTrafficOpens
<1>1. Init => IsFiniteSet(sent)
  BY FS_EmptySet DEF Init
<1>2. IInv /\ InStep /\ IsFiniteSet(sent) => GenuineTrafficOpens
  BY GenuineOpens
<1> QED
  BY <1>1, <1>2, InitInv, InitInStep, NextInv, NextInStep, SentFinite, PTL DEF Spec
----------------------------------------------------------------------------
(* The sessions: their shapes. *)

Wires == [no : Nat, from : Party, session : Nat, init : BOOLEAN]
Entries == [id : Nat, pending : BOOLEAN, spent : SUBSET Wires]
Bundles == [gen : Nat, consumed : SUBSET Slots]
Inits == [from : Party, gen : Nat, opk : Slots]
FetchStates == {Idle, Asked} \cup [stage : {"served"}, gen : Nat, open : (SUBSET Slots) \ {{}}]

\* The bundles a peer retains: the published one and those before it, newest first.
Kept(b, old) == {b} \cup {old[i] : i \in 1..Len(old)}
GoodBundles(b, old) ==
    /\ b \in Bundles /\ old \in Seq(Bundles) /\ Len(old) <= Grace
    /\ \A i \in 1..Len(old) : old[i].gen < b.gen
    /\ \A i, j \in 1..Len(old) : i < j => old[j].gen < old[i].gen

\* The uses, pairs of a bundle and a slot, no retained bundle would serve again.
Covers(uses, b, old) ==
    \A u \in uses : /\ u.gen <= b.gen
                    /\ \A x \in Kept(b, old) : x.gen = u.gen => u.opk \in x.consumed
Use(init) == [gen |-> init.gen, opk |-> init.opk]
Used(p) == {Use(inits[n]) : n \in Backed(p)}

----------------------------------------------------------------------------
(* What happens to bundles. *)

\* A set of slots that is not empty has a least one.
LEMMA PickIsIn ==
    ASSUME NEW open \in SUBSET Slots, open # {}
    PROVE  Pick(open) \in open
<1> DEFINE R == OpToRel(<, Nat)
<1>1. open \subseteq Nat /\ IsWellFoundedOn(R, Nat)
  BY SlotsAreNat, NatLessThanWellFounded
<1> HIDE DEF R
<1>2. PICK s \in open : \A t \in open : ~(<<t, s>> \in R)
  BY ONLY <1>1, WFMin, open # {}
<1>3. \A t \in open : s <= t
  <2> SUFFICES ASSUME NEW t \in open PROVE s <= t
    OBVIOUS
  <2>1. <<t, s>> \in R <=> t < s
    BY <1>1 DEF R, OpToRel
  <2> QED
    BY <1>1, <1>2, <2>1
<1> QED
  BY <1>3 DEF Pick

\* A bundle served has a slot left: one running low is replaced first.
LEMMA ServedIsOpen ==
    ASSUME NEW b \in Bundles, NEW expired \in BOOLEAN
    PROVE  Open(NextBundle(b, expired)) \in (SUBSET Slots) \ {{}}
<1>1. CASE Rotates(b, expired)
  <2>1. Open(NextBundle(b, expired)) = Slots
    BY <1>1 DEF Open, NextBundle
  <2>2. Slots # {}
    BY SlotsAreNat, LimitsAreNat, FS_EmptySet
  <2> QED
    BY <2>1, <2>2
<1>2. CASE ~Rotates(b, expired)
  <2>1. NextBundle(b, expired) = b /\ Open(b) \subseteq Slots
    BY <1>2 DEF Open, NextBundle
  <2>2. Open(b) # {}
    BY <1>2, LimitsAreNat, FS_EmptySet DEF Rotates, Low
  <2> QED
    BY <2>1, <2>2
<1> QED
  BY <1>1, <1>2

\* Turning the published bundle over keeps the numbers falling, and no bundle it
\* leaves in place serves a covered use: the new one has a number never used.
LEMMA TurningOver ==
    ASSUME NEW b, NEW old, NEW expired \in BOOLEAN, NEW uses,
           GoodBundles(b, old), Covers(uses, b, old), \A u \in uses : u.gen \in Nat
    PROVE  /\ GoodBundles(NextBundle(b, expired), NextRetired(b, old, expired))
           /\ Covers(uses, NextBundle(b, expired), NextRetired(b, old, expired))
<1>1. CASE ~Rotates(b, expired)
  BY <1>1 DEF NextBundle, NextRetired
<1>2. CASE Rotates(b, expired)
  <2> DEFINE all == <<b>> \o old
             n == IF Len(all) < Grace THEN Len(all) ELSE Grace
             nb == [gen |-> b.gen + 1, consumed |-> {}]
             no == SubSeq(all, 1, n)
  <2>0. NextBundle(b, expired) = nb /\ NextRetired(b, old, expired) = no
    BY <1>2 DEF NextBundle, NextRetired
  <2>1. b \in Bundles /\ old \in Seq(Bundles) /\ b.gen \in Nat /\ Grace \in Nat
    BY LimitsAreNat DEF GoodBundles, Bundles
  <2>2. /\ all \in Seq(Bundles) /\ Len(all) = Len(old) + 1
        /\ all[1] = b /\ \A i \in 2..Len(all) : i - 1 \in 1..Len(old) /\ all[i] = old[i - 1]
    BY <2>1
  <2>3. n \in 0..Len(all) /\ n <= Grace
    BY <2>1, <2>2
  <2>4. no \in Seq(Bundles) /\ Len(no) = n /\ \A i \in 1..n : i \in 1..Len(all) /\ no[i] = all[i]
    <3> HIDE DEF all, n
    <3> QED
      BY <2>2, <2>3
  <2> HIDE DEF all, n, no
  <2>5. \A i \in 1..Len(all) : all[i].gen < b.gen + 1 /\ all[i].gen \in Nat
    <3> SUFFICES ASSUME NEW i \in 1..Len(all) PROVE all[i].gen < b.gen + 1 /\ all[i].gen \in Nat
      OBVIOUS
    <3>1. all[i].gen \in Nat
      <4>1. all[i] \in Bundles
        BY <2>2
      <4> QED
        BY <4>1 DEF Bundles
    <3>2. CASE i = 1
      BY <2>1, <2>2, <3>2
    <3>3. CASE i # 1
      <4>1. i - 1 \in 1..Len(old) /\ all[i] = old[i - 1]
        BY <2>2, <3>3
      <4>2. old[i - 1].gen < b.gen
        BY <4>1 DEF GoodBundles
      <4> QED
        BY <2>1, <3>1, <4>1, <4>2
    <3> QED
      BY <3>2, <3>3
  <2>6. \A i, j \in 1..Len(all) : i < j => all[j].gen < all[i].gen
    <3> SUFFICES ASSUME NEW i \in 1..Len(all), NEW j \in 1..Len(all), i < j
                 PROVE  all[j].gen < all[i].gen
      OBVIOUS
    <3>1. j - 1 \in 1..Len(old) /\ all[j] = old[j - 1]
      BY <2>2
    <3>2. CASE i = 1
      BY <2>2, <3>1, <3>2 DEF GoodBundles
    <3>3. CASE i # 1
      <4>1. i - 1 \in 1..Len(old) /\ all[i] = old[i - 1] /\ i - 1 < j - 1
        BY <2>2, <3>3
      <4> QED
        BY <3>1, <4>1 DEF GoodBundles
    <3> QED
      BY <3>2, <3>3
  <2>7. GoodBundles(nb, no)
    <3>1. nb \in Bundles
      BY <2>1 DEF Bundles
    <3>2. \A i \in 1..Len(no) : no[i].gen < nb.gen
      BY <2>4, <2>5
    <3>3. \A i, j \in 1..Len(no) : i < j => no[j].gen < no[i].gen
      BY <2>4, <2>6
    <3> QED
      BY <2>3, <2>4, <3>1, <3>2, <3>3 DEF GoodBundles
  <2>8. Covers(uses, nb, no)
    <3> SUFFICES ASSUME NEW u \in uses
                 PROVE  /\ u.gen <= nb.gen
                        /\ \A x \in Kept(nb, no) : x.gen = u.gen => u.opk \in x.consumed
      BY DEF Covers
    <3>1. u.gen <= b.gen /\ u.gen \in Nat
      BY DEF Covers
    <3>2. u.gen < nb.gen
      BY <2>1, <3>1
    <3> SUFFICES ASSUME NEW x \in Kept(nb, no), x.gen = u.gen PROVE u.opk \in x.consumed
      <4>1. u.gen <= nb.gen
        BY <3>2, <3>1, <2>1
      <4> QED
        BY <4>1
    <3>3. x # nb
      BY <2>1, <3>1, <3>2
    <3>4. PICK i \in 1..Len(no) : x = no[i]
      BY <3>3 DEF Kept
    <3>5. x = all[i] /\ i \in 1..Len(all)
      BY <2>4, <3>4
    <3>6. x \in Kept(b, old)
      <4>1. CASE i = 1
        BY <2>2, <3>5, <4>1 DEF Kept
      <4>2. CASE i # 1
        <5>1. i - 1 \in 1..Len(old) /\ x = old[i - 1]
          <6>1. i \in 2..Len(all)
            BY <2>2, <3>5, <4>2
          <6> QED  BY <2>2, <3>5, <6>1
        <5> QED  BY <5>1 DEF Kept
      <4> QED  BY <4>1, <4>2
    <3> QED
      BY <3>6 DEF Covers
  <2> QED
    BY <2>0, <2>7, <2>8
<1> QED
  BY <1>1, <1>2

\* A slot taken from the published bundle covers its use.
LEMMA TakingFromCurrent ==
    ASSUME NEW b, NEW old, NEW slot \in Slots, NEW uses, GoodBundles(b, old), Covers(uses, b, old)
    PROVE  /\ GoodBundles(Consumed(b, slot), old)
           /\ Covers(uses \cup {[gen |-> b.gen, opk |-> slot]}, Consumed(b, slot), old)
<1> DEFINE c == Consumed(b, slot)
           u0 == [gen |-> b.gen, opk |-> slot]
<1>1. b \in Bundles /\ b.gen \in Nat
  BY DEF GoodBundles, Bundles
<1>2. c \in Bundles /\ c.gen = b.gen /\ c.consumed = b.consumed \cup {slot}
  BY <1>1 DEF Consumed, Bundles
<1> HIDE DEF c
<1>3. GoodBundles(c, old)
  BY <1>2 DEF GoodBundles
<1>4. Covers(uses \cup {u0}, c, old)
  <2> SUFFICES ASSUME NEW u \in uses \cup {u0}
               PROVE  /\ u.gen <= c.gen
                      /\ \A x \in Kept(c, old) : x.gen = u.gen => u.opk \in x.consumed
    BY DEF Covers
  <2>1. u.gen <= c.gen
    BY <1>1, <1>2 DEF Covers
  <2>2. ASSUME NEW x \in Kept(c, old), x.gen = u.gen PROVE u.opk \in x.consumed
    <3>1. CASE u \in uses
      <4>1. CASE x = c
        <5>1. b \in Kept(b, old) /\ b.gen = u.gen
          BY <1>2, <2>2, <4>1 DEF Kept
        <5> QED
          BY <1>2, <3>1, <4>1, <5>1 DEF Covers
      <4>2. CASE x # c
        BY <2>2, <3>1, <4>2 DEF Covers, Kept
      <4> QED
        BY <4>1, <4>2
    <3>2. CASE u = u0
      <4>1. x = c
        <5> SUFFICES ASSUME x # c PROVE FALSE
          OBVIOUS
        <5>1. PICK i \in 1..Len(old) : x = old[i]
          BY <2>2 DEF Kept
        <5>2. x.gen < b.gen /\ x \in Bundles
          BY <5>1 DEF GoodBundles
        <5>3. x.gen \in Nat
          BY <5>2 DEF Bundles
        <5> QED
          BY <1>1, <2>2, <3>2, <5>2, <5>3
      <4> QED
        BY <1>2, <3>2, <4>1
    <3> QED
      BY <3>1, <3>2
  <2> QED
    BY <2>1, <2>2
<1> QED
  BY <1>3, <1>4 DEF c

\* And one taken from a bundle published before.
LEMMA TakingFromRetired ==
    ASSUME NEW b, NEW old, NEW at \in 1..Len(old), NEW slot \in Slots, NEW uses,
           GoodBundles(b, old), Covers(uses, b, old)
    PROVE  /\ GoodBundles(b, [old EXCEPT ![at] = Consumed(@, slot)])
           /\ Covers(uses \cup {[gen |-> old[at].gen, opk |-> slot]}, b,
                     [old EXCEPT ![at] = Consumed(@, slot)])
<1> DEFINE no == [old EXCEPT ![at] = Consumed(@, slot)]
           u0 == [gen |-> old[at].gen, opk |-> slot]
<1>1. b \in Bundles /\ b.gen \in Nat /\ old \in Seq(Bundles)
  BY DEF GoodBundles, Bundles
<1>2. \A i \in 1..Len(old) : old[i] \in Bundles /\ old[i].gen \in Nat /\ old[i].consumed \subseteq Slots
  <2>1. \A i \in 1..Len(old) : old[i] \in Bundles
    BY <1>1
  <2> QED
    BY <2>1 DEF Bundles
<1>3. /\ no \in Seq(Bundles) /\ Len(no) = Len(old)
      /\ \A i \in 1..Len(old) : no[i].gen = old[i].gen /\ old[i].consumed \subseteq no[i].consumed
      /\ slot \in no[at].consumed
  <2>1. Consumed(old[at], slot) \in Bundles /\ Consumed(old[at], slot).gen = old[at].gen
        /\ Consumed(old[at], slot).consumed = old[at].consumed \cup {slot}
    BY <1>2 DEF Consumed, Bundles
  <2>2. no \in Seq(Bundles) /\ Len(no) = Len(old)
        /\ \A i \in 1..Len(old) : no[i] = IF i = at THEN Consumed(old[at], slot) ELSE old[i]
    BY <1>1, <2>1
  <2> QED
    BY <2>1, <2>2
<1> HIDE DEF no
<1>4. GoodBundles(b, no)
  BY <1>3 DEF GoodBundles
<1>5. Covers(uses \cup {u0}, b, no)
  <2> SUFFICES ASSUME NEW u \in uses \cup {u0}
               PROVE  /\ u.gen <= b.gen
                      /\ \A x \in Kept(b, no) : x.gen = u.gen => u.opk \in x.consumed
    BY DEF Covers
  <2>1. u.gen <= b.gen
    BY <1>1, <1>2 DEF Covers, GoodBundles
  <2>2. ASSUME u.gen = b.gen PROVE u.opk \in b.consumed
    <3>1. u # u0
      BY <1>1, <1>2, <2>2 DEF GoodBundles
    <3> QED
      BY <2>2, <3>1 DEF Covers, Kept
  <2>3. ASSUME NEW i \in 1..Len(no), no[i].gen = u.gen PROVE u.opk \in no[i].consumed
    <3>0. i \in 1..Len(old) /\ old[i].gen = u.gen
      BY <1>3, <2>3
    <3>1. CASE u \in uses
      BY <1>3, <3>0, <3>1 DEF Covers, Kept
    <3>2. CASE u = u0
      <4>1. i = at
        BY <1>2, <3>0, <3>2 DEF GoodBundles
      <4> QED
        BY <1>3, <3>2, <4>1
    <3> QED
      BY <3>1, <3>2
  <2> QED
    BY <2>1, <2>2, <2>3 DEF Kept
<1> QED
  BY <1>4, <1>5 DEF no

----------------------------------------------------------------------------
(* The inductive invariant of the sessions. *)

SessionsShape ==
    /\ sessions \in [Party -> Seq(Entries)]
    /\ bundle \in [Party -> Bundles] /\ retired \in [Party -> Seq(Bundles)]
    /\ fetching \in [Party -> [Fetches -> FetchStates]]
    /\ inits \in Seq(Inits) /\ wires \subseteq Wires
    /\ opened \in [Party -> SUBSET Wires] /\ plaintexts \in [Party -> Nat]

\* Wires are numbered as they are made, and an init rides only with a wire of the
\* peer that initiated the session.
WiresHold ==
    /\ IsFiniteSet(wires)
    /\ \A w \in wires : /\ w.session \in Sessions /\ w.no <= Cardinality(wires)
                        /\ w.init => inits[w.session].from = w.from
OpenedHold == \A p \in Party : opened[p] \subseteq InboundWires(p)

\* An entry knows every wire of its session that was opened; one the other peer
\* initiated has been opened; one still pending stands alone and is the peer's own.
GoodEntry(p, e, count) ==
    /\ e.id \in Sessions /\ e.spent \subseteq wires
    /\ e.pending => count = 1 /\ inits[e.id].from = p
    /\ \A w \in opened[p] : w.session = e.id => w \in e.spent
    /\ inits[e.id].from # p => e.id \in Backed(p)
GoodList(p, list) ==
    /\ Len(list) <= MaxSessions
    /\ \A i \in 1..Len(list) : GoodEntry(p, list[i], Len(list))
    /\ \A i, j \in 1..Len(list) : list[i].id = list[j].id => i = j
ListsHold == \A p \in Party : GoodList(p, sessions[p])

\* What a peer has been opened with is covered by the bundles it retains.
BundlesHold ==
    \A p \in Party : /\ GoodBundles(bundle[p], retired[p])
                     /\ Covers(Used(p), bundle[p], retired[p])

SessionsInv == /\ SessionsShape /\ WiresHold /\ OpenedHold /\ ListsHold /\ BundlesHold
               /\ PrekeysAreOneTime

\* The sessions a peer was opened with are initiated ones.
LEMMA BackedAreSessions ==
    ASSUME SessionsInv, NEW p \in Party
    PROVE  /\ Backed(p) \subseteq Sessions
           /\ \A n \in Sessions : inits[n] \in Inits
           /\ \A u \in Used(p) : u.gen \in Nat
<1>1. \A n \in Sessions : inits[n] \in Inits
  BY DEF SessionsInv, SessionsShape, Sessions
<1>2. Backed(p) \subseteq Sessions
  BY DEF SessionsInv, WiresHold, OpenedHold, InboundWires, Backed
<1>3. \A n \in Sessions : inits[n].gen \in Nat
  BY <1>1 DEF Inits
<1> QED
  BY <1>1, <1>2, <1>3 DEF Used, Use

LEMMA OthersAreParties ==
    ASSUME NEW p \in Party
    PROVE  Other(p) \in Party /\ Other(p) # p
BY PartiesDiffer DEF Other, Party

\* The invariant begins to hold.
LEMMA SessionsBegin ==
    ASSUME SessionsInit
    PROVE  SessionsInv
<1> USE DEF SessionsInit
<1>1. SessionsShape
  <2>1. Idle \in FetchStates /\ [gen |-> 0, consumed |-> {}] \in Bundles
    BY DEF FetchStates, Bundles
  <2> QED
    BY <2>1 DEF SessionsShape
<1>2. \A p \in Party : Backed(p) = {} /\ Used(p) = {}
  BY DEF Backed, Used
<1>3. WiresHold /\ OpenedHold /\ ListsHold /\ PrekeysAreOneTime
  <2>1. WiresHold
    BY FS_EmptySet DEF WiresHold
  <2>2. OpenedHold /\ PrekeysAreOneTime
    BY <1>2 DEF OpenedHold, PrekeysAreOneTime
  <2>3. ListsHold
    BY LimitsAreNat DEF ListsHold, GoodList
  <2> QED
    BY <2>1, <2>2, <2>3
<1>4. BundlesHold
  <2> SUFFICES ASSUME NEW p \in Party
               PROVE  GoodBundles(bundle[p], retired[p]) /\ Covers({}, bundle[p], retired[p])
    BY <1>2 DEF BundlesHold
  <2>1. bundle[p] \in Bundles /\ retired[p] = <<>>
    BY <1>1 DEF SessionsShape
  <2> QED
    BY <2>1, LimitsAreNat DEF GoodBundles, Covers
<1> QED
  BY <1>1, <1>3, <1>4 DEF SessionsInv

----------------------------------------------------------------------------
(* Sealing. *)

\* A wire that is put on the network is a new one.
LEMMA SealingIsNew ==
    ASSUME SessionsInv, NEW p \in Party, NEW n, NEW withInit, Sealed(p, n, withInit)
    PROVE  LET w == [no |-> Cardinality(wires) + 1, from |-> p, session |-> n, init |-> withInit]
           IN  /\ wires' = wires \cup {w} /\ w \notin wires
               /\ IsFiniteSet(wires') /\ Cardinality(wires') = Cardinality(wires) + 1
               /\ Cardinality(wires) \in Nat
<1> DEFINE w == [no |-> Cardinality(wires) + 1, from |-> p, session |-> n, init |-> withInit]
<1>1. wires' = wires \cup {w}
  BY DEF Sealed
<1>2. IsFiniteSet(wires) /\ Cardinality(wires) \in Nat
  BY FS_CardinalityType DEF SessionsInv, WiresHold
<1>3. w \notin wires
  <2>1. w.no > Cardinality(wires)
    BY <1>2
  <2> HIDE DEF w
  <2> QED
    BY <2>1, <1>2 DEF SessionsInv, WiresHold, SessionsShape, Wires
<1> HIDE DEF w
<1>4. IsFiniteSet(wires') /\ Cardinality(wires') = Cardinality(wires) + 1
  BY <1>1, <1>2, <1>3, FS_AddElement
<1> QED
  BY <1>1, <1>2, <1>3, <1>4 DEF w

\* More sessions and more wires take nothing from what a peer was opened with.
LEMMA OpenedIsStable ==
    ASSUME SessionsInv, NEW p \in Party, NEW x \in Inits, opened' = opened,
           inits' = inits \/ inits' = Append(inits, x)
    PROVE  /\ Backed(p)' = Backed(p) /\ Used(p)' = Used(p)
           /\ \A n \in Sessions : n \in Sessions' /\ inits'[n] = inits[n]
<1>1. \A n \in Sessions : n \in Sessions' /\ inits'[n] = inits[n]
  BY DEF SessionsInv, SessionsShape, Sessions
<1>2. \A w \in opened[p] : w.session \in Sessions
  BY DEF SessionsInv, WiresHold, OpenedHold, InboundWires
<1>3. Backed(p)' = Backed(p)
  BY <1>1, <1>2 DEF Backed
<1>4. Backed(p) \subseteq Sessions
  BY BackedAreSessions
<1> QED
  BY <1>1, <1>3, <1>4 DEF Used

\* What a peer has opened, keeps and has consumed stays as it is while others only
\* initiate and seal.
LEMMA RestStays ==
    ASSUME SessionsInv, NEW x \in Inits, opened' = opened, wires \subseteq wires',
           inits' = inits \/ inits' = Append(inits, x)
    PROVE  /\ OpenedHold' /\ PrekeysAreOneTime'
           /\ \A p \in Party : sessions'[p] = sessions[p] => GoodList(p, sessions[p])'
           /\ bundle' = bundle /\ retired' = retired => BundlesHold'
<1>1. \A p \in Party : Backed(p)' = Backed(p) /\ Used(p)' = Used(p) /\ Backed(p) \subseteq Sessions
  BY OpenedIsStable, BackedAreSessions
<1>2. \A n \in Sessions : n \in Sessions' /\ inits'[n] = inits[n]
  <2>1. Initiator \in Party
    BY DEF Party
  <2> QED
    BY <2>1, OpenedIsStable
<1>3. OpenedHold'
  BY DEF SessionsInv, OpenedHold, InboundWires
<1>4. PrekeysAreOneTime'
  BY <1>1, <1>2 DEF SessionsInv, PrekeysAreOneTime
<1>5. ASSUME NEW p \in Party, sessions'[p] = sessions[p] PROVE GoodList(p, sessions[p])'
  <2>1. GoodList(p, sessions[p])
    BY DEF SessionsInv, ListsHold
  <2>2. ASSUME NEW e, NEW count, GoodEntry(p, e, count) PROVE GoodEntry(p, e, count)'
    BY <1>1, <1>2, <2>2 DEF GoodEntry
  <2> QED
    BY <1>5, <2>1, <2>2 DEF GoodList
<1>6. ASSUME bundle' = bundle, retired' = retired PROVE BundlesHold'
  BY <1>1, <1>6 DEF SessionsInv, BundlesHold
<1> QED
  BY <1>3, <1>4, <1>5, <1>6

LEMMA EncryptKeeps ==
    ASSUME SessionsInv, NEW p \in Party, Encrypt(p)
    PROVE  SessionsInv'
<1> DEFINE e == Current(p)
           w == [no |-> Cardinality(wires) + 1, from |-> p, session |-> e.id, init |-> e.pending]
<1>1. /\ wires' = wires \cup {w} /\ IsFiniteSet(wires')
      /\ Cardinality(wires') = Cardinality(wires) + 1 /\ Cardinality(wires) \in Nat
  <2>1. Sealed(p, e.id, e.pending)
    BY DEF Encrypt
  <2> QED
    BY <2>1, SealingIsNew
<1>2. e \in Entries /\ GoodEntry(p, e, Len(sessions[p]))
  <2>1. sessions[p] \in Seq(Entries) /\ sessions[p] # <<>>
    BY DEF Encrypt, SessionsInv, SessionsShape
  <2>2. 1 \in 1..Len(sessions[p])
    BY <2>1
  <2> QED
    BY <2>1, <2>2 DEF Current, SessionsInv, ListsHold, GoodList
<1>3. w \in Wires
  BY <1>1, <1>2 DEF Wires, Entries
<1>4. SessionsShape'
  <2>1. wires' \subseteq Wires
    BY <1>1, <1>3 DEF SessionsInv, SessionsShape
  <2> QED
    BY <2>1 DEF SessionsInv, SessionsShape, Encrypt
<1>5. WiresHold'
  <2>1. e.id \in Sessions /\ (e.pending => inits[e.id].from = p)
    BY <1>2 DEF GoodEntry
  <2>2. \A v \in wires : v.no \in Nat
    BY DEF SessionsInv, SessionsShape, Wires
  <2> QED
    BY <1>1, <2>1, <2>2 DEF SessionsInv, WiresHold, Encrypt, Sessions
<1>6. /\ OpenedHold' /\ PrekeysAreOneTime' /\ BundlesHold'
      /\ \A q \in Party : GoodList(q, sessions[q])'
  <2>1. PICK x : x \in Inits
    <3>1. Slots # {}
      BY SlotsAreNat, LimitsAreNat, FS_EmptySet
    <3>2. PICK s : s \in Slots
      BY <3>1
    <3>3. [from |-> p, gen |-> 0, opk |-> s] \in Inits
      BY <3>2 DEF Inits
    <3> QED
      BY <3>3
  <2>2. opened' = opened /\ wires \subseteq wires' /\ inits' = inits /\ bundle' = bundle
        /\ retired' = retired /\ sessions' = sessions
    BY <1>1 DEF Encrypt
  <2> QED
    BY <2>1, <2>2, RestStays
<1> QED
  BY <1>4, <1>5, <1>6 DEF SessionsInv, ListsHold

\* A session just initiated has not been opened with: nobody could know it.
LEMMA FinishEncryptKeeps ==
    ASSUME SessionsInv, NEW p \in Party, NEW f \in Fetches, FinishEncrypt(p, f)
    PROVE  SessionsInv'
<1> DEFINE b == fetching[p][f]
           n == Len(inits) + 1
           x == [from |-> p, gen |-> b.gen, opk |-> Pick(b.open)]
           w == [no |-> Cardinality(wires) + 1, from |-> p, session |-> n, init |-> TRUE]
           e == Entry(n, TRUE, {})
<1>0. inits \in Seq(Inits) /\ Len(inits) \in Nat
  BY DEF SessionsInv, SessionsShape
<1>1. x \in Inits
  <2>1. b \in FetchStates /\ b.stage = "served"
    BY DEF FinishEncrypt, SessionsInv, SessionsShape
  <2>2. b \in [stage : {"served"}, gen : Nat, open : (SUBSET Slots) \ {{}}]
    BY <2>1 DEF FetchStates, Idle, Asked
  <2> HIDE DEF b
  <2>3. b.gen \in Nat /\ b.open \in SUBSET Slots /\ b.open # {}
    BY <2>2
  <2>4. Pick(b.open) \in Slots
    BY <2>3, PickIsIn
  <2> QED
    BY <2>3, <2>4 DEF Inits
<1>2. /\ wires' = wires \cup {w} /\ w \notin wires /\ IsFiniteSet(wires')
      /\ Cardinality(wires') = Cardinality(wires) + 1 /\ Cardinality(wires) \in Nat
  <2>1. Sealed(p, n, TRUE)
    BY DEF FinishEncrypt
  <2> QED
    BY <2>1, SealingIsNew
<1>3. /\ inits' = Append(inits, x) /\ opened' = opened /\ bundle' = bundle /\ retired' = retired
      /\ sessions' = [sessions EXCEPT ![p] = <<e>>] /\ plaintexts' = plaintexts
      /\ fetching' = [fetching EXCEPT ![p][f] = Idle]
  BY DEF FinishEncrypt
<1>4. w \in Wires /\ e \in Entries /\ e.id = n /\ e.spent = {} /\ e.pending = TRUE
  BY <1>0, <1>2 DEF Wires, Entries, Entry
<1> HIDE DEF b, x, e
<1>5. /\ OpenedHold' /\ PrekeysAreOneTime' /\ BundlesHold'
      /\ \A q \in Party : sessions'[q] = sessions[q] => GoodList(q, sessions[q])'
  BY <1>1, <1>2, <1>3, RestStays
<1>6. SessionsShape'
  <2>1. wires' \subseteq Wires
    BY <1>2, <1>4 DEF SessionsInv, SessionsShape
  <2>2. inits' \in Seq(Inits)
    BY <1>0, <1>1, <1>3
  <2>3. <<e>> \in Seq(Entries)
    BY <1>4
  <2>4. sessions' \in [Party -> Seq(Entries)]
    BY <1>3, <2>3 DEF SessionsInv, SessionsShape
  <2>5. fetching' \in [Party -> [Fetches -> FetchStates]]
    BY <1>3 DEF SessionsInv, SessionsShape, FetchStates
  <2> QED
    BY <1>3, <2>1, <2>2, <2>4, <2>5 DEF SessionsInv, SessionsShape
<1>7. n \in Sessions' /\ n \notin Sessions /\ inits'[n] = x /\ x.from = p
      /\ \A k \in Sessions : k \in Sessions' /\ inits'[k] = inits[k]
  <2>1. x.from = p
    BY DEF x
  <2> QED
    BY <1>0, <1>1, <1>3, <2>1 DEF Sessions
<1>8. WiresHold'
  <2>1. \A v \in wires : v.no \in Nat
    BY DEF SessionsInv, SessionsShape, Wires
  <2>2. ASSUME NEW v \in wires'
        PROVE  /\ v.session \in Sessions' /\ v.no <= Cardinality(wires')
               /\ v.init => inits'[v.session].from = v.from
    <3>1. CASE v \in wires
      BY <1>2, <1>7, <2>1, <3>1 DEF SessionsInv, WiresHold
    <3>2. CASE v = w
      BY <1>2, <1>7, <3>2
    <3> QED
      BY <1>2, <2>2, <3>1, <3>2
  <2> QED
    BY <1>2, <2>2 DEF WiresHold
<1>9. ListsHold'
  <2> SUFFICES ASSUME NEW q \in Party PROVE GoodList(q, sessions[q])'
    BY DEF ListsHold
  <2>1. CASE q # p
    BY <1>3, <1>5, <2>1 DEF SessionsInv, SessionsShape
  <2>2. CASE q = p
    <3>1. sessions'[q] = <<e>>
      BY <1>3, <2>2 DEF SessionsInv, SessionsShape
    <3>2. \A v \in opened[p] : v.session # n
      BY <1>7 DEF SessionsInv, OpenedHold, InboundWires, WiresHold
    <3>3. PICK c : c = e
      OBVIOUS
    <3>4. GoodEntry(p, c, 1)'
      BY <1>3, <1>4, <1>7, <3>2, <3>3 DEF GoodEntry
    <3>5. Len(sessions'[q]) = 1 /\ \A i \in 1..1 : sessions'[q][i] = c
      BY <3>1, <3>3
    <3> QED
      BY <2>2, <3>4, <3>5, LimitsAreNat DEF GoodList
  <2> QED
    BY <2>1, <2>2
<1> QED
  BY <1>5, <1>6, <1>8, <1>9 DEF SessionsInv

----------------------------------------------------------------------------
(* Opening. *)

\* A first contact that still fits a retained bundle has not been answered before.
LEMMA FirstContactIsNew ==
    ASSUME SessionsInv, NEW p \in Party, NEW w \in InboundWires(p), w.init,
           Candidates(p, inits[w.session]) # {}
    PROVE  /\ w.session \in Sessions /\ inits[w.session].from # p
           /\ Use(inits[w.session]) \notin Used(p)
           /\ w.session \notin Backed(p)
           /\ \A v \in opened[p] : v.session # w.session
           /\ \A i \in 1..Len(sessions[p]) : sessions[p][i].id # w.session
<1> DEFINE init == inits[w.session]
<1>1. w.session \in Sessions /\ init.from # p
  BY DEF InboundWires, SessionsInv, WiresHold
<1>2. Use(init) \notin Used(p)
  <2> SUFFICES ASSUME Use(init) \in Used(p) PROVE FALSE
    OBVIOUS
  <2>1. \A x \in Kept(bundle[p], retired[p]) : x.gen = init.gen => init.opk \in x.consumed
    BY DEF SessionsInv, BundlesHold, Covers, Use
  <2>2. \A x \in Kept(bundle[p], retired[p]) : ~BuiltAgainst(x, init)
    BY <2>1 DEF BuiltAgainst
  <2> HIDE DEF init
  <2>3. Candidates(p, init) = {}
    BY <2>2 DEF Candidates, Kept
  <2> QED
    BY <2>3 DEF init
<1>3. w.session \notin Backed(p)
  BY <1>2 DEF Used
<1>4. \A v \in opened[p] : v.session # w.session
  BY <1>1, <1>3 DEF Backed
<1>5. \A i \in 1..Len(sessions[p]) : sessions[p][i].id # w.session
  BY <1>1, <1>3 DEF SessionsInv, ListsHold, GoodList, GoodEntry
<1> QED
  BY <1>1, <1>2, <1>3, <1>4, <1>5

\* The bundle a first contact is opened against is the only one of its number.
LEMMA OneCandidate ==
    ASSUME NEW b, NEW old, GoodBundles(b, old), NEW S,
           NEW init \in Inits,
           \A i \in S : \/ i = 0 /\ BuiltAgainst(b, init)
                        \/ i \in 1..Len(old) /\ BuiltAgainst(old[i], init),
           S # {}
    PROVE  (CHOOSE i \in S : \A j \in S : i <= j) \in S
<1>1. b.gen \in Nat /\ \A i \in 1..Len(old) : old[i].gen \in Nat /\ old[i].gen < b.gen
  <2>1. b \in Bundles /\ \A i \in 1..Len(old) : old[i] \in Bundles
    BY DEF GoodBundles
  <2> QED
    BY <2>1 DEF Bundles, GoodBundles
<1>2. S \subseteq Nat
  <2>1. Len(old) \in Nat
    BY DEF GoodBundles
  <2> QED
    BY <2>1
<1>3. \A i, j \in S : i = j
  <2> SUFFICES ASSUME NEW i \in S, NEW j \in S, i < j PROVE FALSE
    BY <1>2
  <2>1. j \in 1..Len(old) /\ old[j].gen = init.gen
    BY <1>2 DEF BuiltAgainst
  <2>2. CASE i = 0
    <3>1. b.gen = init.gen
      BY <2>2 DEF BuiltAgainst
    <3> QED
      BY <1>1, <2>1, <3>1
  <2>3. CASE i # 0
    <3>1. i \in 1..Len(old) /\ old[i].gen = init.gen
      BY <2>3 DEF BuiltAgainst
    <3>2. old[j].gen < old[i].gen
      BY <2>1, <3>1 DEF GoodBundles
    <3> QED
      BY <1>1, <2>1, <3>1, <3>2
  <2> QED
    BY <2>2, <2>3
<1>4. \E i \in S : \A j \in S : i <= j
  <2>1. PICK i : i \in S
    OBVIOUS
  <2>2. i \in Nat /\ \A j \in S : j = i
    BY <1>2, <1>3, <2>1
  <2>3. \A j \in S : i <= j
    BY <2>2
  <2> QED
    BY <2>1, <2>3
<1> QED
  BY <1>4

\* Opening a first contact covers its use, whatever is rotated in the same step.
LEMMA FirstContactIsCovered ==
    ASSUME SessionsInv, NEW p \in Party, NEW w \in InboundWires(p), NEW expired \in BOOLEAN,
           Bootstrap(p, w, expired)
    PROVE  /\ GoodBundles(bundle'[p], retired'[p])
           /\ Covers(Used(p) \cup {Use(inits[w.session])}, bundle'[p], retired'[p])
<1> DEFINE init == inits[w.session]
           at == CHOOSE i \in Candidates(p, init) : \A j \in Candidates(p, init) : i <= j
           current == IF at = 0 THEN Consumed(bundle[p], init.opk) ELSE bundle[p]
           old == IF at = 0 THEN retired[p]
                  ELSE [retired[p] EXCEPT ![at] = Consumed(@, init.opk)]
           uses == Used(p) \cup {Use(init)}
<1>1. /\ Candidates(p, init) # {}
      /\ bundle' = [bundle EXCEPT ![p] = NextBundle(current, expired)]
      /\ retired' = [retired EXCEPT ![p] = NextRetired(current, old, expired)]
  BY DEF Bootstrap
<1>2. bundle'[p] = NextBundle(current, expired) /\ retired'[p] = NextRetired(current, old, expired)
  <2> HIDE DEF current, old
  <2> QED
    BY <1>1 DEF SessionsInv, SessionsShape
<1>3. init \in Inits /\ init.opk \in Slots /\ init.gen \in Nat
  <2>1. w.session \in Sessions
    BY DEF InboundWires, SessionsInv, WiresHold
  <2>2. init \in Inits
    BY <2>1, BackedAreSessions
  <2> QED
    BY <2>2 DEF Inits
<1>4. GoodBundles(bundle[p], retired[p]) /\ Covers(Used(p), bundle[p], retired[p])
  BY DEF SessionsInv, BundlesHold
<1> HIDE DEF init
<1>5. at \in Candidates(p, init)
  <2> DEFINE S == Candidates(p, init)
  <2>1. \A i \in S : \/ i = 0 /\ BuiltAgainst(bundle[p], init)
                     \/ i \in 1..Len(retired[p]) /\ BuiltAgainst(retired[p][i], init)
    BY DEF Candidates
  <2>2. S # {}
    BY <1>1
  <2> HIDE DEF S
  <2>3. (CHOOSE i \in S : \A j \in S : i <= j) \in S
    BY <1>3, <1>4, <2>1, <2>2, OneCandidate
  <2> QED
    BY <2>3 DEF S
<1> HIDE DEF at
<1>6. GoodBundles(current, old) /\ Covers(uses, current, old)
  <2>1. CASE at = 0
    <3>1. ~(0 \in 1..Len(retired[p]))
      BY DEF SessionsInv, SessionsShape
    <3>2. bundle[p].gen = init.gen
      BY <1>5, <2>1, <3>1 DEF Candidates, BuiltAgainst
    <3> QED
      BY <1>3, <1>4, <2>1, <3>2, TakingFromCurrent DEF Use
  <2>2. CASE at # 0
    <3>1. at \in 1..Len(retired[p]) /\ retired[p][at].gen = init.gen
      BY <1>5, <2>2 DEF Candidates, BuiltAgainst
    <3> QED
      BY <1>3, <1>4, <2>2, <3>1, TakingFromRetired DEF Use
  <2> QED
    BY <2>1, <2>2
<1>7. \A u \in uses : u.gen \in Nat
  BY <1>3, BackedAreSessions DEF Use
<1> HIDE DEF current, old, uses
<1>8. GoodBundles(bundle'[p], retired'[p]) /\ Covers(uses, bundle'[p], retired'[p])
  BY <1>2, <1>6, <1>7, TurningOver
<1> QED
  BY <1>8 DEF uses, init

\* Without drops one entry of a list.
LEMMA WithoutDrops ==
    ASSUME NEW list \in Seq(Entries), NEW i \in 1..Len(list), NEW e \in Entries
    PROVE  LET new == <<e>> \o Without(list, i)
           IN  /\ new \in Seq(Entries) /\ Len(new) = Len(list) /\ new[1] = e
               /\ \A j \in 2..Len(new) :
                    LET k == IF j <= i THEN j - 1 ELSE j
                    IN  k \in 1..Len(list) /\ k # i /\ new[j] = list[k]
<1> DEFINE front == SubSeq(list, 1, i - 1)
           back == SubSeq(list, i + 1, Len(list))
<1>1. front \in Seq(Entries) /\ Len(front) = i - 1 /\ \A j \in 1..(i - 1) : front[j] = list[j]
  OBVIOUS
<1>2. /\ back \in Seq(Entries) /\ Len(back) = Len(list) - i
      /\ \A j \in 1..(Len(list) - i) : back[j] = list[i + j]
  OBVIOUS
<1> HIDE DEF front, back
<1>3. /\ front \o back \in Seq(Entries) /\ Len(front \o back) = Len(list) - 1
      /\ \A j \in 1..(Len(list) - 1) :
           (front \o back)[j] = IF j < i THEN list[j] ELSE list[j + 1]
  <2>1. front \o back \in Seq(Entries) /\ Len(front \o back) = Len(list) - 1
    BY <1>1, <1>2
  <2>2. ASSUME NEW j \in 1..(Len(list) - 1), j < i PROVE (front \o back)[j] = list[j]
    BY <1>1, <1>2, <2>2
  <2>3. ASSUME NEW j \in 1..(Len(list) - 1), ~(j < i) PROVE (front \o back)[j] = list[j + 1]
    <3>1. (front \o back)[j] = back[j - (i - 1)] /\ j - (i - 1) \in 1..(Len(list) - i)
      BY <1>1, <1>2, <2>3
    <3> QED
      BY <1>2, <3>1
  <2> QED
    BY <2>1, <2>2, <2>3
<1> DEFINE rest == front \o back
<1> HIDE DEF rest
<1>4. rest = Without(list, i) /\ rest \in Seq(Entries) /\ Len(rest) = Len(list) - 1
      /\ \A j \in 1..(Len(list) - 1) : rest[j] = IF j < i THEN list[j] ELSE list[j + 1]
  BY <1>3 DEF rest, Without, front, back
<1> DEFINE new == <<e>> \o rest
<1>5. /\ new \in Seq(Entries) /\ Len(new) = Len(list) /\ new[1] = e
      /\ \A j \in 2..Len(new) : new[j] = rest[j - 1] /\ j - 1 \in 1..(Len(list) - 1)
  BY <1>4
<1> HIDE DEF new
<1>6. ASSUME NEW j \in 2..Len(new)
      PROVE  LET k == IF j <= i THEN j - 1 ELSE j
             IN  k \in 1..Len(list) /\ k # i /\ new[j] = list[k]
  BY <1>4, <1>5
<1> QED
  BY <1>4, <1>5, <1>6 DEF new

\* Whoever opens a wire of a session keeps what the invariant says of everything the
\* opening leaves alone.
LEMMA OpeningElsewhere ==
    ASSUME SessionsInv, NEW p \in Party, NEW w \in InboundWires(p),
           Accept(p, w), UNCHANGED <<inits, wires>>
    PROVE  /\ WiresHold' /\ OpenedHold'
           /\ opened'[p] = opened[p] \cup {w}
           /\ opened' \in [Party -> SUBSET Wires] /\ plaintexts' \in [Party -> Nat]
           /\ Sessions' = Sessions
           /\ \A q \in Party : q # p => Backed(q)' = Backed(q) /\ Used(q)' = Used(q)
           /\ \A q \in Party : q # p /\ sessions'[q] = sessions[q] => GoodList(q, sessions[q])'
           /\ Backed(p)' = Backed(p)
                           \cup (IF inits[w.session].from # p THEN {w.session} ELSE {})
<1>0. w \in wires /\ w \in Wires /\ w.from # p
  BY DEF InboundWires, SessionsInv, SessionsShape
<1>1. WiresHold' /\ Sessions' = Sessions
  BY DEF SessionsInv, WiresHold, Sessions
<1>2. /\ opened'[p] = opened[p] \cup {w} /\ \A q \in Party : q # p => opened'[q] = opened[q]
      /\ opened' \in [Party -> SUBSET Wires] /\ plaintexts' \in [Party -> Nat]
  BY <1>0 DEF Accept, SessionsInv, SessionsShape
<1>3. OpenedHold'
  BY <1>2 DEF SessionsInv, OpenedHold, InboundWires
<1>4. \A q \in Party : q # p => Backed(q)' = Backed(q) /\ Used(q)' = Used(q)
  BY <1>2 DEF Backed, Used
<1>5. \A q \in Party : q # p /\ sessions'[q] = sessions[q] => GoodList(q, sessions[q])'
  <2> SUFFICES ASSUME NEW q \in Party, q # p, sessions'[q] = sessions[q]
               PROVE  GoodList(q, sessions[q])'
    OBVIOUS
  <2>1. GoodList(q, sessions[q])
    BY DEF SessionsInv, ListsHold
  <2>2. ASSUME NEW e, NEW count, GoodEntry(q, e, count) PROVE GoodEntry(q, e, count)'
    BY <1>1, <1>2, <1>4, <2>2 DEF GoodEntry
  <2> QED
    BY <2>1, <2>2 DEF GoodList
<1>6. Backed(p)' = Backed(p) \cup (IF inits[w.session].from # p THEN {w.session} ELSE {})
  BY <1>2 DEF Backed
<1> QED
  BY <1>1, <1>2, <1>3, <1>4, <1>5, <1>6

LEMMA DecryptKeeps ==
    ASSUME SessionsInv, NEW p \in Party, NEW w \in InboundWires(p), Decrypt(p, w)
    PROVE  SessionsInv' /\ w \notin opened[p]
<1>1. PICK i \in OpenedBy(p, w) :
         LET e == Entry(w.session, FALSE, sessions[p][i].spent \cup {w})
         IN  sessions' = [sessions EXCEPT ![p] = <<e>> \o Without(@, i)]
  BY DEF Decrypt
<1>2. PICK list : list = sessions[p]
  OBVIOUS
<1>3. /\ list \in Seq(Entries) /\ i \in 1..Len(list) /\ GoodList(p, list)
      /\ list[i].id = w.session /\ w \notin list[i].spent
  BY <1>2 DEF OpenedBy, SessionsInv, SessionsShape, ListsHold
<1>4. PICK e : e = Entry(w.session, FALSE, list[i].spent \cup {w})
  OBVIOUS
<1>5. w \in wires /\ w \in Wires /\ list[i] \in Entries
  BY <1>3 DEF InboundWires, SessionsInv, SessionsShape
<1>6. /\ e \in Entries /\ e.id = w.session /\ e.pending = FALSE
      /\ e.spent = list[i].spent \cup {w}
  BY <1>4, <1>5 DEF Entry, Entries, Wires
<1>7. PICK new : new = <<e>> \o Without(list, i)
  OBVIOUS
<1>8. sessions'[p] = new /\ \A q \in Party : q # p => sessions'[q] = sessions[q]
  BY <1>1, <1>2, <1>4, <1>7 DEF SessionsInv, SessionsShape
<1>9. /\ new \in Seq(Entries) /\ Len(new) = Len(list) /\ new[1] = e
      /\ \A j \in 2..Len(new) :
           LET k == IF j <= i THEN j - 1 ELSE j
           IN  k \in 1..Len(list) /\ k # i /\ new[j] = list[k]
  BY <1>3, <1>6, <1>7, WithoutDrops
<1>10. GoodEntry(p, list[i], Len(list))
  BY <1>3 DEF GoodList
<1>11. UNCHANGED <<inits, wires, bundle, retired, fetching>> /\ Accept(p, w)
  BY DEF Decrypt
<1>12. /\ WiresHold' /\ OpenedHold' /\ opened'[p] = opened[p] \cup {w}
       /\ opened' \in [Party -> SUBSET Wires] /\ plaintexts' \in [Party -> Nat]
       /\ Sessions' = Sessions
       /\ \A q \in Party : q # p => Backed(q)' = Backed(q) /\ Used(q)' = Used(q)
       /\ \A q \in Party : q # p => GoodList(q, sessions[q])'
       /\ Backed(p)' = Backed(p) \cup (IF inits[w.session].from # p THEN {w.session} ELSE {})
  BY <1>8, <1>11, OpeningElsewhere
<1>13. Backed(p)' = Backed(p)
  BY <1>3, <1>10, <1>12 DEF GoodEntry
<1>14. Used(p)' = Used(p)
  BY <1>11, <1>13 DEF Used
<1>15. SessionsShape'
  <2>1. sessions' \in [Party -> Seq(Entries)]
    BY <1>1, <1>2, <1>4, <1>7, <1>9 DEF SessionsInv, SessionsShape
  <2> QED
    BY <2>1, <1>11, <1>12 DEF SessionsInv, SessionsShape
<1>16. GoodList(p, new)'
  <2>1. GoodEntry(p, e, Len(new))'
    BY <1>3, <1>5, <1>6, <1>10, <1>11, <1>12, <1>13 DEF GoodEntry
  <2>2. ASSUME NEW k \in 1..Len(list), k # i PROVE GoodEntry(p, list[k], Len(list))' /\ list[k].id # e.id
    <3>1. list[k].id # w.session
      BY <1>3, <2>2 DEF GoodList
    <3>2. GoodEntry(p, list[k], Len(list))
      BY <1>3 DEF GoodList
    <3> QED
      BY <1>6, <1>11, <1>12, <1>13, <3>1, <3>2 DEF GoodEntry
  <2>3. ASSUME NEW j \in 1..Len(new) PROVE GoodEntry(p, new[j], Len(new))'
    <3>1. CASE j = 1
      BY <1>9, <2>1, <3>1
    <3>2. CASE j # 1
      <4>1. PICK k \in 1..Len(list) : k # i /\ new[j] = list[k]
        BY <1>9, <3>2
      <4> QED
        BY <1>9, <2>2, <4>1
    <3> QED
      BY <3>1, <3>2
  <2>4. ASSUME NEW j \in 1..Len(new), NEW l \in 1..Len(new), j < l PROVE new[j].id # new[l].id
    <3> DEFINE kl == IF l <= i THEN l - 1 ELSE l
               kj == IF j <= i THEN j - 1 ELSE j
    <3>1. kl \in 1..Len(list) /\ kl # i /\ new[l] = list[kl]
      BY <1>9, <2>4
    <3>2. CASE j = 1
      BY <1>9, <2>2, <3>1, <3>2
    <3>3. CASE j # 1
      <4>1. kj \in 1..Len(list) /\ new[j] = list[kj]
        BY <1>9, <3>3
      <4>2. kj # kl
        BY <1>3, <2>4, <3>1
      <4> HIDE DEF kj, kl
      <4> QED
        BY <1>3, <3>1, <4>1, <4>2 DEF GoodList
    <3> QED
      BY <3>2, <3>3
  <2>5. \A j, l \in 1..Len(new) : new[j].id = new[l].id => j = l
    <3> SUFFICES ASSUME NEW j \in 1..Len(new), NEW l \in 1..Len(new), j # l
                 PROVE  new[j].id # new[l].id
      OBVIOUS
    <3>1. j < l \/ l < j
      BY <1>9
    <3> QED
      BY <2>4, <3>1
  <2>6. Len(new) <= MaxSessions
    BY <1>3, <1>9 DEF GoodList
  <2> QED
    BY <2>3, <2>5, <2>6 DEF GoodList
<1>17. ListsHold'
  BY <1>8, <1>12, <1>16 DEF ListsHold
<1>18. BundlesHold'
  BY <1>11, <1>12, <1>14 DEF SessionsInv, BundlesHold
<1>19. PrekeysAreOneTime'
  BY <1>11, <1>12, <1>13 DEF SessionsInv, PrekeysAreOneTime
<1>20. w \notin opened[p]
  BY <1>3, <1>10 DEF GoodEntry
<1> QED
  BY <1>12, <1>15, <1>17, <1>18, <1>19, <1>20 DEF SessionsInv

\* The list after a first contact: the new session, and what it displaces archived.
IsArchived(a, e) == a.id = e.id /\ a.spent = e.spent /\ a.pending = FALSE
LEMMA BoundedHolds ==
    ASSUME NEW list \in Seq(Entries), NEW e \in Entries
    PROVE  LET new == Bounded(<<e>> \o Archived(list))
           IN  /\ new \in Seq(Entries) /\ Len(new) \in 1..MaxSessions /\ new[1] = e
               /\ \A j \in 2..Len(new) : /\ j - 1 \in 1..Len(list)
                                         /\ IsArchived(new[j], list[j - 1])
<1> DEFINE old == Archived(list)
           all == <<e>> \o old
           n == IF Len(all) < MaxSessions THEN Len(all) ELSE MaxSessions
<1>1. /\ old \in Seq(Entries) /\ Len(old) = Len(list)
      /\ \A i \in 1..Len(list) : IsArchived(old[i], list[i])
  <2>1. \A i \in 1..Len(list) : /\ [list[i] EXCEPT !.pending = FALSE] \in Entries
                                /\ IsArchived([list[i] EXCEPT !.pending = FALSE], list[i])
    <3>1. \A i \in 1..Len(list) : list[i] \in Entries
      OBVIOUS
    <3> QED
      BY <3>1 DEF Entries, IsArchived
  <2> QED
    BY <2>1 DEF Archived
<1> HIDE DEF old
<1>2. /\ all \in Seq(Entries) /\ Len(all) = Len(list) + 1 /\ all[1] = e
      /\ \A j \in 2..Len(all) : j - 1 \in 1..Len(list) /\ all[j] = old[j - 1]
  BY <1>1
<1> HIDE DEF all
<1>3. n \in 1..Len(all) /\ n \in 1..MaxSessions
  BY <1>2, LimitsAreNat
<1>4. Bounded(all) = SubSeq(all, 1, n)
  BY DEF Bounded
<1> HIDE DEF n
<1>5. /\ Bounded(all) \in Seq(Entries) /\ Len(Bounded(all)) = n
      /\ \A j \in 1..n : Bounded(all)[j] = all[j]
  BY <1>2, <1>3, <1>4
<1>6. \A j \in 2..n : j \in 2..Len(all)
  BY <1>2, <1>3
<1> HIDE DEF old
<1> DEFINE new == Bounded(all)
<1>7. /\ new \in Seq(Entries) /\ Len(new) \in 1..MaxSessions /\ new[1] = e
      /\ \A j \in 2..Len(new) : /\ j - 1 \in 1..Len(list)
                                /\ IsArchived(new[j], list[j - 1])
  <2>1. new \in Seq(Entries) /\ Len(new) = n /\ new[1] = e
    BY <1>2, <1>3, <1>5
  <2>2. ASSUME NEW j \in 2..n PROVE j - 1 \in 1..Len(list) /\ IsArchived(new[j], list[j - 1])
    <3>1. j \in 2..Len(all) /\ j \in 1..n
      BY <1>3, <1>6
    <3>2. j - 1 \in 1..Len(list) /\ all[j] = old[j - 1]
      BY <1>2, <3>1
    <3>3. new[j] = all[j]
      BY <1>5, <3>1
    <3> QED
      BY <1>1, <3>2, <3>3
  <2> QED
    BY <1>3, <2>1, <2>2
<1> QED
  BY <1>7 DEF all, old

LEMMA BootstrapKeeps ==
    ASSUME SessionsInv, NEW p \in Party, NEW w \in InboundWires(p), NEW expired \in BOOLEAN,
           Bootstrap(p, w, expired)
    PROVE  SessionsInv' /\ w \notin opened[p]
<1>1. /\ w.session \in Sessions /\ inits[w.session].from # p
      /\ Use(inits[w.session]) \notin Used(p) /\ w.session \notin Backed(p)
      /\ \A v \in opened[p] : v.session # w.session
      /\ \A i \in 1..Len(sessions[p]) : sessions[p][i].id # w.session
  BY FirstContactIsNew DEF Bootstrap
<1>2. PICK list : list = sessions[p]
  OBVIOUS
<1>3. PICK e : e = Entry(w.session, FALSE, {w})
  OBVIOUS
<1>4. w \in wires /\ w \in Wires /\ list \in Seq(Entries) /\ GoodList(p, list)
  BY <1>2 DEF InboundWires, SessionsInv, SessionsShape, ListsHold
<1>5. e \in Entries /\ e.id = w.session /\ e.pending = FALSE /\ e.spent = {w}
  BY <1>3, <1>4 DEF Entry, Entries, Wires
<1>6. PICK new : new = Bounded(<<e>> \o Archived(list))
  OBVIOUS
<1>7. sessions' = [sessions EXCEPT ![p] = new]
  BY <1>2, <1>3, <1>6 DEF Bootstrap
<1>8. /\ new \in Seq(Entries) /\ Len(new) \in 1..MaxSessions /\ new[1] = e
      /\ \A j \in 2..Len(new) : /\ j - 1 \in 1..Len(list)
                                /\ IsArchived(new[j], list[j - 1])
  BY <1>4, <1>5, <1>6, BoundedHolds
<1>9. sessions'[p] = new /\ \A q \in Party : q # p => sessions'[q] = sessions[q]
  BY <1>7 DEF SessionsInv, SessionsShape
<1>10. UNCHANGED <<inits, wires, fetching>> /\ Accept(p, w)
  BY DEF Bootstrap
<1>11. /\ WiresHold' /\ OpenedHold' /\ opened'[p] = opened[p] \cup {w}
       /\ opened' \in [Party -> SUBSET Wires] /\ plaintexts' \in [Party -> Nat]
       /\ Sessions' = Sessions
       /\ \A q \in Party : q # p => Backed(q)' = Backed(q) /\ Used(q)' = Used(q)
       /\ \A q \in Party : q # p => GoodList(q, sessions[q])'
       /\ Backed(p)' = Backed(p) \cup (IF inits[w.session].from # p THEN {w.session} ELSE {})
  BY <1>9, <1>10, OpeningElsewhere
<1>12. Backed(p)' = Backed(p) \cup {w.session}
  BY <1>1, <1>11
<1>13. Used(p)' = Used(p) \cup {Use(inits[w.session])}
  BY <1>10, <1>12 DEF Used
<1>14. GoodBundles(bundle'[p], retired'[p]) /\ Covers(Used(p)', bundle'[p], retired'[p])
  BY <1>13, FirstContactIsCovered
<1>15. \A q \in Party : q # p => bundle'[q] = bundle[q] /\ retired'[q] = retired[q]
  BY DEF Bootstrap, SessionsInv, SessionsShape
<1>16. BundlesHold'
  BY <1>11, <1>14, <1>15 DEF SessionsInv, BundlesHold
<1>17. SessionsShape'
  <2>1. sessions' \in [Party -> Seq(Entries)]
    BY <1>7, <1>8 DEF SessionsInv, SessionsShape
  <2>2. bundle'[p] \in Bundles /\ retired'[p] \in Seq(Bundles)
    BY <1>14 DEF GoodBundles
  <2>3. DOMAIN bundle' = Party /\ bundle' = [q \in Party |-> bundle'[q]]
        /\ DOMAIN retired' = Party /\ retired' = [q \in Party |-> retired'[q]]
    <3>1. PICK nb, no : /\ bundle' = [bundle EXCEPT ![p] = nb]
                        /\ retired' = [retired EXCEPT ![p] = no]
      BY DEF Bootstrap
    <3> QED
      BY <3>1 DEF SessionsInv, SessionsShape
  <2>4. \A q \in Party : bundle'[q] \in Bundles /\ retired'[q] \in Seq(Bundles)
    BY <1>15, <2>2 DEF SessionsInv, SessionsShape
  <2>5. bundle' \in [Party -> Bundles] /\ retired' \in [Party -> Seq(Bundles)]
    BY <2>3, <2>4
  <2> QED
    BY <2>1, <2>5, <1>10, <1>11 DEF SessionsInv, SessionsShape
<1>18. GoodList(p, new)'
  <2>1. GoodEntry(p, e, Len(new))'
    BY <1>1, <1>4, <1>5, <1>10, <1>11, <1>12 DEF GoodEntry
  <2>2. ASSUME NEW j \in 2..Len(new)
        PROVE  GoodEntry(p, new[j], Len(new))' /\ new[j].id = list[j - 1].id /\ new[j].id # e.id
    <3>1. j - 1 \in 1..Len(list) /\ IsArchived(new[j], list[j - 1])
      BY <1>8
    <3>2. list[j - 1] \in Entries /\ GoodEntry(p, list[j - 1], Len(list))
      BY <1>4, <3>1 DEF GoodList
    <3>3. /\ new[j].id = list[j - 1].id /\ new[j].spent = list[j - 1].spent
          /\ new[j].pending = FALSE
      BY <3>1 DEF IsArchived
    <3>4. list[j - 1].id # w.session
      BY <1>1, <1>2, <3>1
    <3> QED
      BY <1>5, <1>10, <1>11, <1>12, <3>2, <3>3, <3>4 DEF GoodEntry
  <2>3. ASSUME NEW j \in 1..Len(new) PROVE GoodEntry(p, new[j], Len(new))'
    <3>1. j = 1 \/ j \in 2..Len(new)
      BY <1>8
    <3> QED
      BY <1>8, <2>1, <2>2, <3>1
  <2>4. ASSUME NEW j \in 1..Len(new), NEW l \in 1..Len(new), j < l PROVE new[j].id # new[l].id
    <3>1. l \in 2..Len(new)
      BY <1>8, <2>4
    <3>2. CASE j = 1
      BY <1>8, <2>2, <3>1, <3>2
    <3>3. CASE j # 1
      <4>1. /\ j \in 2..Len(new) /\ j - 1 \in 1..Len(list) /\ l - 1 \in 1..Len(list)
            /\ j - 1 # l - 1
        <5>1. j \in 2..Len(new)
          BY <1>8, <3>3
        <5>2. j - 1 \in 1..Len(list) /\ l - 1 \in 1..Len(list)
          BY <1>8, <3>1, <5>1
        <5>3. j - 1 # l - 1
          BY <2>4, <3>1, <5>1
        <5> QED
          BY <5>1, <5>2, <5>3
      <4>2. list[j - 1].id # list[l - 1].id
        BY <1>4, <4>1 DEF GoodList
      <4> QED
        BY <2>2, <3>1, <4>1, <4>2
    <3> QED
      BY <3>2, <3>3
  <2>5. \A j, l \in 1..Len(new) : new[j].id = new[l].id => j = l
    <3> SUFFICES ASSUME NEW j \in 1..Len(new), NEW l \in 1..Len(new), j # l
                 PROVE  new[j].id # new[l].id
      OBVIOUS
    <3>1. j < l \/ l < j
      BY <1>8
    <3> QED
      BY <2>4, <3>1
  <2>6. Len(new) <= MaxSessions
    BY <1>8, LimitsAreNat
  <2> QED
    BY <2>3, <2>5, <2>6 DEF GoodList
<1>19. ListsHold'
  BY <1>9, <1>11, <1>18 DEF ListsHold
<1>20. PrekeysAreOneTime'
  <2> SUFFICES ASSUME NEW q \in Party, NEW n \in Backed(q)', NEW k \in Backed(q)',
                      inits[n].gen = inits[k].gen, inits[n].opk = inits[k].opk
               PROVE  n = k
    BY <1>10 DEF PrekeysAreOneTime
  <2>1. CASE n \in Backed(q) /\ k \in Backed(q)
    BY <2>1 DEF SessionsInv, PrekeysAreOneTime
  <2>2. CASE ~(n \in Backed(q) /\ k \in Backed(q))
    <3>1. q = p
      BY <1>11, <2>2
    <3>2. \A m \in Backed(p) : Use(inits[m]) # Use(inits[w.session])
      BY <1>1 DEF Used
    <3>3. Use(inits[n]) = Use(inits[k])
      BY DEF Use
    <3> QED
      BY <1>12, <2>2, <3>1, <3>2, <3>3
  <2> QED
    BY <2>1, <2>2
<1>21. w \notin opened[p]
  BY <1>1
<1> QED
  BY <1>11, <1>16, <1>17, <1>19, <1>20, <1>21 DEF SessionsInv

----------------------------------------------------------------------------
(* Bundles, and the steps of one peer alone. *)

\* The published bundle of one peer and those it retains are replaced by a good pair
\* that covers what the peer was opened with: everything else stays as it is.
LEMMA ReplacingBundles ==
    ASSUME SessionsInv, NEW q \in Party, NEW nb, NEW no,
           GoodBundles(nb, no), Covers(Used(q), nb, no),
           bundle' = [bundle EXCEPT ![q] = nb], retired' = [retired EXCEPT ![q] = no],
           fetching' \in [Party -> [Fetches -> FetchStates]],
           UNCHANGED <<sessions, inits, wires, opened, plaintexts>>
    PROVE  SessionsInv'
<1>1. SessionsShape'
  <2>1. nb \in Bundles /\ no \in Seq(Bundles)
    BY DEF GoodBundles
  <2> QED
    BY <2>1 DEF SessionsInv, SessionsShape
<1>2. \A p \in Party : Backed(p)' = Backed(p) /\ Used(p)' = Used(p)
  BY DEF Backed, Used
<1>3. WiresHold' /\ OpenedHold' /\ PrekeysAreOneTime'
  BY <1>2 DEF SessionsInv, WiresHold, OpenedHold, InboundWires, PrekeysAreOneTime, Sessions
<1>4. ListsHold'
  BY <1>2 DEF SessionsInv, ListsHold, GoodList, GoodEntry, Sessions
<1>5. BundlesHold'
  <2> SUFFICES ASSUME NEW p \in Party
               PROVE  GoodBundles(bundle'[p], retired'[p]) /\ Covers(Used(p), bundle'[p], retired'[p])
    BY <1>2 DEF BundlesHold
  <2>1. CASE p = q
    <3>1. bundle'[p] = nb /\ retired'[p] = no
      BY <2>1 DEF SessionsInv, SessionsShape
    <3> QED
      BY <2>1, <3>1
  <2>2. CASE p # q
    <3>1. bundle'[p] = bundle[p] /\ retired'[p] = retired[p]
      BY <2>2 DEF SessionsInv, SessionsShape
    <3> QED
      BY <3>1 DEF SessionsInv, BundlesHold
  <2> QED
    BY <2>1, <2>2
<1> QED
  BY <1>1, <1>3, <1>4, <1>5 DEF SessionsInv

LEMMA ServeBundleKeeps ==
    ASSUME SessionsInv, NEW p \in Party, NEW f \in Fetches, NEW expired \in BOOLEAN,
           ServeBundle(p, f, expired)
    PROVE  SessionsInv'
<1> DEFINE q == Other(p)
<1>1. q \in Party
  BY OthersAreParties
<1> HIDE DEF q
<1>2. PICK nb, no : nb = NextBundle(bundle[q], expired) /\ no = NextRetired(bundle[q], retired[q], expired)
  OBVIOUS
<1>3. GoodBundles(bundle[q], retired[q]) /\ Covers(Used(q), bundle[q], retired[q])
  BY <1>1 DEF SessionsInv, BundlesHold
<1>4. \A u \in Used(q) : u.gen \in Nat
  BY <1>1, BackedAreSessions
<1>5. GoodBundles(nb, no) /\ Covers(Used(q), nb, no)
  BY <1>2, <1>3, <1>4, TurningOver
<1>6. /\ bundle' = [bundle EXCEPT ![q] = nb] /\ retired' = [retired EXCEPT ![q] = no]
      /\ fetching' = [fetching EXCEPT ![p][f] =
                         [stage |-> "served", gen |-> bundle'[q].gen, open |-> Open(bundle'[q])]]
      /\ UNCHANGED <<sessions, inits, wires, opened, plaintexts>>
  BY <1>2 DEF ServeBundle, q
<1>7. bundle'[q] = nb
  BY <1>1, <1>6 DEF SessionsInv, SessionsShape
<1>8. nb.gen \in Nat /\ Open(nb) \in (SUBSET Slots) \ {{}}
  <2>1. nb \in Bundles /\ bundle[q] \in Bundles
    BY <1>3, <1>5 DEF GoodBundles
  <2> QED
    BY <1>2, <2>1, ServedIsOpen DEF Bundles
<1>9. [stage |-> "served", gen |-> nb.gen, open |-> Open(nb)] \in FetchStates
  BY <1>8 DEF FetchStates
<1>10. fetching' \in [Party -> [Fetches -> FetchStates]]
  BY <1>6, <1>7, <1>9 DEF SessionsInv, SessionsShape
<1> QED
  BY <1>1, <1>5, <1>6, <1>10, ReplacingBundles

LEMMA StrangerKeeps ==
    ASSUME SessionsInv, NEW p \in Party, NEW slot \in Slots, NEW expired \in BOOLEAN,
           Stranger(p, slot, expired)
    PROVE  SessionsInv'
<1>1. PICK current : current = Consumed(bundle[p], slot)
  OBVIOUS
<1>2. PICK nb, no : nb = NextBundle(current, expired) /\ no = NextRetired(current, retired[p], expired)
  OBVIOUS
<1>3. GoodBundles(bundle[p], retired[p]) /\ Covers(Used(p), bundle[p], retired[p])
  BY DEF SessionsInv, BundlesHold
<1>4. GoodBundles(current, retired[p]) /\ Covers(Used(p), current, retired[p])
  <2>1. /\ GoodBundles(current, retired[p])
        /\ Covers(Used(p) \cup {[gen |-> bundle[p].gen, opk |-> slot]}, current, retired[p])
    BY <1>1, <1>3, TakingFromCurrent
  <2> QED
    BY <2>1 DEF Covers
<1>5. \A u \in Used(p) : u.gen \in Nat
  BY BackedAreSessions
<1>6. GoodBundles(nb, no) /\ Covers(Used(p), nb, no)
  BY <1>2, <1>4, <1>5, TurningOver
<1>7. /\ bundle' = [bundle EXCEPT ![p] = nb] /\ retired' = [retired EXCEPT ![p] = no]
      /\ fetching' = fetching /\ UNCHANGED <<sessions, inits, wires, opened, plaintexts>>
  BY <1>1, <1>2 DEF Stranger
<1>8. fetching' \in [Party -> [Fetches -> FetchStates]]
  BY <1>7 DEF SessionsInv, SessionsShape
<1> QED
  BY <1>6, <1>7, <1>8, ReplacingBundles

\* A restart loses no init: a session that still waits for its answer is the only one.
LEMMA RestartLosesNothing ==
    ASSUME SessionsInv, NEW p \in Party, Restart(p)
    PROVE  sessions' = sessions
<1>1. PICK list : list = sessions[p]
  OBVIOUS
<1>2. list \in Seq(Entries) /\ GoodList(p, list)
  BY <1>1 DEF SessionsInv, SessionsShape, ListsHold
<1> DEFINE kept == [i \in 1..Len(list) |-> IF i = 1 THEN list[i] ELSE Archived(list)[i]]
<1>3. sessions' = [sessions EXCEPT ![p] = kept]
  BY <1>1 DEF Restart
<1>4. \A i \in 1..Len(list) : kept[i] = list[i]
  <2> SUFFICES ASSUME NEW i \in 1..Len(list), i # 1 PROVE Archived(list)[i] = list[i]
    OBVIOUS
  <2>1. list[i] \in Entries /\ Len(list) # 1
    BY <1>2
  <2>2. list[i].pending = FALSE
    BY <1>2, <2>1 DEF GoodList, GoodEntry, Entries
  <2>3. [list[i] EXCEPT !.pending = FALSE] = list[i]
    BY <2>1, <2>2 DEF Entries
  <2> QED
    BY <2>3 DEF Archived
<1>5. kept = list
  BY <1>2, <1>4
<1> QED
  BY <1>1, <1>3, <1>5 DEF SessionsInv, SessionsShape

\* Asking for a bundle, giving up and restarting change nothing the invariant is about.
LEMMA WaitingKeeps ==
    ASSUME SessionsInv, fetching' \in [Party -> [Fetches -> FetchStates]],
           UNCHANGED <<sessions, bundle, retired, inits, wires, opened, plaintexts>>
    PROVE  SessionsInv'
<1>1. SessionsShape'
  BY DEF SessionsInv, SessionsShape
<1>2. \A p \in Party : Backed(p)' = Backed(p) /\ Used(p)' = Used(p)
  BY DEF Backed, Used
<1>3. WiresHold' /\ OpenedHold' /\ PrekeysAreOneTime' /\ BundlesHold'
  BY <1>2 DEF SessionsInv, WiresHold, OpenedHold, InboundWires, PrekeysAreOneTime, Sessions, BundlesHold
<1>4. ListsHold'
  BY <1>2 DEF SessionsInv, ListsHold, GoodList, GoodEntry, Sessions
<1> QED
  BY <1>1, <1>3, <1>4 DEF SessionsInv

LEMMA SessionsInvStep ==
    ASSUME SessionsInv, [SessionsNext]_sessionsVars
    PROVE  SessionsInv'
<1>0. Idle \in FetchStates /\ Asked \in FetchStates
  BY DEF FetchStates
<1>1. CASE \E p \in Party : Encrypt(p)
  BY <1>1, EncryptKeeps
<1>2. CASE \E p \in Party : Restart(p)
  <2>1. PICK p \in Party : Restart(p)
    BY <1>2
  <2>2. sessions' = sessions
    BY <2>1, RestartLosesNothing
  <2>3. fetching' \in [Party -> [Fetches -> FetchStates]]
    BY <1>0, <2>1 DEF Restart, SessionsInv, SessionsShape
  <2> QED
    BY <2>1, <2>2, <2>3, WaitingKeeps DEF Restart
<1>3. CASE \E p \in Party : \E f \in Fetches : BeginEncrypt(p, f) \/ FailEncrypt(p, f)
  <2>1. fetching' \in [Party -> [Fetches -> FetchStates]]
    <3>1. PICK p \in Party, f \in Fetches, x \in FetchStates :
            fetching' = [fetching EXCEPT ![p][f] = x]
      BY <1>0, <1>3 DEF BeginEncrypt, FailEncrypt
    <3> QED
      BY <3>1 DEF SessionsInv, SessionsShape
  <2> QED
    BY <1>3, <2>1, WaitingKeeps DEF BeginEncrypt, FailEncrypt
<1>4. CASE \E p \in Party : \E f \in Fetches : FinishEncrypt(p, f)
  BY <1>4, FinishEncryptKeeps
<1>5. CASE \E p \in Party : \E f \in Fetches : \E expired \in BOOLEAN : ServeBundle(p, f, expired)
  BY <1>5, ServeBundleKeeps
<1>6. CASE \E p \in Party : \E w \in InboundWires(p) : Decrypt(p, w)
  BY <1>6, DecryptKeeps
<1>7. CASE \E p \in Party : \E w \in InboundWires(p) : \E expired \in BOOLEAN : Bootstrap(p, w, expired)
  BY <1>7, BootstrapKeeps
<1>8. CASE \E p \in Party : \E slot \in Slots : \E expired \in BOOLEAN : Stranger(p, slot, expired)
  BY <1>8, StrangerKeeps
<1>9. CASE UNCHANGED sessionsVars
  <2>1. fetching' \in [Party -> [Fetches -> FetchStates]]
    BY <1>9 DEF sessionsVars, SessionsInv, SessionsShape
  <2> QED
    BY <1>9, <2>1, WaitingKeeps DEF sessionsVars
<1> QED
  BY <1>1, <1>2, <1>3, <1>4, <1>5, <1>6, <1>7, <1>8, <1>9 DEF SessionsNext

LEMMA SessionsInvHolds == SessionsSpec => []SessionsInv
<1>1. SessionsInit => SessionsInv
  BY SessionsBegin
<1>2. SessionsInv /\ [SessionsNext]_sessionsVars => SessionsInv'
  BY SessionsInvStep
<1> QED
  BY <1>1, <1>2, PTL DEF SessionsSpec

----------------------------------------------------------------------------
(* What the sessions promise. *)

\* "A consumed OPK must never back a second session" (bootstrapFromInit): whatever
\* is rotated, overwritten, restarted or delivered again, a peer opens wires of one
\* session at most of those initiated with one of its one-time prekeys.
THEOREM PrekeysServeOnce == SessionsSpec => []PrekeysAreOneTime
<1>1. SessionsInv => PrekeysAreOneTime
  BY DEF SessionsInv
<1> QED
  BY <1>1, SessionsInvHolds, PTL

\* One step of the sessions is a step of the channel, or none.
LEMMA SessionsStepIsChannelStep ==
    ASSUME SessionsInv, [SessionsNext]_sessionsVars
    PROVE  SessionsChannel!Next \/ UNCHANGED <<wires, opened, plaintexts>>
<1>1. ASSUME NEW p \in Party, NEW n, NEW withInit, Sealed(p, n, withInit),
             UNCHANGED <<opened, plaintexts>>
      PROVE  SessionsChannel!Next
  <2> DEFINE w == [no |-> Cardinality(wires) + 1, from |-> p, session |-> n, init |-> withInit]
  <2>1. wires' = wires \cup {w} /\ w \notin wires
    BY <1>1, SealingIsNew
  <2>2. w.from = p
    OBVIOUS
  <2> HIDE DEF w
  <2>3. SessionsChannel!Send(p)
    BY <1>1, <2>1, <2>2 DEF SessionsChannel!Send
  <2> QED
    BY <2>3 DEF SessionsChannel!Next
<1>2. ASSUME NEW p \in Party, NEW w \in InboundWires(p), w \notin opened[p], Accept(p, w),
             wires' = wires
      PROVE  SessionsChannel!Next
  <2>1. w \in wires /\ w.from # p
    BY DEF InboundWires
  <2>2. SessionsChannel!Open(p, w)
    BY <1>2, <2>1 DEF SessionsChannel!Open, Accept
  <2> QED
    BY <2>1, <2>2 DEF SessionsChannel!Next
<1>3. CASE \E p \in Party : Encrypt(p)
  BY <1>1, <1>3 DEF Encrypt
<1>4. CASE \E p \in Party : \E f \in Fetches : FinishEncrypt(p, f)
  BY <1>1, <1>4 DEF FinishEncrypt
<1>5. CASE \E p \in Party : \E w \in InboundWires(p) : Decrypt(p, w)
  BY <1>2, <1>5, DecryptKeeps DEF Decrypt
<1>6. CASE \E p \in Party : \E w \in InboundWires(p) : \E expired \in BOOLEAN : Bootstrap(p, w, expired)
  <2>1. PICK p \in Party : \E w \in InboundWires(p) : \E expired \in BOOLEAN :
                            Bootstrap(p, w, expired)
    BY <1>6
  <2>2. PICK w \in InboundWires(p) : \E expired \in BOOLEAN : Bootstrap(p, w, expired)
    BY <2>1
  <2>3. w \notin opened[p]
    BY <2>2, BootstrapKeeps
  <2>4. Accept(p, w) /\ wires' = wires
    BY <2>2 DEF Bootstrap
  <2> QED
    BY <1>2, <2>3, <2>4
<1>7. CASE \/ \E p \in Party : Restart(p)
           \/ \E p \in Party : \E f \in Fetches : BeginEncrypt(p, f) \/ FailEncrypt(p, f)
           \/ \E p \in Party : \E f \in Fetches : \E expired \in BOOLEAN : ServeBundle(p, f, expired)
           \/ \E p \in Party : \E slot \in Slots : \E expired \in BOOLEAN : Stranger(p, slot, expired)
           \/ UNCHANGED sessionsVars
  BY <1>7 DEF Restart, BeginEncrypt, FailEncrypt, ServeBundle, Stranger, sessionsVars
<1> QED
  BY <1>3, <1>4, <1>5, <1>6, <1>7 DEF SessionsNext

\* "a recorded first-contact wire cannot be replayed later to reset a session"
\* (decrypt): whatever arrives late, twice or out of order, between crossed first
\* contacts and restarts, every wire is a new one and is opened once at most.
THEOREM SessionsOpenOnce == SessionsSpec => SessionsImplementOnceChannel
<1>1. SessionsInit => SessionsChannel!Init
  BY DEF SessionsInit, SessionsChannel!Init
<1>2. SessionsInv /\ [SessionsNext]_sessionsVars
      => [SessionsChannel!Next]_<<wires, opened, plaintexts>>
  BY SessionsStepIsChannelStep
<1> QED
  BY <1>1, <1>2, SessionsInvHolds, PTL
     DEF SessionsSpec, SessionsImplementOnceChannel, SessionsChannel!Spec

----------------------------------------------------------------------------
(* The inbox: its shapes. *)

Mailboxes == [entries : SUBSET MailEntry, usage : Nat]
Deposits == [open : BOOLEAN, born : Day, copy : Nat, todo : SUBSET Holders,
             acks : SUBSET Holders, told : {"no", "sent", "failed"}]
PassStates == [phase : {"idle", "fetch", "apply", "left"}, tokens : SUBSET Day, todo : SUBSET Holders,
               got : SUBSET Packet, here : SUBSET Ids, acks : SUBSET Ids, cur : Ids \cup {"none"}]
IsAsk(a) ==
    /\ a = [to |-> a.to, ids |-> a.ids, tokens |-> a.tokens, no |-> a.no,
            stage |-> a.stage, read |-> a.read]
    /\ a.to \in Holders /\ a.ids \subseteq Ids /\ a.tokens \subseteq Day
    /\ a.read \subseteq MailEntry /\ IsFiniteSet(a.read)

\* A mailbox is finite, no entry is older than its token, and nothing phantom is counted.
Sound(m) == /\ m \in Mailboxes /\ IsFiniteSet(m.entries)
            /\ \A e \in m.entries : e.token <= e.stored
            /\ m.usage <= Cardinality(m.entries)
BoxesSound == DOMAIN mail = Holders /\ mail = [h \in Holders |-> mail[h]]
              /\ \A h \in Holders : Sound(mail[h])
SenderShape == /\ deposit \in [Ids -> Deposits]
               /\ \A i \in Ids : deposit[i].born <= today
               /\ \A i \in Ids : deposit[i].todo # {} => deposit[i].open
ReaderShape == /\ pass \in [1..Passes -> PassStates]
               /\ running \in 0..Passes /\ again \in BOOLEAN
               /\ seen \in Seq(Ids) /\ Len(seen) <= SeenCap
               /\ applied \in [Ids -> 0..2]
AskShape == \A a \in asks : IsAsk(a)
InboxShape == /\ world \in World /\ today \in Day
              /\ BoxesSound /\ SenderShape /\ ReaderShape /\ AskShape

----------------------------------------------------------------------------
(* What a holder does to a mailbox. *)


LEMMA RemoveSound ==
    ASSUME NEW m, Sound(m), NEW gone, IsFiniteSet(gone), NEW u, u = Remove(m, gone)
    PROVE  Sound(u) /\ u.entries = m.entries \ gone
<1>1. u = [entries |-> m.entries \ gone, usage |-> Minus(m.usage, Cardinality(gone))]
  BY DEF Remove
<1>2. m.entries \in SUBSET MailEntry /\ m.usage \in Nat /\ IsFiniteSet(m.entries)
  BY DEF Sound, Mailboxes
<1>3. Cardinality(gone) \in Nat /\ Cardinality(m.entries) \in Nat
  BY <1>2, FS_CardinalityType
<1>4. IsFiniteSet(m.entries \ gone) /\ Cardinality(m.entries \ gone) \in Nat
  BY <1>2, FS_Difference, FS_CardinalityType
<1>5. Cardinality(m.entries \ gone) >= Cardinality(m.entries) - Cardinality(gone)
  <2>1. IsFiniteSet(m.entries \cap gone) /\ Cardinality(m.entries \cap gone) <= Cardinality(gone)
    BY FS_Subset
  <2>2. Cardinality(m.entries \ gone) = Cardinality(m.entries) - Cardinality(m.entries \cap gone)
    BY <1>2, FS_Difference
  <2>3. Cardinality(m.entries \cap gone) \in Nat
    BY <2>1, FS_CardinalityType
  <2> QED  BY <1>3, <2>1, <2>2, <2>3
<1>6. m.usage <= Cardinality(m.entries)
  BY DEF Sound
<1>7. u.usage \in Nat /\ u.usage <= Cardinality(m.entries \ gone)
  BY <1>1, <1>2, <1>3, <1>4, <1>5, <1>6 DEF Minus
<1>8. u.entries = m.entries \ gone
  BY <1>1
<1>9. u \in Mailboxes
  BY <1>1, <1>2, <1>7 DEF Mailboxes
<1> QED  BY <1>4, <1>7, <1>8, <1>9 DEF Sound

Expired(m) == {e \in m.entries : today >= e.stored + Retention}

LEMMA PrunedSound ==
    ASSUME NEW m, Sound(m)
    PROVE  Sound(Pruned(m)) /\ Pruned(m).entries = m.entries \ Expired(m)
<1>1. IsFiniteSet(Expired(m))
  BY FS_Subset DEF Sound, Expired
<1>2. Pruned(m) = Remove(m, Expired(m))
  BY DEF Pruned, Expired
<1> QED  BY <1>1, <1>2, RemoveSound

StoredFacts(m, i, token, u) ==
    /\ Sound(u) /\ m.entries \subseteq u.entries
    /\ Queues(m, i, token) => \E e \in u.entries : e.id = i /\ e.token = token

LEMMA StoredSound ==
    ASSUME NEW m, Sound(m), today \in Day, NEW i \in Ids, NEW token \in Day, token <= today,
           NEW copy \in Nat, NEW u, u = Stored(m, i, token, copy)
    PROVE  StoredFacts(m, i, token, u)
<1> DEFINE new == [id |-> i, token |-> token, stored |-> today, copy |-> copy]
<1>1. CASE Duplicate(m, i, token)
  BY <1>1 DEF Stored, Duplicate, StoredFacts
<1>2. CASE ~Queues(m, i, token)
  BY <1>2 DEF Stored, StoredFacts
<1>3. CASE Queues(m, i, token) /\ ~Duplicate(m, i, token)
  <2>1. u = [entries |-> m.entries \cup {new}, usage |-> m.usage + 1]
    BY <1>3 DEF Stored
  <2>2. new \notin m.entries /\ new \in MailEntry
    BY <1>3 DEF Duplicate, MailEntry
  <2>3. m.entries \in SUBSET MailEntry /\ m.usage \in Nat /\ IsFiniteSet(m.entries)
        /\ m.usage <= Cardinality(m.entries)
    BY DEF Sound, Mailboxes
  <2>4. IsFiniteSet(m.entries \cup {new}) /\ Cardinality(m.entries \cup {new}) = Cardinality(m.entries) + 1
    BY <2>2, <2>3, FS_AddElement
  <2>5. Cardinality(m.entries) \in Nat
    BY <2>3, FS_CardinalityType
  <2>6. u \in Mailboxes /\ u.entries = m.entries \cup {new} /\ u.usage = m.usage + 1
    BY <2>1, <2>2, <2>3 DEF Mailboxes
  <2>7. \A e \in u.entries : e.token <= e.stored
    BY <2>6 DEF Sound
  <2>8. u.usage <= Cardinality(u.entries)
    BY <2>3, <2>4, <2>5, <2>6
  <2> HIDE DEF new
  <2>9. Sound(u)
    BY <2>4, <2>6, <2>7, <2>8 DEF Sound
  <2>10. new.id = i /\ new.token = token
    BY DEF new
  <2> QED  BY <2>6, <2>9, <2>10 DEF StoredFacts
<1> QED  BY <1>1, <1>2, <1>3

\* A step replaces one mailbox by a sound one.
LEMMA OneBox ==
    ASSUME BoxesSound, NEW h \in Holders, NEW u, Sound(u), mail' = [mail EXCEPT ![h] = u]
    PROVE  BoxesSound' /\ mail'[h] = u /\ \A k \in Holders \ {h} : mail'[k] = mail[k]
BY DEF BoxesSound, Sound, Mailboxes

----------------------------------------------------------------------------
(* The inductive invariant. *)

\* What need not be kept any more: what took effect, or was refused and acknowledged.
Done == {i \in Ids : applied[i] > 0 \/ i \in spurned}

\* What was reported as sent and has not taken effect is held under the token of the day
\* it was deposited.
HeldFor(i) == \E h \in world.known : \E e \in mail[h].entries : e.id = i /\ e.token = deposit[i].born
Custody == \A i \in Ids \ Done : deposit[i].told = "sent" /\ Lives(deposit[i].born) => HeldFor(i)
\* Only such deliveries are ever acknowledged, wherever the acknowledgement is; none is being
\* received when the loop has been left.
PassesAcknowledge ==
    \A n \in 1..Passes :
        /\ pass[n].acks \subseteq Done /\ pass[n].cur \in Done \cup {"none"}
        /\ pass[n].phase = "left" => pass[n].cur = "none"
AsksAcknowledge == \A a \in asks : a.ids \subseteq Done /\ \A e \in a.read : e.id \in Done
Acknowledged ==
    /\ PassesAcknowledge
    /\ AsksAcknowledge
    /\ SeqSet(seen) \subseteq Done

\* An operation that took effect and may not take effect again has a receipt, or is about
\* to have one; and the only drain at work is the one recorded as running.
Receipted == \A i \in Ids \ excused :
                /\ applied[i] < 2
                /\ applied[i] = 1 => HasSeen(i) \/ \E n \in 1..Passes : pass[n].cur = i
OneDrain == Ids \subseteq excused \/ \A n \in 1..Passes : pass[n] # NoPass => n = running
\* A full window that is owed is requested of the drain that runs, and no drain has left
\* its loop without looking at the request.
Requested == owed => again /\ running # 0 /\ ~Leaving

InboxInv == InboxShape /\ Custody /\ Acknowledged /\ Receipted /\ OneDrain /\ Requested

LEMMA NotAPass == NoPass \in PassStates
BY DEF NoPass, PassStates

LEMMA InboxStarts == InboxInit => InboxInv
<1> SUFFICES ASSUME InboxInit PROVE InboxInv
  OBVIOUS
<1>1. world \in World /\ today \in Day
  BY WorldsOK, Days DEF InboxInit, Day
<1>2. BoxesSound
  <2> DEFINE none == [entries |-> {}, usage |-> 0]
  <2>1. IsFiniteSet({}) /\ Cardinality({}) = 0
    BY FS_EmptySet
  <2>2. Sound(none)
    BY <2>1 DEF Sound, Mailboxes
  <2>3. mail = [h \in Holders |-> none]
    BY DEF InboxInit
  <2> HIDE DEF none
  <2> QED  BY <2>2, <2>3 DEF BoxesSound
<1>3. Unused \in Deposits /\ Unused.born = 0 /\ Unused.todo = {} /\ Unused.told = "no"
  BY Days DEF Unused, Deposits, Day
<1>4. SenderShape
  BY <1>3 DEF InboxInit, SenderShape
<1>5. ReaderShape
  <2>1. pass \in [1..Passes -> PassStates]
    BY NotAPass DEF InboxInit
  <2>2. running \in 0..Passes /\ again \in BOOLEAN
    <3>1. running = 0 /\ again = FALSE
      BY DEF InboxInit
    <3>2. 0 \in 0..Passes
      BY PassesAreBounded
    <3>4. running \in 0..Passes
      BY <3>1, <3>2
    <3>5. again \in BOOLEAN
      BY <3>1
    <3> QED  BY <3>4, <3>5
  <2>3. seen \in Seq(Ids) /\ Len(seen) <= SeenCap
    BY Caps DEF InboxInit
  <2>4. applied \in [Ids -> 0..2]
    BY DEF InboxInit
  <2> QED  BY <2>1, <2>2, <2>3, <2>4 DEF ReaderShape
<1>6. AskShape
  BY DEF InboxInit, AskShape
<1>7. Custody
  BY <1>3 DEF InboxInit, Custody
<1>8. Acknowledged
  BY DEF InboxInit, Acknowledged, PassesAcknowledge, AsksAcknowledge, NoPass, SeqSet
<1>9. Receipted /\ OneDrain /\ Requested
  BY DEF InboxInit, Receipted, OneDrain, Requested
<1> QED  BY <1>1, <1>2, <1>4, <1>5, <1>6, <1>7, <1>8, <1>9 DEF InboxInv, InboxShape

\* What is left alone is kept.
LEMMA ReaderKept ==
    ASSUME ReaderShape, UNCHANGED <<pass, running, again, seen, applied>>
    PROVE  ReaderShape'
BY DEF ReaderShape

LEMMA DoneKept ==
    ASSUME UNCHANGED <<applied, spurned>>
    PROVE  Done' = Done
BY DEF Done

LEMMA RecipientKept ==
    ASSUME InboxInv, UNCHANGED recipient
    PROVE  /\ ReaderShape' /\ Receipted' /\ OneDrain' /\ Requested' /\ Done' = Done
           /\ PassesAcknowledge' /\ (SeqSet(seen) \subseteq Done)'
<1> USE DEF InboxInv, recipient
<1>1. ReaderShape' /\ Done' = Done
  BY ReaderKept, DoneKept DEF InboxShape
<1>2. PassesAcknowledge' /\ (SeqSet(seen) \subseteq Done)'
  BY <1>1 DEF Acknowledged, PassesAcknowledge, SeqSet
<1>3. Receipted'
  BY DEF Receipted, HasSeen, SeqSet
<1>4. OneDrain' /\ Requested'
  BY DEF OneDrain, Requested, Leaving
<1> QED  BY <1>1, <1>2, <1>3, <1>4

LEMMA AsksKept ==
    ASSUME InboxInv, UNCHANGED asks, Done \subseteq Done'
    PROVE  AskShape' /\ AsksAcknowledge'
BY DEF InboxInv, InboxShape, AskShape, Acknowledged, AsksAcknowledge, IsAsk

\* A delivery that must be kept is kept where holders drop only what has expired or is done.
DropsOnly == \A h \in Holders : \A e \in mail[h].entries :
                e \in mail'[h].entries \/ e \in Expired(mail[h]) \/ e.id \in Done

LEMMA CustodyKept ==
    ASSUME InboxInv, DropsOnly, UNCHANGED world, today <= today', today' \in Day, Done \subseteq Done',
           NEW i \in Ids, i \notin Done', UNCHANGED <<deposit[i].told, deposit[i].born>>
    PROVE  (deposit[i].told = "sent" /\ Lives(deposit[i].born) => HeldFor(i))'
<1> SUFFICES ASSUME (deposit[i].told = "sent" /\ Lives(deposit[i].born))' PROVE HeldFor(i)'
  OBVIOUS
<1>0. today \in Nat /\ today' \in Nat /\ deposit[i].born \in Nat /\ Ttl \in Nat /\ Retention \in Nat
  BY Days DEF InboxInv, InboxShape, SenderShape, Deposits, Day
<1>1. deposit[i].told = "sent" /\ Lives(deposit[i].born) /\ i \in Ids \ Done
  BY <1>0 DEF Lives
<1>h. PICK h \in world.known : \E e \in mail[h].entries : e.id = i /\ e.token = deposit[i].born
  BY <1>1 DEF InboxInv, Custody, HeldFor
<1>2. PICK e \in mail[h].entries : e.id = i /\ e.token = deposit[i].born
  BY <1>h
<1>3. h \in Holders
  BY DEF InboxInv, InboxShape, World
<1>4. e.token <= e.stored /\ e.stored \in Nat
  BY <1>3, Days DEF InboxInv, InboxShape, BoxesSound, Sound, Mailboxes, MailEntry, Day
<1>5. e \notin Expired(mail[h])
  BY <1>0, <1>1, <1>2, <1>4, RetentionOutlivesPackets DEF Expired, Lives
<1>6. e \in mail'[h].entries
  BY <1>1, <1>2, <1>3, <1>5 DEF DropsOnly
<1> QED  BY <1>2, <1>6 DEF HeldFor

----------------------------------------------------------------------------
(* Steps of the sender and of the holders. *)

\* Such steps leave the recipient alone.
LEMMA ElsewhereKeeps ==
    ASSUME InboxInv, UNCHANGED <<world, recipient>>, today <= today', today' \in Day,
           BoxesSound', SenderShape', AskShape', AsksAcknowledge', Custody'
    PROVE  InboxInv'
<1>1. /\ ReaderShape' /\ Receipted' /\ OneDrain' /\ Requested' /\ Done' = Done
      /\ PassesAcknowledge' /\ (SeqSet(seen) \subseteq Done)'
  BY RecipientKept DEF inboxVars
<1>2. InboxShape'
  BY <1>1 DEF InboxInv, InboxShape
<1>3. Acknowledged'
  BY <1>1 DEF Acknowledged
<1> QED  BY <1>1, <1>2, <1>3 DEF InboxInv

LEMMA BoxesKept == ASSUME BoxesSound, UNCHANGED mail PROVE BoxesSound' /\ DropsOnly
BY DEF BoxesSound, DropsOnly

LEMMA TimeIsTyped == ASSUME InboxInv PROVE today \in Day /\ today \in Nat
BY Days DEF InboxInv, InboxShape, Day

LEMMA BeginKeeps == ASSUME InboxInv, NEW i \in Ids, Begin(i) PROVE InboxInv'
<1>0. UNCHANGED <<world, today, mail, asks, recipient>>
  BY DEF Begin
<1> DEFINE d == [Unused EXCEPT !.open = TRUE, !.born = today, !.copy = deposit[i].copy + 1, !.todo = world.holders]
<1>1. deposit' = [deposit EXCEPT ![i] = d]
  BY DEF Begin
<1>2. InboxShape /\ deposit \in [Ids -> Deposits] /\ today \in Day /\ today \in Nat /\ world.holders \subseteq Holders
  BY TimeIsTyped DEF InboxInv, InboxShape, SenderShape, World
<1>3. deposit[i].copy + 1 \in Nat
  BY <1>2 DEF Deposits
<1>4. d \in Deposits /\ d.born = today /\ d.open = TRUE /\ d.told = "no"
  BY <1>2, <1>3 DEF Unused, Deposits
<1> HIDE DEF d
<1>5. deposit'[i] = d /\ deposit' \in [Ids -> Deposits] /\ \A j \in Ids \ {i} : deposit'[j] = deposit[j]
  BY <1>1, <1>2, <1>4
<1>6. SenderShape'
  BY <1>0, <1>2, <1>4, <1>5 DEF InboxShape, SenderShape
<1>7. BoxesSound' /\ DropsOnly /\ AskShape' /\ AsksAcknowledge' /\ Done' = Done
  <2>1. Done' = Done
    BY <1>0 DEF recipient, Done
  <2> QED  BY <1>0, <1>2, <2>1, BoxesKept, AsksKept DEF InboxShape
<1>8. Custody'
  <2> SUFFICES ASSUME NEW j \in Ids, j \notin Done'
              PROVE  (deposit[j].told = "sent" /\ Lives(deposit[j].born) => HeldFor(j))'
    BY DEF Custody
  <2>1. CASE j = i
    BY <1>4, <1>5, <2>1
  <2>2. CASE j # i
    BY <1>0, <1>2, <1>5, <1>7, <2>2, CustodyKept
  <2> QED  BY <2>1, <2>2
<1> QED  BY <1>0, <1>2, <1>6, <1>7, <1>8, ElsewhereKeeps

LEMMA SenderCrashKeeps == ASSUME InboxInv, NEW i \in Ids, SenderCrash(i) PROVE InboxInv'
<1>0. UNCHANGED <<world, today, mail, asks, recipient>>
  BY DEF SenderCrash
<1>1. deposit' = [deposit EXCEPT ![i].open = FALSE, ![i].todo = {}]
  BY DEF SenderCrash
<1>2. InboxShape /\ deposit \in [Ids -> Deposits] /\ today \in Day /\ today \in Nat
  BY TimeIsTyped DEF InboxInv, InboxShape, SenderShape
<1>3. deposit' \in [Ids -> Deposits] /\ deposit'[i].todo = {}
      /\ (\A j \in Ids \ {i} : deposit'[j] = deposit[j])
      /\ \A j \in Ids : deposit'[j].told = deposit[j].told /\ deposit'[j].born = deposit[j].born
  BY <1>1, <1>2 DEF Deposits
<1>4. SenderShape'
  BY <1>0, <1>2, <1>3 DEF InboxShape, SenderShape
<1>5. BoxesSound' /\ DropsOnly /\ AskShape' /\ AsksAcknowledge' /\ Done' = Done
  <2>1. Done' = Done
    BY <1>0 DEF recipient, Done
  <2> QED  BY <1>0, <1>2, <2>1, BoxesKept, AsksKept DEF InboxShape
<1>6. Custody'
  <2> SUFFICES ASSUME NEW j \in Ids, j \notin Done'
              PROVE  (deposit[j].told = "sent" /\ Lives(deposit[j].born) => HeldFor(j))'
    BY DEF Custody
  <2> QED  BY <1>0, <1>2, <1>3, <1>5, CustodyKept
<1> QED  BY <1>0, <1>2, <1>4, <1>5, <1>6, ElsewhereKeeps

LEMMA AttemptKeeps == ASSUME InboxInv, NEW i \in Ids, NEW h \in Holders, Attempt(i, h) PROVE InboxInv'
<1> DEFINE d == deposit[i]
           m == Pruned(mail[h])
           u == Stored(m, i, d.born, d.copy)
<1>0. UNCHANGED <<world, today, asks, recipient>> /\ d.open /\ h \in d.todo
  BY DEF Attempt
<1>1. InboxShape /\ deposit \in [Ids -> Deposits] /\ today \in Day /\ today \in Nat /\ d \in Deposits
      /\ d.born <= today /\ BoxesSound
  BY TimeIsTyped DEF InboxInv, InboxShape, SenderShape
<1>2. PICK reached \in BOOLEAN, answered \in BOOLEAN :
        /\ answered => reached
        /\ mail' = IF reached THEN [mail EXCEPT ![h] = u] ELSE mail
        /\ LET acked == reached /\ answered /\ Queues(m, i, d.born)
               next == [d EXCEPT !.todo = @ \ {h},
                                 !.acks = IF acked THEN @ \cup {h} ELSE @,
                                 !.told = IF acked THEN Told(d, h) ELSE @]
               over == next.todo = {} \/ Cardinality(next.acks) >= TargetCopies
           IN  deposit' = [deposit EXCEPT ![i] =
                        IF ~over THEN next
                        ELSE [next EXCEPT !.open = FALSE, !.todo = {},
                                          !.told = IF @ = "sent" THEN @ ELSE "failed"]]
  BY DEF Attempt
<1> DEFINE acked == reached /\ answered /\ Queues(m, i, d.born)
<1>3. /\ deposit'[i] \in Deposits /\ deposit'[i].born = d.born
      /\ deposit'[i].todo # {} => deposit'[i].open
      /\ deposit'[i].told = "sent" => d.told = "sent" \/ (acked /\ h \in world.known)
      /\ \A j \in Ids \ {i} : deposit'[j] = deposit[j]
  <2> DEFINE next == [d EXCEPT !.todo = @ \ {h},
                                 !.acks = IF acked THEN @ \cup {h} ELSE @,
                                 !.told = IF acked THEN Told(d, h) ELSE @]
             over == next.todo = {} \/ Cardinality(next.acks) >= TargetCopies
             last == [next EXCEPT !.open = FALSE, !.todo = {}, !.told = IF @ = "sent" THEN @ ELSE "failed"]
  <2>1. deposit' = [deposit EXCEPT ![i] = IF ~over THEN next ELSE last]
    BY <1>2
  <2> HIDE DEF over, acked
  <2>2. Told(d, h) \in {"no", "sent", "failed"} /\ (Told(d, h) = "sent" => d.told = "sent" \/ h \in world.known)
    BY <1>1 DEF Told, Deposits
  <2>3. next \in Deposits /\ next.born = d.born /\ next.open = d.open
        /\ (next.told = "sent" => d.told = "sent" \/ (acked /\ h \in world.known))
    BY <1>1, <2>2 DEF Deposits
  <2> HIDE DEF next
  <2>4. last \in Deposits /\ last.born = next.born /\ last.todo = {}
        /\ (last.told = "sent" => next.told = "sent")
    BY <2>3 DEF Deposits
  <2> HIDE DEF last
  <2>5. deposit'[i] \in {next, last} /\ \A j \in Ids \ {i} : deposit'[j] = deposit[j]
    BY <1>1, <2>1
  <2> QED  BY <1>0, <2>3, <2>4, <2>5
<1>4. deposit' \in [Ids -> Deposits]
  <2>1. DOMAIN deposit' = Ids /\ deposit' = [j \in Ids |-> deposit'[j]]
    BY <1>1, <1>2
  <2> QED  BY <1>1, <1>3, <2>1
<1>5. SenderShape'
  BY <1>0, <1>1, <1>3, <1>4 DEF InboxShape, SenderShape
<1>6. Sound(mail[h]) /\ Sound(m) /\ m.entries = mail[h].entries \ Expired(mail[h])
  BY <1>1, PrunedSound DEF BoxesSound
<1>7. d.born \in Day /\ d.copy \in Nat
  BY <1>1 DEF Deposits
<1> HIDE DEF d, m
<1>u. u = Stored(m, i, d.born, d.copy)
  OBVIOUS
<1> HIDE DEF u
<1>8. /\ Sound(u) /\ m.entries \subseteq u.entries
      /\ Queues(m, i, d.born) => \E e \in u.entries : e.id = i /\ e.token = d.born
  <2>1. Sound(m) /\ today \in Day /\ d.born \in Day /\ d.born <= today /\ d.copy \in Nat
    BY <1>1, <1>6, <1>7
  <2>2. StoredFacts(m, i, d.born, u)
    BY <2>1, <1>u, StoredSound
  <2> QED  BY <2>2 DEF StoredFacts
<1>9. BoxesSound' /\ DropsOnly /\ (reached => mail'[h] = u)
  <2>1. CASE ~reached
    BY <1>1, <1>2, <2>1, BoxesKept
  <2>2. CASE reached
    <3>1. BoxesSound' /\ mail'[h] = u /\ \A k \in Holders \ {h} : mail'[k] = mail[k]
      BY <1>1, <1>2, <1>8, <2>2, OneBox
    <3> QED  BY <1>6, <1>8, <3>1 DEF DropsOnly
  <2> QED  BY <2>1, <2>2
<1>10. AskShape' /\ AsksAcknowledge' /\ Done' = Done
  <2>1. Done' = Done
    BY <1>0 DEF recipient, Done
  <2> QED  BY <1>0, <2>1, AsksKept
<1>11. Custody'
  <2> SUFFICES ASSUME NEW j \in Ids, j \notin Done'
              PROVE  (deposit[j].told = "sent" /\ Lives(deposit[j].born) => HeldFor(j))'
    BY DEF Custody
  <2>1. CASE j # i \/ d.told = deposit'[i].told
    <3>1. deposit[j].told = deposit'[j].told /\ deposit[j].born = deposit'[j].born
      BY <1>3, <2>1 DEF d
    <3> QED  BY <1>0, <1>1, <1>9, <1>10, <3>1, CustodyKept
  <2>2. CASE j = i /\ d.told # deposit'[i].told /\ deposit'[i].told = "sent"
    <3>1. acked /\ h \in world.known
      BY <1>3, <2>2
    <3>2. \E e \in u.entries : e.id = i /\ e.token = d.born
      BY <1>8, <3>1
    <3>3. reached
      BY <3>1
    <3> QED  BY <1>0, <1>3, <1>9, <2>2, <3>1, <3>2, <3>3 DEF HeldFor
  <2>3. CASE j = i /\ deposit'[i].told # "sent"
    BY <2>3
  <2> QED  BY <2>1, <2>2, <2>3
<1> QED  BY <1>0, <1>1, <1>5, <1>9, <1>10, <1>11, ElsewhereKeeps

\* A holder that serves the recipient prunes its mailbox.
LEMMA PruningKeeps ==
    ASSUME BoxesSound, NEW h \in Holders, mail' = [mail EXCEPT ![h] = Pruned(mail[h])]
    PROVE  BoxesSound' /\ DropsOnly
<1>1. Sound(Pruned(mail[h])) /\ Pruned(mail[h]).entries = mail[h].entries \ Expired(mail[h])
  BY PrunedSound DEF BoxesSound
<1>2. BoxesSound' /\ mail'[h] = Pruned(mail[h]) /\ \A k \in Holders \ {h} : mail'[k] = mail[k]
  BY <1>1, OneBox
<1> QED  BY <1>1, <1>2 DEF DropsOnly

\* Only the mailboxes and time move.
LEMMA OnlyDropsKeeps ==
    ASSUME InboxInv, UNCHANGED <<world, deposit, recipient>>, today <= today', today' \in Day,
           BoxesSound', DropsOnly, AskShape', AsksAcknowledge'
    PROVE  InboxInv'
<1>1. SenderShape'
  <2>1. today \in Nat /\ today' \in Nat /\ SenderShape
    BY TimeIsTyped, Days DEF InboxInv, InboxShape, Day
  <2>2. \A i \in Ids : deposit[i].born \in Nat
    BY <2>1, Days DEF SenderShape, Deposits, Day
  <2> QED  BY <2>1, <2>2 DEF SenderShape
<1>2. Done' = Done
  BY DEF recipient, Done
<1>3. Custody'
  <2> SUFFICES ASSUME NEW j \in Ids, j \notin Done'
              PROVE  (deposit[j].told = "sent" /\ Lives(deposit[j].born) => HeldFor(j))'
    BY DEF Custody
  <2> QED  BY <1>2, CustodyKept
<1> QED  BY <1>1, <1>3, ElsewhereKeeps

LEMMA ReadKeeps == ASSUME InboxInv, NEW a \in asks, Read(a) PROVE InboxInv'
<1> DEFINE m == Pruned(mail[a.to])
           b == [a EXCEPT !.stage = "read", !.read = {e \in Serves(m, a.tokens) : e.id \in a.ids}]
<1>0. UNCHANGED <<world, today, deposit, recipient>>
  BY DEF Read
<1>1. mail' = [mail EXCEPT ![a.to] = m] /\ asks' = (asks \ {a}) \cup {b}
  BY DEF Read
<1>2. today \in Day /\ today \in Nat /\ BoxesSound /\ IsAsk(a) /\ a.ids \subseteq Done
  BY TimeIsTyped DEF InboxInv, InboxShape, AskShape, Acknowledged, AsksAcknowledge
<1>3. BoxesSound' /\ DropsOnly
  BY <1>1, <1>2, PruningKeeps DEF IsAsk
<1>4. Sound(m)
  BY <1>2, PrunedSound DEF BoxesSound, IsAsk
<1>5. IsAsk(b) /\ b.ids = a.ids /\ \A e \in b.read : e.id \in a.ids
  <2> DEFINE r == {e \in Serves(m, a.tokens) : e.id \in a.ids}
  <2>1. r \subseteq m.entries /\ m.entries \subseteq MailEntry
    BY <1>4 DEF Serves, Sound, Mailboxes
  <2>2. IsFiniteSet(r)
    BY <1>4, <2>1, FS_Subset DEF Sound
  <2>3. r \subseteq MailEntry /\ \A e \in r : e.id \in a.ids
    BY <2>1
  <2>4. b = [a EXCEPT !.stage = "read", !.read = r]
    OBVIOUS
  <2> HIDE DEF r, b
  <2>5. b = [to |-> a.to, ids |-> a.ids, tokens |-> a.tokens, no |-> a.no, stage |-> "read", read |-> r]
    BY <1>2, <2>4 DEF IsAsk
  <2> QED  BY <1>2, <2>2, <2>3, <2>5 DEF IsAsk
<1> HIDE DEF b
<1>6. AskShape'
  BY <1>1, <1>5 DEF InboxInv, InboxShape, AskShape, IsAsk
<1>7. AsksAcknowledge'
  <2>1. Done' = Done
    BY <1>0 DEF recipient, Done
  <2> QED  BY <1>1, <1>2, <1>5, <2>1 DEF InboxInv, Acknowledged, AsksAcknowledge
<1> QED  BY <1>0, <1>2, <1>3, <1>6, <1>7, OnlyDropsKeeps

LEMMA DeleteKeeps == ASSUME InboxInv, NEW a \in asks, Delete(a) PROVE InboxInv'
<1>0. UNCHANGED <<world, today, deposit, recipient>> /\ asks' = asks \ {a}
      /\ mail' = [mail EXCEPT ![a.to] = Remove(@, a.read)]
  BY DEF Delete
<1>1. today \in Day /\ today \in Nat /\ BoxesSound /\ IsAsk(a) /\ \A e \in a.read : e.id \in Done
  BY TimeIsTyped DEF InboxInv, InboxShape, AskShape, Acknowledged, AsksAcknowledge
<1>2. PICK u : u = Remove(mail[a.to], a.read)
  OBVIOUS
<1>3. a.to \in Holders /\ Sound(mail[a.to]) /\ IsFiniteSet(a.read)
  BY <1>1 DEF IsAsk, BoxesSound
<1>4. Sound(u) /\ u.entries = mail[a.to].entries \ a.read
  BY <1>2, <1>3, RemoveSound
<1>5. mail' = [mail EXCEPT ![a.to] = u]
  BY <1>0, <1>2
<1>6. BoxesSound' /\ mail'[a.to] = u /\ \A k \in Holders \ {a.to} : mail'[k] = mail[k]
  BY <1>1, <1>3, <1>4, <1>5, OneBox
<1>7. DropsOnly
  BY <1>1, <1>4, <1>6 DEF DropsOnly
<1>8. Done' = Done
  BY <1>0 DEF recipient, Done
<1>9. AskShape' /\ AsksAcknowledge'
  BY <1>0, <1>8 DEF InboxInv, InboxShape, AskShape, IsAsk, Acknowledged, AsksAcknowledge
<1> QED  BY <1>0, <1>1, <1>6, <1>7, <1>9, OnlyDropsKeeps

LEMMA NextDayKeeps == ASSUME InboxInv, NextDay PROVE InboxInv'
<1>0. UNCHANGED <<world, mail, deposit, asks, recipient>> /\ today < world.days /\ today' = today + 1
  BY DEF NextDay
<1>1. today \in Nat /\ world.days \in 0..MaxDay /\ BoxesSound
  BY TimeIsTyped DEF InboxInv, InboxShape, World
<1>2. today' \in Day /\ today <= today'
  BY <1>0, <1>1, Days DEF Day
<1>3. BoxesSound' /\ DropsOnly
  BY <1>0, <1>1, BoxesKept
<1>4. Done' = Done
  BY <1>0 DEF recipient, Done
<1>5. AskShape' /\ AsksAcknowledge'
  BY <1>0, <1>4, AsksKept
<1> QED  BY <1>0, <1>2, <1>3, <1>5, OnlyDropsKeeps

----------------------------------------------------------------------------
(* Steps of the recipient. *)

LEMMA RecipientStepKeeps ==
    ASSUME InboxInv, UNCHANGED <<world, today, deposit>>, BoxesSound', DropsOnly, Done \subseteq Done',
           AskShape', AsksAcknowledge', ReaderShape', PassesAcknowledge',
           (SeqSet(seen) \subseteq Done)', Receipted', OneDrain', Requested'
    PROVE  InboxInv'
<1>1. today \in Nat /\ today \in Day /\ SenderShape /\ world \in World
  BY TimeIsTyped DEF InboxInv, InboxShape
<1>2. SenderShape'
  BY <1>1 DEF SenderShape
<1>3. Custody'
  <2> SUFFICES ASSUME NEW j \in Ids, j \notin Done'
              PROVE  (deposit[j].told = "sent" /\ Lives(deposit[j].born) => HeldFor(j))'
    BY DEF Custody
  <2> QED  BY <1>1, CustodyKept
<1> QED  BY <1>1, <1>2, <1>3 DEF InboxInv, InboxShape, Acknowledged

\* A step of one drain.
LEMMA OnePass ==
    ASSUME pass \in [1..Passes -> PassStates], NEW n \in 1..Passes, NEW q \in PassStates,
           pass' = [pass EXCEPT ![n] = q]
    PROVE  /\ pass' \in [1..Passes -> PassStates] /\ pass'[n] = q
           /\ \A k \in 1..Passes \ {n} : pass'[k] = pass[k]
OBVIOUS

LEMMA PassFields ==
    ASSUME NEW q \in PassStates
    PROVE  /\ q.phase \in {"idle", "fetch", "apply", "left"} /\ q.tokens \subseteq Day /\ q.todo \subseteq Holders
           /\ q.got \subseteq Packet /\ q.here \subseteq Ids /\ q.acks \subseteq Ids
           /\ q.cur \in Ids \cup {"none"}
BY DEF PassStates

\* A pass begins without anything to acknowledge.
LEMMA ScanIsFresh ==
    ASSUME InboxShape, NEW full \in BOOLEAN
    PROVE  Scan(full) \in PassStates /\ Scan(full).acks = {} /\ Scan(full).cur = "none"
<1>1. world.known \subseteq Holders
  BY DEF InboxShape, World
<1>2. Tokens(Ttl) \subseteq Day /\ Tokens(Recent) \subseteq Day
  BY DEF Tokens
<1> QED  BY <1>1, <1>2 DEF Scan, NoPass, PassStates

LEMMA DrainKeeps == ASSUME InboxInv, NEW full \in BOOLEAN, Drain(full) PROVE InboxInv'
<1>0. UNCHANGED <<world, today, mail, deposit, asks, seen, applied, excused, spurned, counters>>
  BY DEF Drain
<1>1. BoxesSound' /\ DropsOnly /\ Done' = Done /\ AskShape' /\ AsksAcknowledge'
      /\ (SeqSet(seen) \subseteq Done)'
  <2>1. Done' = Done
    BY <1>0 DEF Done
  <2> QED  BY <1>0, <2>1, BoxesKept, AsksKept DEF InboxInv, InboxShape, Acknowledged, SeqSet
<1>2. InboxShape /\ ReaderShape /\ Receipted /\ OneDrain /\ Requested /\ PassesAcknowledge
  BY DEF InboxInv, InboxShape, Acknowledged
<1>3. CASE running # 0
  <2>1. /\ again' = (again \/ full) /\ UNCHANGED <<pass, running>>
        /\ (IF Leaving THEN UNCHANGED owed ELSE owed' = (owed \/ full))
    BY <1>3 DEF Drain, Coalesce
  <2>2. ReaderShape'
    BY <1>0, <1>2, <2>1 DEF ReaderShape
  <2>3. PassesAcknowledge' /\ Receipted' /\ OneDrain'
    BY <1>0, <1>1, <1>2, <2>1 DEF PassesAcknowledge, Receipted, OneDrain, HasSeen, SeqSet
  <2>4. Requested'
    BY <1>2, <1>3, <2>1 DEF Requested, Leaving
  <2> QED  BY <1>0, <1>1, <2>2, <2>3, <2>4, RecipientStepKeeps
<1>4. CASE running = 0
  <2>1. PICK n \in 1..Passes : /\ pass[n] = NoPass /\ running' = n
                               /\ pass' = [pass EXCEPT ![n] = Scan(full)]
                               /\ again' = FALSE /\ owed' = (owed /\ ~full)
    BY <1>4 DEF Drain
  <2>2. PICK q : q = Scan(full)
    OBVIOUS
  <2>3. q \in PassStates /\ q.acks = {} /\ q.cur = "none"
    BY <1>2, <2>2, ScanIsFresh
  <2>4. pass' \in [1..Passes -> PassStates] /\ pass'[n] = q /\ \A k \in 1..Passes \ {n} : pass'[k] = pass[k]
    BY <1>2, <2>1, <2>2, <2>3, OnePass DEF ReaderShape
  <2>5. ReaderShape'
    <3>1. running' \in 0..Passes
      BY <2>1, PassesAreBounded
    <3>2. again' \in BOOLEAN
      BY <2>1
    <3> QED  BY <1>0, <1>2, <2>4, <3>1, <3>2 DEF ReaderShape
  <2>6. PassesAcknowledge'
    BY <1>1, <1>2, <2>3, <2>4 DEF PassesAcknowledge
  <2>7. NoPass.cur = "none"
    BY DEF NoPass
  <2>8. Receipted'
    BY <1>0, <1>2, <2>1, <2>4, <2>7, NoneIsNoId DEF Receipted, HasSeen, SeqSet
  <2>9. OneDrain'
    BY <1>0, <1>2, <1>4, <2>1, <2>4 DEF OneDrain
  <2>10. ~owed
    BY <1>2, <1>4 DEF Requested
  <2>11. Requested'
    BY <2>1, <2>10 DEF Requested
  <2> QED  BY <1>0, <1>1, <2>5, <2>6, <2>8, <2>9, <2>11, RecipientStepKeeps
<1> QED  BY <1>3, <1>4

\* A step of a drain at work that leaves the other drains alone.
LEMMA AtWork ==
    ASSUME InboxInv, NEW n \in 1..Passes, pass[n].phase # "idle", NEW q \in PassStates,
           pass' = [pass EXCEPT ![n] = q], UNCHANGED <<running, excused>>
    PROVE  /\ OneDrain' /\ pass' \in [1..Passes -> PassStates] /\ pass'[n] = q
           /\ (\A k \in 1..Passes \ {n} : pass'[k] = pass[k])
           /\ Ids \subseteq excused \/ (n = running /\ \A k \in 1..Passes \ {n} : pass[k] = NoPass)
<1>1. /\ pass' \in [1..Passes -> PassStates] /\ pass'[n] = q
      /\ \A k \in 1..Passes \ {n} : pass'[k] = pass[k]
  BY OnePass DEF InboxInv, InboxShape, ReaderShape
<1>2. pass[n] # NoPass
  BY DEF NoPass
<1>3. Ids \subseteq excused \/ (n = running /\ \A k \in 1..Passes \ {n} : pass[k] = NoPass)
  BY <1>2 DEF InboxInv, OneDrain
<1>4. OneDrain'
  BY <1>1, <1>3 DEF OneDrain
<1> QED  BY <1>1, <1>3, <1>4

\* Only who finds no request leaves its loop.
LEMMA NobodyElseLeaves ==
    ASSUME NEW n \in 1..Passes, pass'[n].phase = "left" => pass[n].phase = "left",
           \A k \in 1..Passes \ {n} : pass'[k] = pass[k], Requested, UNCHANGED <<running, again, owed>>
    PROVE  Requested'
BY DEF Requested, Leaving

LEMMA FetchKeeps == ASSUME InboxInv, NEW n \in 1..Passes, NEW h \in Holders, Fetch(n, h) PROVE InboxInv'
<1> DEFINE m == Pruned(mail[h])
<1>0. /\ UNCHANGED <<world, today, deposit, asks, running, again, seen, applied, owed, missed, excused, spurned>>
      /\ pass[n].phase = "fetch"
  BY DEF Fetch
<1>1. PICK reached \in BOOLEAN :
        /\ mail' = IF reached /\ Allowed(pass[n].tokens) THEN [mail EXCEPT ![h] = m] ELSE mail
        /\ pass' = [pass EXCEPT ![n] =
              [pass[n] EXCEPT !.todo = @ \ {h},
                        !.phase = IF pass[n].todo = {h} THEN "apply" ELSE @,
                        !.got = @ \cup {[id |-> e.id, born |-> e.token, copy |-> e.copy] :
                                   e \in IF reached /\ Allowed(pass[n].tokens) THEN Serves(m, pass[n].tokens) ELSE {}}]]
  BY DEF Fetch
<1>2. BoxesSound /\ ReaderShape /\ pass[n] \in PassStates /\ Receipted /\ PassesAcknowledge /\ Requested
  BY DEF InboxInv, InboxShape, ReaderShape, Acknowledged
<1>3. BoxesSound' /\ DropsOnly
  BY <1>1, <1>2, PruningKeeps, BoxesKept
<1>4. PICK q : q = [pass[n] EXCEPT !.todo = @ \ {h},
                        !.phase = IF pass[n].todo = {h} THEN "apply" ELSE @,
                        !.got = @ \cup {[id |-> e.id, born |-> e.token, copy |-> e.copy] :
                                   e \in IF reached /\ Allowed(pass[n].tokens) THEN Serves(m, pass[n].tokens) ELSE {}}]
  OBVIOUS
<1>5. q \in PassStates /\ q.acks = pass[n].acks /\ q.cur = pass[n].cur /\ q.phase # "left"
  <2>1. m.entries \subseteq MailEntry
    BY <1>2, PrunedSound DEF BoxesSound, Sound, Mailboxes
  <2>2. PICK S : S = {[id |-> e.id, born |-> e.token, copy |-> e.copy] :
                        e \in IF reached /\ Allowed(pass[n].tokens) THEN Serves(m, pass[n].tokens) ELSE {}}
    OBVIOUS
  <2>3. S \subseteq Packet
    BY <2>1, <2>2 DEF Serves, MailEntry, Packet
  <2>4. q = [pass[n] EXCEPT !.todo = @ \ {h}, !.phase = IF pass[n].todo = {h} THEN "apply" ELSE @, !.got = @ \cup S]
    BY <1>4, <2>2
  <2> QED  BY <1>0, <1>2, <2>3, <2>4 DEF PassStates
<1>6. pass' = [pass EXCEPT ![n] = q]
  BY <1>1, <1>4
<1>7. OneDrain' /\ pass' \in [1..Passes -> PassStates] /\ pass'[n] = q
      /\ \A k \in 1..Passes \ {n} : pass'[k] = pass[k]
  BY <1>0, <1>5, <1>6, AtWork
<1>8. Done' = Done /\ \A k \in 1..Passes : pass'[k].acks = pass[k].acks /\ pass'[k].cur = pass[k].cur
  BY <1>0, <1>5, <1>7 DEF Done
<1>9. ReaderShape' /\ PassesAcknowledge' /\ Requested' /\ (SeqSet(seen) \subseteq Done)'
  <2>0. pass'[n].phase # "left" /\ UNCHANGED <<running, again, owed>>
    BY <1>0, <1>5, <1>7
  <2>1. Requested'
    BY <1>2, <1>7, <2>0, NobodyElseLeaves
  <2> QED  BY <1>0, <1>2, <1>7, <1>8, <2>0, <2>1 DEF ReaderShape, PassesAcknowledge, SeqSet, InboxInv, Acknowledged
<1>10. Receipted'
  BY <1>0, <1>2, <1>8 DEF Receipted, HasSeen, SeqSet
<1>11. AskShape' /\ AsksAcknowledge'
  BY <1>0, <1>8, AsksKept
<1> QED  BY <1>0, <1>3, <1>7, <1>8, <1>9, <1>10, <1>11, RecipientStepKeeps

LEMMA NextPacketKeeps ==
    ASSUME InboxInv, NEW n \in 1..Passes, NEW k \in pass[n].got, NextPacket(n, k)
    PROVE  InboxInv'
<1> DEFINE p == pass[n]
<1>0. /\ UNCHANGED <<world, today, mail, deposit, asks, running, again, seen, owed, excused>>
      /\ p.phase = "apply" /\ p.cur = "none"
  BY DEF NextPacket
<1>1. BoxesSound /\ ReaderShape /\ p \in PassStates /\ Receipted /\ PassesAcknowledge /\ Requested
      /\ SeqSet(seen) \subseteq Done /\ applied \in [Ids -> 0..2]
  BY DEF InboxInv, InboxShape, ReaderShape, Acknowledged
<1>2. k.id \in Ids
  BY <1>1 DEF PassStates, Packet
<1>3. BoxesSound' /\ DropsOnly
  BY <1>0, <1>1, BoxesKept
<1>4. PICK q \in PassStates :
        /\ pass' = [pass EXCEPT ![n] = q] /\ q.phase = "apply"
        /\ \/ q.acks = p.acks /\ q.cur = "none" /\ UNCHANGED <<applied, spurned>>
           \/ /\ q.acks = p.acks \cup {k.id} /\ q.cur = "none" /\ UNCHANGED applied
              /\ spurned' = spurned \cup (IF HasSeen(k.id) THEN {} ELSE {k.id})
           \/ /\ q.acks = p.acks /\ q.cur = k.id /\ UNCHANGED spurned /\ ~HasSeen(k.id)
              /\ applied' = [applied EXCEPT ![k.id] = IF @ < 2 THEN @ + 1 ELSE @]
  <2> DEFINE rest == [p EXCEPT !.got = @ \ {k}]
             tried == [rest EXCEPT !.here = @ \cup {k.id}]
             acked == [rest EXCEPT !.acks = @ \cup {k.id}]
             taken == [tried EXCEPT !.cur = k.id]
  <2>1. rest \in PassStates /\ rest.acks = p.acks /\ rest.cur = "none" /\ rest.phase = "apply"
    BY <1>0, <1>1 DEF PassStates
  <2>2. tried \in PassStates /\ tried.acks = p.acks /\ tried.cur = "none" /\ tried.phase = "apply"
    BY <1>2, <2>1 DEF PassStates
  <2>3. acked \in PassStates /\ acked.acks = p.acks \cup {k.id} /\ acked.cur = "none" /\ acked.phase = "apply"
    BY <1>2, <2>1 DEF PassStates
  <2>4. taken \in PassStates /\ taken.acks = p.acks /\ taken.cur = k.id /\ taken.phase = "apply"
    BY <1>2, <2>2 DEF PassStates
  <2>5. \/ pass' = [pass EXCEPT ![n] = rest] /\ UNCHANGED <<applied, spurned>>
        \/ /\ pass' = [pass EXCEPT ![n] = acked] /\ UNCHANGED applied
           /\ spurned' = spurned \cup (IF HasSeen(k.id) THEN {} ELSE {k.id})
        \/ pass' = [pass EXCEPT ![n] = tried] /\ UNCHANGED <<applied, spurned>>
        \/ /\ pass' = [pass EXCEPT ![n] = taken] /\ UNCHANGED spurned /\ ~HasSeen(k.id)
           /\ applied' = [applied EXCEPT ![k.id] = IF @ < 2 THEN @ + 1 ELSE @]
    BY DEF NextPacket, Skips
  <2> HIDE DEF rest, tried, acked, taken
  <2> QED  BY <2>1, <2>2, <2>3, <2>4, <2>5
<1>5. OneDrain' /\ pass' \in [1..Passes -> PassStates] /\ pass'[n] = q
      /\ (\A j \in 1..Passes \ {n} : pass'[j] = pass[j])
      /\ (Ids \subseteq excused \/ (n = running /\ \A j \in 1..Passes \ {n} : pass[j] = NoPass))
  BY <1>0, <1>4, AtWork
<1>6. applied' \in [Ids -> 0..2] /\ Done \subseteq Done'
      /\ (q.acks \subseteq Done') /\ (q.cur \in Done' \cup {"none"})
  <2>1. p.acks \subseteq Done
    BY <1>1 DEF PassesAcknowledge
  <2>2. CASE q.acks = p.acks /\ q.cur = "none" /\ UNCHANGED <<applied, spurned>>
    BY <1>1, <2>1, <2>2 DEF Done
  <2>3. CASE /\ q.acks = p.acks \cup {k.id} /\ q.cur = "none" /\ UNCHANGED applied
             /\ spurned' = spurned \cup (IF HasSeen(k.id) THEN {} ELSE {k.id})
    BY <1>1, <1>2, <2>1, <2>3 DEF Done, HasSeen
  <2>4. CASE /\ q.acks = p.acks /\ q.cur = k.id /\ UNCHANGED spurned
             /\ applied' = [applied EXCEPT ![k.id] = IF @ < 2 THEN @ + 1 ELSE @]
    <3>1. applied' \in [Ids -> 0..2] /\ applied'[k.id] > 0 /\ \A i \in Ids \ {k.id} : applied'[i] = applied[i]
      BY <1>1, <1>2, <2>4
    <3>2. Done \subseteq Done' /\ k.id \in Done'
      BY <1>2, <2>4, <3>1 DEF Done
    <3> QED  BY <2>1, <2>4, <3>1, <3>2
  <2> QED  BY <1>4, <2>2, <2>3, <2>4
<1>7. ReaderShape'
  BY <1>0, <1>1, <1>5, <1>6 DEF ReaderShape
<1>8. PassesAcknowledge' /\ (SeqSet(seen) \subseteq Done)' /\ Requested'
  <2>0. pass'[n].phase # "left" /\ UNCHANGED <<running, again, owed>>
    BY <1>0, <1>4, <1>5
  <2>1. Requested'
    BY <1>1, <1>5, <2>0, NobodyElseLeaves
  <2> QED  BY <1>0, <1>1, <1>5, <1>6, <2>0, <2>1 DEF PassesAcknowledge, SeqSet
<1>9. AskShape' /\ AsksAcknowledge'
  BY <1>0, <1>6, AsksKept
<1>10. Receipted'
  <2> SUFFICES ASSUME NEW i \in Ids \ excused
               PROVE  /\ applied'[i] < 2
                      /\ applied'[i] = 1 => HasSeen(i)' \/ \E j \in 1..Passes : pass'[j].cur = i
    BY <1>0 DEF Receipted
  <2>1. applied[i] < 2 /\ (applied[i] = 1 => HasSeen(i) \/ \E j \in 1..Passes : pass[j].cur = i)
    BY <1>1 DEF Receipted
  <2>2. i # "none" /\ HasSeen(i)' = HasSeen(i)
    BY <1>0, NoneIsNoId DEF HasSeen, SeqSet
  <2>3. \A j \in 1..Passes : pass[j].cur = i => j # n /\ pass'[j].cur = i
    BY <1>0, <1>5, <2>2
  <2>4. CASE applied'[i] = applied[i]
    BY <2>1, <2>2, <2>3, <2>4
  <2>5. CASE applied'[i] # applied[i]
    <3>1. i = k.id /\ q.cur = i /\ ~HasSeen(i) /\ applied'[i] = applied[i] + 1
      BY <1>1, <1>2, <1>4, <2>5
    <3>2. ~\E j \in 1..Passes : pass[j].cur = i
      <4>1. NoPass.cur = "none"
        BY DEF NoPass
      <4> QED  BY <1>0, <1>5, <2>2, <4>1
    <3>3. applied[i] # 1 /\ applied[i] \in 0..2
      BY <1>1, <2>1, <3>1, <3>2
    <3> QED  BY <1>5, <2>1, <3>1, <3>3
  <2> QED  BY <2>4, <2>5
<1> QED  BY <1>0, <1>3, <1>5, <1>6, <1>7, <1>8, <1>9, <1>10, RecipientStepKeeps

\* A new receipt is kept, and only old ones are pushed out.
LEMMA NewReceipt ==
    ASSUME NEW s \in Seq(Ids), NEW i \in Ids, NEW t, t = Receipts(Append(s, i))
    PROVE  t \in Seq(Ids) /\ Len(t) <= SeenCap /\ i \in SeqSet(t) /\ SeqSet(t) \subseteq SeqSet(s) \cup {i}
<1>1. PICK a : a = Append(s, i)
  OBVIOUS
<1>2. a \in Seq(Ids) /\ Len(a) \in Nat /\ Len(a) >= 1 /\ a[Len(a)] = i
      /\ \A k \in 1..Len(a) : a[k] = i \/ \E j \in 1..Len(s) : s[j] = a[k]
  BY <1>1
<1>3. SeenCap \in Nat /\ SeenCap >= 1
  BY Caps
<1>4. CASE Len(a) <= SeenCap
  <2>1. t = a
    BY <1>1, <1>2, <1>3, <1>4 DEF Receipts
  <2> QED  BY <1>2, <1>4, <2>1 DEF SeqSet
<1>5. CASE Len(a) > SeenCap
  <2>1. PICK f : f = Len(a) - SeenCap + 1
    OBVIOUS
  <2>2. f \in 1..Len(a) /\ Len(a) - f + 1 = SeenCap
    BY <1>2, <1>3, <1>5, <2>1
  <2>3. t = SubSeq(a, f, Len(a))
    BY <1>1, <1>5, <2>1 DEF Receipts
  <2>4. t \in Seq(Ids) /\ Len(t) = SeenCap /\ \A k \in 1..SeenCap : t[k] = a[f + k - 1]
    BY <1>2, <2>2, <2>3, SubSeqProperties
  <2>5. t[SeenCap] = i
    BY <1>2, <1>3, <2>1, <2>4
  <2>6. \A k \in 1..SeenCap : f + k - 1 \in 1..Len(a)
    BY <1>2, <1>3, <1>5, <2>1
  <2>7. \A k \in 1..SeenCap : t[k] = i \/ \E j \in 1..Len(s) : s[j] = t[k]
    BY <1>2, <2>4, <2>6
  <2>8. SeqSet(t) \subseteq SeqSet(s) \cup {i} /\ i \in SeqSet(t)
    BY <1>3, <2>4, <2>5, <2>7 DEF SeqSet
  <2> QED  BY <1>3, <2>4, <2>8
<1> QED  BY <1>2, <1>3, <1>4, <1>5

LEMMA MarkKeeps == ASSUME InboxInv, NEW n \in 1..Passes, Mark(n) PROVE InboxInv'
<1> DEFINE p == pass[n]
           i == p.cur
<1>0. /\ UNCHANGED <<world, today, mail, deposit, asks, running, again, applied, owed, spurned>> /\ i # "none"
      /\ seen' = IF HasSeen(i) THEN seen ELSE Receipts(Append(seen, i))
      /\ excused' = excused \cup (SeqSet(seen) \ SeqSet(seen'))
      /\ pass' = [pass EXCEPT ![n].cur = "none", ![n].acks = @ \cup {i}]
  BY DEF Mark
<1>1. BoxesSound /\ ReaderShape /\ p \in PassStates /\ Receipted /\ PassesAcknowledge /\ Requested
      /\ SeqSet(seen) \subseteq Done /\ pass \in [1..Passes -> PassStates]
  BY DEF InboxInv, InboxShape, ReaderShape, Acknowledged
<1>2. i \in Ids /\ i \in Done
  BY <1>0, <1>1 DEF PassesAcknowledge, Done
<1>3. BoxesSound' /\ DropsOnly /\ Done' = Done
  BY <1>0, <1>1, BoxesKept DEF Done
<1>4. seen' \in Seq(Ids) /\ Len(seen') <= SeenCap /\ i \in SeqSet(seen') /\ SeqSet(seen') \subseteq SeqSet(seen) \cup {i}
  <2>1. CASE HasSeen(i)
    BY <1>0, <1>1, <2>1 DEF HasSeen, ReaderShape
  <2>2. CASE ~HasSeen(i)
    <3>1. seen \in Seq(Ids) /\ seen' = Receipts(Append(seen, i))
      BY <1>0, <1>1, <2>2 DEF ReaderShape
    <3> QED  BY <1>2, <3>1, NewReceipt
  <2> QED  BY <2>1, <2>2
<1>5. /\ pass' \in [1..Passes -> PassStates] /\ pass'[n].acks = p.acks \cup {i} /\ pass'[n].cur = "none"
      /\ pass'[n] # NoPass /\ pass'[n].phase = pass[n].phase
      /\ \A j \in 1..Passes \ {n} : pass'[j] = pass[j]
  <2> DEFINE q == [p EXCEPT !.cur = "none", !.acks = @ \cup {i}]
  <2>1. pass' = [pass EXCEPT ![n] = q]
    BY <1>0, <1>1
  <2>2. q \in PassStates /\ q.acks = p.acks \cup {i} /\ q.cur = "none" /\ q.phase = pass[n].phase
    BY <1>1, <1>2 DEF PassStates
  <2>3. q # NoPass
    BY <2>2 DEF NoPass
  <2> HIDE DEF q
  <2> QED  BY <1>1, <2>1, <2>2, <2>3, OnePass
<1> HIDE DEF p
<1>6. OneDrain'
  <2>1. pass[n] # NoPass
    BY <1>0 DEF NoPass, p
  <2>2. Ids \subseteq excused \/ \A j \in 1..Passes : pass[j] # NoPass => j = running
    BY DEF InboxInv, OneDrain
  <2> QED  BY <1>0, <1>5, <2>1, <2>2 DEF OneDrain
<1>7. ReaderShape' /\ PassesAcknowledge' /\ (SeqSet(seen) \subseteq Done)' /\ Requested'
  <2>1. p.acks \subseteq Done
    BY <1>1 DEF PassesAcknowledge, p
  <2>2. Requested'
    BY <1>0, <1>1, <1>5, NobodyElseLeaves
  <2> QED  BY <1>0, <1>1, <1>2, <1>3, <1>4, <1>5, <2>1, <2>2 DEF ReaderShape, PassesAcknowledge
<1>8. AskShape' /\ AsksAcknowledge'
  BY <1>0, <1>3, AsksKept
<1>9. Receipted'
  <2> SUFFICES ASSUME NEW j \in Ids \ excused'
               PROVE  /\ applied[j] < 2
                      /\ applied[j] = 1 => HasSeen(j)' \/ \E k \in 1..Passes : pass'[k].cur = j
    BY <1>0 DEF Receipted
  <2>1. j \in Ids \ excused /\ (HasSeen(j) => HasSeen(j)')
    BY <1>0 DEF HasSeen
  <2>2. applied[j] < 2 /\ (applied[j] = 1 => HasSeen(j) \/ \E k \in 1..Passes : pass[k].cur = j)
    BY <1>1, <2>1 DEF Receipted
  <2>3. \A k \in 1..Passes : pass[k].cur = j => HasSeen(j)' \/ pass'[k].cur = j
    BY <1>4, <1>5 DEF p, HasSeen
  <2> QED  BY <2>1, <2>2, <2>3
<1> QED  BY <1>0, <1>3, <1>6, <1>7, <1>8, <1>9, RecipientStepKeeps

LEMMA FinishKeeps == ASSUME InboxInv, NEW n \in 1..Passes, Finish(n) PROVE InboxInv'
<1> DEFINE p == pass[n]
<1>0. /\ UNCHANGED <<world, today, mail, deposit, seen, applied, excused, spurned>>
      /\ p.phase = "apply" /\ p.cur = "none" /\ again' = FALSE
      /\ UNCHANGED running
      /\ \/ again /\ pass' = [pass EXCEPT ![n] = Scan(TRUE)] /\ owed' = FALSE
         \/ ~again /\ pass' = [pass EXCEPT ![n] = [NoPass EXCEPT !.phase = "left"]] /\ UNCHANGED owed
  BY DEF Finish
<1>1. PICK reached \in SUBSET world.known :
        asks' = asks \cup {[to |-> h, ids |-> p.acks, tokens |-> p.tokens, no |-> FreshAsk(h),
                            stage |-> "sent", read |-> {}] : h \in reached}
  BY DEF Finish
<1>2. BoxesSound /\ ReaderShape /\ p \in PassStates /\ Receipted /\ PassesAcknowledge /\ Requested
      /\ SeqSet(seen) \subseteq Done /\ pass \in [1..Passes -> PassStates] /\ InboxShape
      /\ AskShape /\ AsksAcknowledge
  BY DEF InboxInv, InboxShape, ReaderShape, Acknowledged
<1>3. BoxesSound' /\ DropsOnly /\ Done' = Done
  BY <1>0, <1>2, BoxesKept DEF Done
<1>4. PICK q \in PassStates : pass' = [pass EXCEPT ![n] = q] /\ q.acks = {} /\ q.cur = "none"
  <2> DEFINE out == [NoPass EXCEPT !.phase = "left"]
  <2>1. out \in PassStates /\ out.acks = {} /\ out.cur = "none"
    BY DEF NoPass, PassStates
  <2> HIDE DEF out
  <2> QED  BY <1>0, <1>2, <2>1, ScanIsFresh DEF out
<1>5. pass' \in [1..Passes -> PassStates] /\ pass'[n] = q /\ \A k \in 1..Passes \ {n} : pass'[k] = pass[k]
  BY <1>2, <1>4, OnePass
<1>6. PICK acks, tokens : acks = p.acks /\ tokens = p.tokens /\ acks \subseteq Ids /\ tokens \subseteq Day /\ acks \subseteq Done
  BY <1>2 DEF PassStates, PassesAcknowledge
<1>7. \A a \in asks' : a \in asks \/ (IsAsk(a) /\ a.ids \subseteq Done /\ a.read = {})
  <2> SUFFICES ASSUME NEW h \in reached, NEW a,
                      a = [to |-> h, ids |-> acks, tokens |-> tokens, no |-> FreshAsk(h),
                            stage |-> "sent", read |-> {}]
               PROVE  IsAsk(a) /\ a.ids \subseteq Done /\ a.read = {}
    BY <1>1, <1>6
  <2>1. h \in Holders
    BY <1>2 DEF InboxShape, World
  <2>2. IsFiniteSet({})
    BY FS_EmptySet
  <2> QED  BY <1>6, <2>1, <2>2 DEF IsAsk
<1>8. AskShape' /\ AsksAcknowledge'
  BY <1>2, <1>3, <1>7 DEF AskShape, AsksAcknowledge, IsAsk
<1>9. ReaderShape' /\ PassesAcknowledge' /\ (SeqSet(seen) \subseteq Done)'
  <2>1. running' \in 0..Passes
    BY <1>0, <1>2 DEF ReaderShape
  <2>2. again' \in BOOLEAN
    BY <1>0
  <2>3. ReaderShape'
    BY <1>0, <1>2, <1>5, <2>1, <2>2 DEF ReaderShape
  <2>4. PassesAcknowledge' /\ (SeqSet(seen) \subseteq Done)'
    BY <1>0, <1>2, <1>3, <1>4, <1>5 DEF PassesAcknowledge, SeqSet
  <2> QED  BY <2>3, <2>4
<1>10. Requested'
  <2>1. ~owed'
    BY <1>0, <1>2 DEF Requested
  <2> QED  BY <2>1 DEF Requested
<1>11. Ids \subseteq excused \/ (n = running /\ \A k \in 1..Passes \ {n} : pass[k] = NoPass)
  <2>1. pass[n] # NoPass
    BY <1>0 DEF NoPass
  <2> QED  BY <2>1 DEF InboxInv, OneDrain
<1>12. OneDrain'
  BY <1>0, <1>4, <1>5, <1>11 DEF OneDrain
<1>13. Receipted'
  <2>1. \A i \in Ids : \A k \in 1..Passes : pass[k].cur = i => pass'[k].cur = i
    BY <1>0, <1>5, NoneIsNoId
  <2> QED  BY <1>0, <1>2, <2>1 DEF Receipted, HasSeen, SeqSet
<1> QED  BY <1>0, <1>3, <1>8, <1>9, <1>10, <1>12, <1>13, RecipientStepKeeps

LEMMA SettleKeeps == ASSUME InboxInv, NEW n \in 1..Passes, Settle(n) PROVE InboxInv'
<1>0. /\ UNCHANGED <<world, today, mail, deposit, asks, again, seen, applied, owed, excused, spurned>>
      /\ pass[n].phase = "left" /\ running' = 0 /\ pass' = [pass EXCEPT ![n] = NoPass]
  BY DEF Settle
<1>1. BoxesSound /\ ReaderShape /\ Receipted /\ PassesAcknowledge /\ Requested
      /\ SeqSet(seen) \subseteq Done /\ pass \in [1..Passes -> PassStates]
  BY DEF InboxInv, InboxShape, ReaderShape, Acknowledged
<1>2. BoxesSound' /\ DropsOnly /\ Done' = Done
  BY <1>0, <1>1, BoxesKept DEF Done
<1>3. AskShape' /\ AsksAcknowledge'
  BY <1>0, <1>2, AsksKept
<1>4. NoPass.acks = {} /\ NoPass.cur = "none"
  BY DEF NoPass
<1>5. pass' \in [1..Passes -> PassStates] /\ pass'[n] = NoPass /\ \A k \in 1..Passes \ {n} : pass'[k] = pass[k]
  BY <1>0, <1>1, NotAPass, OnePass
<1>6. ReaderShape'
  <2>1. running' \in 0..Passes
    BY <1>0, PassesAreBounded
  <2> QED  BY <1>0, <1>1, <1>5, <2>1 DEF ReaderShape
<1>7. PassesAcknowledge' /\ (SeqSet(seen) \subseteq Done)'
  BY <1>0, <1>1, <1>2, <1>4, <1>5 DEF PassesAcknowledge, SeqSet
<1>8. Requested'
  BY <1>0, <1>1 DEF Requested, Leaving
<1>9. OneDrain'
  <2>1. pass[n] # NoPass
    BY <1>0 DEF NoPass
  <2> QED  BY <1>0, <1>5, <2>1 DEF InboxInv, OneDrain
<1>10. Receipted'
  <2> SUFFICES ASSUME NEW i \in Ids \ excused, applied[i] = 1, ~HasSeen(i)
               PROVE  \E k \in 1..Passes : pass'[k].cur = i
    BY <1>0, <1>1 DEF Receipted, HasSeen, SeqSet
  <2>1. PICK k \in 1..Passes : pass[k].cur = i
    BY <1>1 DEF Receipted
  <2>2. CASE k # n
    BY <1>5, <2>1, <2>2
  <2>3. CASE k = n
    BY <1>0, <1>1, <2>1, <2>3, NoneIsNoId DEF PassesAcknowledge
  <2> QED  BY <2>2, <2>3
<1> QED  BY <1>0, <1>2, <1>3, <1>6, <1>7, <1>8, <1>9, <1>10, RecipientStepKeeps

LEMMA CrashKeeps == ASSUME InboxInv, Crash PROVE InboxInv'
<1>0. /\ UNCHANGED <<world, today, mail, deposit, seen, applied, spurned>>
      /\ excused' = excused \cup ({pass[n].cur : n \in 1..Passes} \ {"none"})
      /\ pass' = [n \in 1..Passes |-> NoPass]
      /\ running' = 0 /\ again' = FALSE /\ owed' = FALSE
      /\ asks' = {a \in asks : a.stage = "read"}
  BY DEF Crash
<1>1. BoxesSound /\ ReaderShape /\ Receipted /\ SeqSet(seen) \subseteq Done /\ AskShape /\ AsksAcknowledge
  BY DEF InboxInv, InboxShape, Acknowledged
<1>2. BoxesSound' /\ DropsOnly /\ Done' = Done
  BY <1>0, <1>1, BoxesKept DEF Done
<1>3. AskShape' /\ AsksAcknowledge'
  BY <1>0, <1>1, <1>2 DEF AskShape, AsksAcknowledge, IsAsk
<1>4. NoPass.acks = {} /\ NoPass.cur = "none" /\ NoPass \in PassStates
  BY NotAPass DEF NoPass
<1>5. ReaderShape'
  <2>1. running' \in 0..Passes
    BY <1>0, PassesAreBounded
  <2>2. again' \in BOOLEAN
    BY <1>0
  <2> QED  BY <1>0, <1>1, <1>4, <2>1, <2>2 DEF ReaderShape
<1>6. PassesAcknowledge' /\ (SeqSet(seen) \subseteq Done)' /\ OneDrain' /\ Requested'
  BY <1>0, <1>1, <1>2, <1>4 DEF PassesAcknowledge, SeqSet, OneDrain, Requested
<1>7. Receipted'
  <2> SUFFICES ASSUME NEW i \in Ids \ excused'
               PROVE  applied[i] < 2 /\ (applied[i] = 1 => HasSeen(i))
    BY <1>0 DEF Receipted, HasSeen, SeqSet
  <2>1. i \in Ids \ excused /\ ~\E n \in 1..Passes : pass[n].cur = i
    BY <1>0, NoneIsNoId
  <2> QED  BY <1>1, <2>1 DEF Receipted
<1> QED  BY <1>0, <1>2, <1>3, <1>5, <1>6, <1>7, RecipientStepKeeps

LEMMA ResetKeeps == ASSUME InboxInv, Reset PROVE InboxInv'
<1>0. /\ UNCHANGED <<world, today, mail, deposit, asks, pass, seen, applied, spurned>>
      /\ running' = 0 /\ again' = FALSE /\ owed' = FALSE
      /\ excused' = excused \cup (IF running # 0 THEN Ids ELSE {})
  BY DEF Reset
<1>1. BoxesSound /\ ReaderShape /\ Receipted /\ OneDrain /\ SeqSet(seen) \subseteq Done /\ PassesAcknowledge
  BY DEF InboxInv, InboxShape, Acknowledged
<1>2. BoxesSound' /\ DropsOnly /\ Done' = Done
  BY <1>0, <1>1, BoxesKept DEF Done
<1>3. AskShape' /\ AsksAcknowledge'
  BY <1>0, <1>2, AsksKept
<1>4. ReaderShape'
  <2>1. running' \in 0..Passes
    BY <1>0, PassesAreBounded
  <2>2. again' \in BOOLEAN
    BY <1>0
  <2> QED  BY <1>0, <1>1, <2>1, <2>2 DEF ReaderShape
<1>5. PassesAcknowledge' /\ (SeqSet(seen) \subseteq Done)' /\ OneDrain' /\ Requested'
  BY <1>0, <1>1, <1>2 DEF PassesAcknowledge, SeqSet, OneDrain, Requested
<1>6. Receipted'
  BY <1>0, <1>1 DEF Receipted, HasSeen, SeqSet
<1> QED  BY <1>0, <1>2, <1>3, <1>4, <1>5, <1>6, RecipientStepKeeps

----------------------------------------------------------------------------
(* The inbox: theorems. *)

LEMMA InboxStep == InboxInv /\ [InboxNext]_inboxVars => InboxInv'
<1> SUFFICES ASSUME InboxInv, [InboxNext]_inboxVars PROVE InboxInv'
  OBVIOUS
<1>1. ASSUME NEW i \in Ids, Begin(i) \/ SenderCrash(i) \/ \E h \in Holders : Attempt(i, h) PROVE InboxInv'
  BY <1>1, BeginKeeps, SenderCrashKeeps, AttemptKeeps
<1>2. ASSUME NEW full \in BOOLEAN, Drain(full) PROVE InboxInv'
  BY <1>2, DrainKeeps
<1>3. ASSUME NEW n \in 1..Passes,
             \/ \E h \in Holders : Fetch(n, h)
             \/ \E k \in pass[n].got : NextPacket(n, k)
             \/ Mark(n) \/ Finish(n) \/ Settle(n)
      PROVE  InboxInv'
  BY <1>3, FetchKeeps, NextPacketKeeps, MarkKeeps, FinishKeeps, SettleKeeps
<1>4. ASSUME NEW a \in asks, Read(a) \/ Delete(a) PROVE InboxInv'
  BY <1>4, ReadKeeps, DeleteKeeps
<1>5. CASE NextDay \/ Crash \/ Reset
  BY <1>5, NextDayKeeps, CrashKeeps, ResetKeeps
<1>6. CASE UNCHANGED inboxVars
  <2>1. UNCHANGED <<world, today, deposit, mail, asks, recipient>>
    BY <1>6 DEF inboxVars
  <2>2. Done' = Done /\ BoxesSound /\ today \in Day /\ today \in Nat
    BY <2>1, TimeIsTyped DEF recipient, Done, InboxInv, InboxShape
  <2>3. BoxesSound' /\ DropsOnly /\ AskShape' /\ AsksAcknowledge'
    BY <2>1, <2>2, BoxesKept, AsksKept
  <2> QED  BY <2>1, <2>2, <2>3, OnlyDropsKeeps
<1> QED  BY <1>1, <1>2, <1>3, <1>4, <1>5, <1>6 DEF InboxNext

LEMMA InboxAlways == InboxSpec => []InboxInv
<1> QED  BY InboxStarts, InboxStep, PTL DEF InboxSpec

\* What was reported as sent stays in custody until it takes effect, unless one copy of it
\* was refused and another one met in the same drain: in any number of days, with any
\* holders, quotas, acknowledgements under way, closed tabs and repeated deposits.
THEOREM SentStaysInCustody == InboxSpec => []SentIsInCustody
<1>1. InboxInv => SentIsInCustody
  <2> SUFFICES ASSUME InboxInv, NEW i \in Ids, AwaitsEffect(i), i \notin spurned
               PROVE  InCustody(i)
    BY DEF SentIsInCustody
  <2>1. /\ deposit[i] \in Deposits /\ deposit[i].born <= today /\ BoxesSound /\ applied[i] \in 0..2
        /\ deposit[i].told = "sent" /\ Lives(deposit[i].born) /\ applied[i] = 0
    BY DEF InboxInv, InboxShape, SenderShape, ReaderShape, AwaitsEffect
  <2>2. i \in Ids \ Done
    BY <2>1 DEF Done
  <2>h. PICK h \in world.known : \E e \in mail[h].entries : e.id = i /\ e.token = deposit[i].born
    BY <2>1, <2>2 DEF InboxInv, Custody, HeldFor
  <2>3. PICK e \in mail[h].entries : e.id = i /\ e.token = deposit[i].born
    BY <2>h
  <2>4. h \in Holders /\ Sound(mail[h])
    BY <2>1 DEF InboxInv, InboxShape, World, BoxesSound
  <2>5. /\ today \in Nat /\ deposit[i].born \in Day /\ deposit[i].born \in Nat /\ Ttl \in Nat /\ Retention \in Nat
        /\ e.token <= e.stored /\ e.stored \in Nat
    BY <2>1, <2>4, TimeIsTyped, Days DEF Deposits, Sound, Mailboxes, MailEntry, Day
  <2>6. e \notin Expired(mail[h])
    BY <2>1, <2>3, <2>5, RetentionOutlivesPackets DEF Expired, Lives
  <2>7. e \in Pruned(mail[h]).entries
    BY <2>4, <2>6, PrunedSound
  <2>8. e.token \in Tokens(Ttl)
    BY <2>1, <2>3, <2>5 DEF Tokens, Lives
  <2> QED  BY <2>3, <2>7, <2>8 DEF InCustody, Serves
<1> QED  BY <1>1, InboxAlways, PTL

\* An operation takes effect once, but for the exceptions AppliedOnce names.
THEOREM EffectsAreNotRepeated == InboxSpec => []AppliedOnce
<1>1. InboxInv => AppliedOnce
  <2> SUFFICES ASSUME InboxInv, NEW i \in Ids, applied[i] > 1, i \notin excused PROVE FALSE
    BY DEF AppliedOnce
  <2>1. applied[i] < 2 /\ applied[i] \in 0..2
    BY DEF InboxInv, InboxShape, ReaderShape, Receipted
  <2> QED  BY <2>1
<1> QED  BY <1>1, InboxAlways, PTL

\* A full window asked for while a drain is in its loop is owed by a drain that runs and will
\* scan it; one asked for while a drain is being left may not be (EveryFullWindowIsScanned).
THEOREM FullWindowsAreScanned == InboxSpec => []FullWindowIsScanned
<1>1. InboxInv => FullWindowIsScanned
  BY DEF InboxInv, Requested, FullWindowIsScanned
<1> QED  BY <1>1, InboxAlways, PTL

\* A holder never accounts for more than it stores.
THEOREM QuotaIsNotLost == InboxSpec => []NoPhantomUsage
<1>1. InboxInv => NoPhantomUsage
  BY DEF InboxInv, InboxShape, BoxesSound, Sound, NoPhantomUsage
<1> QED  BY <1>1, InboxAlways, PTL
=============================================================================
