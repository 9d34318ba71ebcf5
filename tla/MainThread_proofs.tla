-------------------------- MODULE MainThread_proofs --------------------------
(***************************************************************************)
(* Theorems about MainThread, for any threads, kinds of job, plugin calls  *)
(* and bounds.  First the types, the count and the borrow flags; then the  *)
(* places of the jobs: every posted job is in one place and started at     *)
(* most once, and one that is posted while a drain runs waits for the      *)
(* next; where only the tick drains, the queue implements JobQueue and     *)
(* jobs start in the order of their posting.                               *)
(***************************************************************************)
EXTENDS MainThread, SequenceTheorems, FiniteSetTheorems, TLAPS

(***************************************************************************)
(* Lemmas on the main thread's stack.                                      *)
(***************************************************************************)

\* Dropping the innermost frames of a stack leaves a stack.
LEMMA PrefixOfStack ==
  ASSUME NEW S, NEW s \in Seq(S), NEW n \in 0 .. Len(s)
  PROVE  /\ SubSeq(s, 1, n) \in Seq(S)
         /\ Len(SubSeq(s, 1, n)) = n
         /\ \A i \in 1 .. n : SubSeq(s, 1, n)[i] = s[i]
  BY SubSeqProperties, LenProperties

\* Setting the innermost frame of a nonempty stack replaces one frame.
LEMMA SetFrame ==
  ASSUME NEW S, NEW s \in Seq(S), NEW n \in 1 .. Len(s), NEW f \in S
  PROVE  /\ Append(SubSeq(s, 1, n - 1), f) \in Seq(S)
         /\ Len(Append(SubSeq(s, 1, n - 1), f)) = n
         /\ Append(SubSeq(s, 1, n - 1), f)[n] = f
         /\ \A i \in 1 .. n - 1 : Append(SubSeq(s, 1, n - 1), f)[i] = s[i]
  <1> DEFINE p == SubSeq(s, 1, n - 1)
  <1>1. n - 1 \in 0 .. Len(s)
    BY LenProperties
  <1>2. p \in Seq(S) /\ Len(p) = n - 1 /\ \A i \in 1 .. n - 1 : p[i] = s[i]
    BY <1>1, PrefixOfStack
  <1>3. QED
    BY <1>2, AppendProperties

(***************************************************************************)
(* Type correctness.                                                       *)
(***************************************************************************)

\* A borrow is always given to something: the plugin's code or a job.
LentToSomeone == \A d \in DOMAIN stack : stack[d].fn = "with_instance" => d > 1

TypeInv == TypeOK /\ LentToSomeone

\* The innermost frame, and the stack without it.
LEMMA TopOfStack ==
  ASSUME TypeOK, stack # <<>>
  PROVE  /\ Len(stack) \in Nat \ {0}
         /\ Top \in Frame
         /\ Below \in Seq(Frame)
         /\ Len(Below) = Len(stack) - 1
         /\ \A d \in 1 .. Len(Below) : Below[d] = stack[d]
  <1>1. stack \in Seq(Frame) /\ Len(stack) \in Nat \ {0}
    BY EmptySeq DEF TypeOK
  <1>2. Len(stack) - 1 \in 0 .. Len(stack)
    BY <1>1
  <1>3. Top \in Frame
    BY <1>1, ElementOfSeq DEF Top
  <1>4. /\ Below \in Seq(Frame)
        /\ Len(Below) = Len(stack) - 1
        /\ \A d \in 1 .. Len(stack) - 1 : Below[d] = stack[d]
    BY <1>1, <1>2, PrefixOfStack DEF Below
  <1>5. QED
    BY <1>1, <1>3, <1>4

\* Leaving frame n with a new content keeps the stack a stack.
LEMMA CutAndSet ==
  ASSUME TypeInv, NEW n \in 1 .. Len(stack), NEW f \in Frame,
         f.fn = "with_instance" => n > 1,
         stack' = Append(SubSeq(stack, 1, n - 1), f)
  PROVE  stack' \in Seq(Frame) /\ LentToSomeone'
  <1>1. stack \in Seq(Frame)
    BY DEF TypeInv, TypeOK
  <1>2. /\ stack' \in Seq(Frame)
        /\ Len(stack') = n
        /\ stack'[n] = f
        /\ \A i \in 1 .. n - 1 : stack'[i] = stack[i]
    BY <1>1, SetFrame
  <1>3. ASSUME NEW d \in DOMAIN stack', stack'[d].fn = "with_instance"
        PROVE  d > 1
    <2>1. d \in 1 .. n
      BY <1>2, LenProperties
    <2>2. CASE d = n
      BY <1>2, <1>3, <2>2
    <2>3. CASE d # n
      <3>1. d \in 1 .. n - 1 /\ d \in DOMAIN stack
        BY <2>1, <2>3, <1>1, LenProperties
      <3>2. QED
        BY <3>1, <1>2, <1>3 DEF TypeInv, LentToSomeone
    <2>4. QED
      BY <2>2, <2>3
  <1>4. QED
    BY <1>2, <1>3 DEF LentToSomeone

\* Dropping frames keeps the stack a stack.
LEMMA Cut ==
  ASSUME TypeInv, NEW n \in 0 .. Len(stack), stack' = SubSeq(stack, 1, n)
  PROVE  stack' \in Seq(Frame) /\ LentToSomeone'
  <1>1. stack \in Seq(Frame)
    BY DEF TypeInv, TypeOK
  <1>2. /\ stack' \in Seq(Frame)
        /\ Len(stack') = n
        /\ \A i \in 1 .. n : stack'[i] = stack[i]
    BY <1>1, PrefixOfStack
  <1>3. DOMAIN stack' = 1 .. n /\ DOMAIN stack' \subseteq DOMAIN stack
    BY <1>1, <1>2, LenProperties
  <1>4. QED
    BY <1>2, <1>3 DEF TypeInv, LentToSomeone

\* Calling something keeps the stack a stack.
LEMMA Grow ==
  ASSUME TypeInv, NEW f \in Frame, f.fn = "with_instance" => stack # <<>>,
         stack' = Append(stack, f)
  PROVE  stack' \in Seq(Frame) /\ LentToSomeone'
  <1>1. stack \in Seq(Frame) /\ Len(stack) \in Nat
    BY LenProperties DEF TypeInv, TypeOK
  <1>2. /\ stack' \in Seq(Frame)
        /\ Len(stack') = Len(stack) + 1
        /\ stack'[Len(stack) + 1] = f
        /\ \A i \in 1 .. Len(stack) : stack'[i] = stack[i]
    BY <1>1, AppendProperties
  <1>3. ASSUME NEW d \in DOMAIN stack', stack'[d].fn = "with_instance"
        PROVE  d > 1
    <2>1. d \in 1 .. Len(stack) + 1
      BY <1>2, LenProperties
    <2>2. CASE d = Len(stack) + 1
      BY <1>1, <1>2, <1>3, <2>2, EmptySeq
    <2>3. CASE d \in 1 .. Len(stack)
      BY <1>1, <1>2, <1>3, <2>3, LenProperties DEF TypeInv, LentToSomeone
    <2>4. QED
      BY <1>1, <2>1, <2>2, <2>3
  <1>4. QED
    BY <1>2, <1>3 DEF LentToSomeone

\* Moving on from a job keeps a frame a frame.
LEMMA JobOver ==
  ASSUME NEW f \in Frame, NEW next \in {"loop", "put_back"}
  PROVE  /\ [f EXCEPT !.at = next, !.id = 0] \in Frame
         /\ [f EXCEPT !.at = next, !.id = 0].fn = f.fn
  <1>1. 0 \in 0 .. MaxPosts
    BY BoundsAssumption
  <1>2. QED
    BY <1>1 DEF Frame

\* A finished job leaves a frame of run_pending on a well-formed stack.
LEMMA FinishJobType ==
  ASSUME TypeInv, NEW i \in 1 .. Len(stack), NEW outcome \in Fates,
         stack[i].fn = "run_pending", FinishJob(i, outcome)
  PROVE  /\ stack' \in Seq(Frame) /\ LentToSomeone'
         /\ fate' \in Seq(Fates) /\ Len(fate') = Len(fate)
  <1>1. stack \in Seq(Frame) /\ stack[i] \in Frame
    BY ElementOfSeq DEF TypeInv, TypeOK
  <1>2. PICK next \in AfterJob(stack[i].limited) :
          stack' = Append(SubSeq(stack, 1, i - 1), [stack[i] EXCEPT !.at = next, !.id = 0])
    BY DEF FinishJob
  <1>3. next \in {"loop", "put_back"}
    BY <1>2 DEF AfterJob
  <1>4. /\ [stack[i] EXCEPT !.at = next, !.id = 0] \in Frame
        /\ [stack[i] EXCEPT !.at = next, !.id = 0].fn = "run_pending"
    BY <1>1, <1>3, JobOver
  <1>5. stack' \in Seq(Frame) /\ LentToSomeone'
    BY <1>2, <1>4, CutAndSet
  <1>6. fate \in Seq(Fates) /\ fate' = [fate EXCEPT ![stack[i].id] = outcome]
    BY DEF TypeInv, TypeOK, FinishJob
  <1>7. fate' \in Seq(Fates) /\ Len(fate') = Len(fate)
    <2>1. CASE stack[i].id \in 1 .. Len(fate)
      BY <1>6, <2>1, ExceptSeq
    <2>2. CASE stack[i].id \notin 1 .. Len(fate)
      <3>1. fate' = fate
        BY <1>6, <2>2, LenProperties
      <3>2. QED
        BY <1>6, <3>1
    <2>3. QED
      BY <2>1, <2>2
  <1>8. QED
    BY <1>5, <1>7

\* A call that starts: the frame Call makes.
LEMMA CallIsFrame ==
  ASSUME NEW fn \in {"tick", "run_pending", "with_instance", "native", "native_self"},
         NEW at \in {"run_pending", "take", "plugin"}
  PROVE  Call(fn, at) \in Frame /\ Call(fn, at).fn = fn
  <1>1. 0 \in 0 .. MaxPosts /\ <<>> \in Seq(Job)
    BY BoundsAssumption
  <1>2. QED
    BY <1>1 DEF Call, Frame

\* What a frame's Drop leaves in the two flags.
LEMMA ReleaseType ==
  ASSUME TypeOK, NEW frame, Release(frame)
  PROVE  borrowed' \in BOOLEAN /\ depth' \in Nat
  <1>1. depth \in Nat /\ borrowed \in BOOLEAN
    BY DEF TypeOK
  <1>2. borrowed' \in BOOLEAN
    BY <1>1 DEF Release
  <1>3. depth' \in Nat
    BY <1>1 DEF Release, LeaveNative
  <1>4. QED
    BY <1>2, <1>3

LEMMA TypeInit == Init => TypeInv
  <1>1. <<>> \in Seq(Job) /\ <<>> \in Seq(Frame) /\ <<>> \in Seq(Kinds) /\ <<>> \in Seq(Fates)
    OBVIOUS
  <1>2. Init => TypeOK
    <2>1. SUFFICES ASSUME Init
                   PROVE  TypeOK
      OBVIOUS
    <2>2. Len(posted) = 0 /\ Len(fate) = 0 /\ 0 <= MaxPosts
      BY <2>1, BoundsAssumption DEF Init
    <2>3. posting \in [Threads -> {"idle", "store", "warn"}]
      BY <2>1 DEF Init
    <2>4. QED
      BY <1>1, <2>1, <2>2, <2>3 DEF Init, TypeOK
  <1>3. Init => LentToSomeone
    BY DEF Init, LentToSomeone
  <1>4. QED
    BY <1>2, <1>3 DEF TypeInv

LEMMA TypeNext == TypeInv /\ [Next]_vars => TypeInv'
  <1> SUFFICES ASSUME TypeInv, [Next]_vars
               PROVE  TypeInv'
    OBVIOUS
  <1> USE DEF TypeInv
  <1>1. ASSUME NEW t \in Threads, NEW kind \in Kinds, PostAppend(t, kind)
        PROVE  TypeInv'
    <2>1. Len(posted) + 1 \in Job /\ Len(posted) \in Nat
      BY <1>1, BoundsAssumption, LenProperties DEF PostAppend, TypeOK, Job
    <2>2. /\ jobs' \in Seq(Job)
          /\ posted' \in Seq(Kinds) /\ Len(posted') = Len(posted) + 1
          /\ fate' \in Seq(Fates) /\ Len(fate') = Len(fate) + 1
      BY <1>1, <2>1, AppendProperties DEF PostAppend, TypeOK, Fates
    <2>3. /\ holder' \in Threads \cup {NoThread}
          /\ posting' \in [Threads -> {"idle", "store", "warn"}]
      BY <1>1 DEF PostAppend, TypeOK
    <2>4. QED
      BY <1>1, <2>1, <2>2, <2>3, BoundsAssumption
      DEF PostAppend, TypeOK, pluginVars, Job, LentToSomeone
  <1>2. ASSUME NEW t \in Threads, PostStep(t)
        PROVE  TypeInv'
    <2>1. Len(jobs) \in Nat
      BY LenProperties DEF TypeOK
    <2>2. CASE PostStore(t)
      BY <2>1, <2>2
      DEF PostStore, PublishedLen, TypeOK, pluginVars, history, LentToSomeone
    <2>3. CASE PostWarn(t)
      BY <2>3 DEF PostWarn, TypeOK, pluginVars, history, LentToSomeone
    <2>4. QED
      BY <1>2, <2>2, <2>3 DEF PostStep
  <1>3. CASE DrainStep
    <2>1. CASE TakeNothing
      <3>1. stack # <<>> /\ stack' = SubSeq(stack, 1, Len(stack) - 1)
        BY <2>1 DEF TakeNothing, MainIn, Below
      <3>2. Len(stack) - 1 \in 0 .. Len(stack)
        BY <3>1, TopOfStack
      <3>3. stack' \in Seq(Frame) /\ LentToSomeone'
        BY <3>1, <3>2, Cut
      <3>4. QED
        BY <2>1, <3>3 DEF TakeNothing, TypeOK, queueVars, pluginVars, history
    <2>2. CASE Take
      <3> DEFINE f == [Top EXCEPT !.at = "loop", !.left = jobs,
                                  !.limited = budgeted, !.upto = Len(posted)]
      <3>1. /\ stack # <<>> /\ Top.fn = "run_pending"
            /\ stack' = Append(SubSeq(stack, 1, Len(stack) - 1), f)
        BY <2>2 DEF Take, MainIn, SetTop, Below
      <3>2. Len(stack) \in 1 .. Len(stack) /\ Top \in Frame
        BY <3>1, TopOfStack
      <3>3. f \in Frame /\ f.fn = "run_pending"
        BY <3>1, <3>2, LenProperties DEF TypeOK, Frame
      <3> HIDE DEF f
      <3>4. stack' \in Seq(Frame) /\ LentToSomeone'
        BY <3>1, <3>2, <3>3, CutAndSet
      <3>5. jobs' \in Seq(Job) /\ len' \in Nat
        BY <2>2 DEF Take
      <3>6. QED
        BY <2>2, <3>4, <3>5 DEF Take, TypeOK, pluginVars, history
    <2>3. CASE StartJob
      <3> DEFINE id == Head(Top.left)
                 f == [Top EXCEPT !.at = IF posted[id] = "plain" THEN "plugin" ELSE "call",
                                  !.id = id, !.left = Tail(Top.left)]
      <3>1. /\ stack # <<>> /\ Top.fn = "run_pending" /\ Top.left # <<>>
            /\ stack' = Append(SubSeq(stack, 1, Len(stack) - 1), f)
            /\ started' = Append(started, id)
            /\ fate' = [fate EXCEPT ![id] = "running"]
        BY <2>3 DEF StartJob, MainIn, SetTop, Below
      <3>2. Len(stack) \in 1 .. Len(stack) /\ Top \in Frame
        BY <3>1, TopOfStack
      <3>3. Top.left \in Seq(Job)
        BY <3>2 DEF Frame
      <3>4. id \in Job /\ Tail(Top.left) \in Seq(Job)
        BY <3>1, <3>3, HeadTailProperties
      <3>5. id \in 0 .. MaxPosts
        BY <3>4, BoundsAssumption DEF Job
      <3> HIDE DEF id
      <3>6. f \in Frame /\ f.fn = "run_pending"
        BY <3>1, <3>2, <3>4, <3>5 DEF Frame
      <3> HIDE DEF f
      <3>7. stack' \in Seq(Frame) /\ LentToSomeone'
        BY <3>1, <3>2, <3>6, CutAndSet
      <3>8. started' \in Seq(Job)
        BY <3>1, <3>4, AppendProperties DEF TypeOK
      <3>9. fate' \in Seq(Fates) /\ Len(fate') = Len(fate)
        <4>1. fate \in Seq(Fates) /\ "running" \in Fates
          BY DEF TypeOK, Fates
        <4>2. CASE id \in 1 .. Len(fate)
          BY <3>1, <4>1, <4>2, ExceptSeq
        <4>3. CASE id \notin 1 .. Len(fate)
          <5>1. fate' = fate
            BY <3>1, <4>1, <4>3, LenProperties
          <5>2. QED
            BY <5>1, <4>1
        <4>4. QED
          BY <4>2, <4>3
      <3>10. QED
        BY <2>3, <3>7, <3>8, <3>9 DEF StartJob, TypeOK, queueVars, pluginVars
    <2>4. CASE PutBack
      <3>1. stack # <<>> /\ stack' = SubSeq(stack, 1, Len(stack) - 1)
        BY <2>4 DEF PutBack, MainIn, Below
      <3>2. Len(stack) - 1 \in 0 .. Len(stack) /\ Top \in Frame
        BY <3>1, TopOfStack
      <3>3. stack' \in Seq(Frame) /\ LentToSomeone'
        BY <3>1, <3>2, Cut
      <3>4. Top.left \in Seq(Job) /\ jobs \in Seq(Job)
        BY <3>2 DEF Frame, TypeOK
      <3>5. jobs' \in Seq(Job) /\ len' \in Nat
        <4>1. jobs' = Top.left \o jobs /\ len' = Len(jobs')
          BY <2>4 DEF PutBack, Merged
        <4>2. jobs' \in Seq(Job)
          BY <3>4, <4>1, ConcatProperties
        <4>3. QED
          BY <4>1, <4>2, LenProperties
      <3>6. QED
        BY <2>4, <3>3, <3>5 DEF PutBack, TypeOK, pluginVars, history
    <2>5. CASE DrainReturns
      <3>1. stack # <<>> /\ stack' = SubSeq(stack, 1, Len(stack) - 1)
        BY <2>5 DEF DrainReturns, MainIn, Below
      <3>2. Len(stack) - 1 \in 0 .. Len(stack)
        BY <3>1, TopOfStack
      <3>3. stack' \in Seq(Frame) /\ LentToSomeone'
        BY <3>1, <3>2, Cut
      <3>4. QED
        BY <2>5, <3>3 DEF DrainReturns, TypeOK, queueVars, pluginVars, history
    <2>6. CASE JobWithoutScript \/ JobRefused \/ JobEnds
      <3>1. PICK outcome \in Fates : FinishJob(Len(stack), outcome)
        BY <2>6 DEF JobWithoutScript, JobRefused, JobEnds, Fates
      <3>2. stack # <<>> /\ stack[Len(stack)].fn = "run_pending"
        BY <2>6 DEF JobWithoutScript, JobRefused, JobEnds, MainIn, Top
      <3>3. Len(stack) \in 1 .. Len(stack)
        BY <3>2, TopOfStack
      <3>4. /\ stack' \in Seq(Frame) /\ LentToSomeone'
            /\ fate' \in Seq(Fates) /\ Len(fate') = Len(fate)
        BY <3>1, <3>2, <3>3, FinishJobType
      <3>5. QED
        BY <2>6, <3>4
        DEF JobWithoutScript, JobRefused, JobEnds, TypeOK, queueVars, pluginVars
    <2>7. CASE JobBorrows
      <3> DEFINE f == [Top EXCEPT !.at = IF posted[Top.id] = "with_amx" THEN "reply" ELSE "end"]
                 g == Call("with_instance", "plugin")
                 s == Append(SubSeq(stack, 1, Len(stack) - 1), f)
      <3>1. stack # <<>> /\ Top.fn = "run_pending" /\ stack' = Append(s, g) /\ borrowed' = TRUE
        BY <2>7 DEF JobBorrows, MainIn, LendTo, SetTop, Below
      <3>2. Len(stack) \in 1 .. Len(stack) /\ Top \in Frame /\ stack \in Seq(Frame)
        BY <3>1, TopOfStack DEF TypeOK
      <3>3. f \in Frame /\ f.fn = "run_pending" /\ g \in Frame /\ g.fn = "with_instance"
        BY <3>1, <3>2, CallIsFrame DEF Frame
      <3> HIDE DEF f, g
      <3>4. /\ s \in Seq(Frame)
            /\ Len(s) = Len(stack)
            /\ s[Len(stack)] = f
            /\ \A i \in 1 .. Len(stack) - 1 : s[i] = stack[i]
        <4>1. ASSUME NEW n \in 1 .. Len(stack), n = Len(stack)
              PROVE  /\ s \in Seq(Frame)
                     /\ Len(s) = n
                     /\ s[n] = f
                     /\ \A i \in 1 .. n - 1 : s[i] = stack[i]
          BY <3>2, <3>3, <4>1, SetFrame
        <4>2. QED
          BY <3>2, <4>1
      <3> HIDE DEF s
      <3>5. /\ stack' \in Seq(Frame)
            /\ Len(stack') = Len(stack) + 1
            /\ stack'[Len(stack) + 1] = g
            /\ \A i \in 1 .. Len(stack) : stack'[i] = s[i]
        BY <3>1, <3>3, <3>4, AppendProperties
      <3>6. ASSUME NEW d \in DOMAIN stack', stack'[d].fn = "with_instance"
            PROVE  d > 1
        <4>1. d \in 1 .. Len(stack) + 1
          BY <3>5, LenProperties
        <4>2. CASE d = Len(stack) + 1
          BY <3>2, <4>2
        <4>3. CASE d = Len(stack)
          BY <3>2, <3>3, <3>4, <3>5, <3>6, <4>3
        <4>4. CASE d \in 1 .. Len(stack) - 1
          <5>1. d \in DOMAIN stack /\ stack'[d] = stack[d]
            BY <3>2, <3>4, <3>5, <4>4, LenProperties
          <5>2. QED
            BY <5>1, <3>6 DEF LentToSomeone
        <4>5. QED
          BY <3>2, <4>1, <4>2, <4>3, <4>4
      <3>7. QED
        BY <2>7, <3>1, <3>5, <3>6
        DEF JobBorrows, TypeOK, LentToSomeone, queueVars, history
    <2>8. CASE JobReplies
      <3> DEFINE f == [Top EXCEPT !.at = "plugin"]
      <3>1. /\ stack # <<>> /\ Top.fn = "run_pending"
            /\ stack' = Append(SubSeq(stack, 1, Len(stack) - 1), f)
        BY <2>8 DEF JobReplies, MainIn, SetTop, Below
      <3>2. Len(stack) \in 1 .. Len(stack) /\ Top \in Frame
        BY <3>1, TopOfStack
      <3>3. f \in Frame /\ f.fn = "run_pending"
        BY <3>1, <3>2 DEF Frame
      <3> HIDE DEF f
      <3>4. stack' \in Seq(Frame) /\ LentToSomeone'
        BY <3>1, <3>2, <3>3, CutAndSet
      <3>5. QED
        BY <2>8, <3>4 DEF JobReplies, TypeOK, queueVars, pluginVars, history
    <2>9. QED
      BY <1>3, <2>1, <2>2, <2>3, <2>4, <2>5, <2>6, <2>7, <2>8 DEF DrainStep
  <1>4. CASE Tick
    <2> DEFINE f == Call("tick", "run_pending")
               g == Call("run_pending", "take")
    <2>1. stack' = <<f, g>>
      BY <1>4 DEF Tick
    <2>2. f \in Frame /\ f.fn = "tick" /\ g \in Frame /\ g.fn = "run_pending"
      BY CallIsFrame
    <2> HIDE DEF f, g
    <2>3. stack' \in Seq(Frame) /\ LentToSomeone'
      BY <2>1, <2>2 DEF LentToSomeone
    <2>4. QED
      BY <1>4, <2>3 DEF Tick, TypeOK, queueVars, pluginVars, history
  <1>5. CASE OnTick
    <2> DEFINE f == [Top EXCEPT !.at = "plugin"]
    <2>1. /\ stack # <<>> /\ Top.fn = "tick"
          /\ stack' = Append(SubSeq(stack, 1, Len(stack) - 1), f)
      BY <1>5 DEF OnTick, MainIn, SetTop, Below
    <2>2. Len(stack) \in 1 .. Len(stack) /\ Top \in Frame
      BY <2>1, TopOfStack
    <2>3. f \in Frame /\ f.fn = "tick"
      BY <2>1, <2>2 DEF Frame
    <2> HIDE DEF f
    <2>4. stack' \in Seq(Frame) /\ LentToSomeone'
      BY <2>1, <2>2, <2>3, CutAndSet
    <2>5. QED
      BY <1>5, <2>4 DEF OnTick, TypeOK, queueVars, pluginVars, history
  <1>6. CASE PluginStep
    <2>1. CASE RunPending
      <3>1. stack' = Append(stack, Call("run_pending", "take"))
        BY <2>1 DEF RunPending, Push
      <3>2. stack' \in Seq(Frame) /\ LentToSomeone'
        BY <3>1, CallIsFrame, Grow
      <3>3. QED
        BY <2>1, <3>2 DEF RunPending, TypeOK, queueVars, pluginVars, history
    <2>2. CASE WithInstance
      <3>1. /\ stack # <<>> /\ stack' = Append(stack, Call("with_instance", "plugin"))
            /\ borrowed' = TRUE
        BY <2>2 DEF WithInstance, PluginDoes, LendTo
      <3>2. stack' \in Seq(Frame) /\ LentToSomeone'
        BY <3>1, CallIsFrame, Grow
      <3>3. QED
        BY <2>2, <3>1, <3>2 DEF WithInstance, TypeOK, queueVars, history
    <2>3. CASE Return
      <3>1. stack # <<>> /\ posting[Main] = "idle"
        BY <2>3 DEF Return
      <3>2. Len(stack) \in 1 .. Len(stack) /\ Len(stack) - 1 \in 0 .. Len(stack)
        BY <3>1, TopOfStack
      <3>3. CASE Top.fn = "run_pending"
        <4>1. /\ stack' \in Seq(Frame) /\ LentToSomeone'
              /\ fate' \in Seq(Fates) /\ Len(fate') = Len(fate)
          BY <2>3, <3>2, <3>3, FinishJobType DEF Return, Top, Fates
        <4>2. QED
          BY <2>3, <3>3, <4>1 DEF Return, TypeOK, queueVars, pluginVars
      <3>4. CASE Top.fn # "run_pending"
        <4>1. stack' = SubSeq(stack, 1, Len(stack) - 1) /\ Release(Top)
          BY <2>3, <3>4 DEF Return, Below
        <4>2. stack' \in Seq(Frame) /\ LentToSomeone'
          BY <3>2, <4>1, Cut
        <4>3. borrowed' \in BOOLEAN /\ depth' \in Nat
          BY <4>1, ReleaseType
        <4>4. QED
          BY <2>3, <3>4, <4>2, <4>3 DEF Return, TypeOK, queueVars
      <3>5. QED
        BY <3>3, <3>4
    <2>4. CASE Panic
      <3>1. stack # <<>>
        BY <2>4 DEF Panic, PluginDoes
      <3>2. Len(stack) \in Nat \ {0} /\ stack \in Seq(Frame)
        BY <3>1, TopOfStack DEF TypeOK
      <3>3. Catcher \in 1 .. Len(stack) /\ Catcher - 1 \in 0 .. Len(stack)
        <4>1. CASE Top.fn = "with_instance"
          <5>1. Len(stack) \in DOMAIN stack /\ stack[Len(stack)].fn = "with_instance"
            BY <3>2, <4>1, LenProperties DEF Top
          <5>2. Len(stack) > 1
            BY <5>1 DEF LentToSomeone
          <5>3. QED
            BY <3>2, <4>1, <5>2 DEF Catcher
        <4>2. CASE Top.fn # "with_instance"
          BY <3>2, <4>2 DEF Catcher
        <4>3. QED
          BY <4>1, <4>2
      <3>4. CASE stack[Catcher].fn = "run_pending"
        <4>1. /\ stack' \in Seq(Frame) /\ LentToSomeone'
              /\ fate' \in Seq(Fates) /\ Len(fate') = Len(fate)
          BY <2>4, <3>3, <3>4, FinishJobType DEF Panic, Fates
        <4>2. borrowed' \in BOOLEAN /\ depth' \in Nat
          BY <2>4, <3>4, ReleaseType DEF Panic
        <4>3. QED
          BY <2>4, <4>1, <4>2 DEF Panic, TypeOK, queueVars
      <3>5. CASE stack[Catcher].fn # "run_pending"
        <4>1. stack' = SubSeq(stack, 1, Catcher - 1)
          BY <2>4, <3>5 DEF Panic
        <4>2. stack' \in Seq(Frame) /\ LentToSomeone'
          BY <3>3, <4>1, Cut
        <4>3. fate' = fate /\ borrowed' \in BOOLEAN /\ depth' \in Nat
          <5>1. /\ fate' = fate
                /\ borrowed' = IF Top.fn = "with_instance" THEN FALSE ELSE borrowed
                /\ depth' = IF stack[Catcher].fn = "native_self" THEN LeaveNative(depth) ELSE depth
            BY <2>4, <3>5 DEF Panic
          <5>2. depth \in Nat /\ borrowed \in BOOLEAN
            BY DEF TypeOK
          <5>3. borrowed' \in BOOLEAN
            BY <5>1, <5>2
          <5>4. depth' \in Nat
            BY <5>1, <5>2 DEF LeaveNative
          <5>5. QED
            BY <5>1, <5>3, <5>4
        <4>4. QED
          BY <2>4, <4>2, <4>3 DEF Panic, TypeOK, queueVars
      <3>6. QED
        BY <3>4, <3>5
    <2>5. CASE SetBudget
      BY <2>5 DEF SetBudget, TypeOK, LentToSomeone, queueVars, pluginVars, history
    <2>6. ASSUME NEW fn \in {"native", "native_self"}, Native(fn)
          PROVE  TypeInv'
      <3>1. stack' = Append(stack, Call(fn, "plugin"))
        BY <2>6 DEF Native, Push
      <3>2. Call(fn, "plugin") \in Frame /\ Call(fn, "plugin").fn # "with_instance"
        BY CallIsFrame
      <3>3. stack' \in Seq(Frame) /\ LentToSomeone'
        BY <3>1, <3>2, Grow
      <3>4. QED
        BY <2>6, <3>3 DEF Native, TypeOK, queueVars, history
    <2>7. QED
      BY <1>6, <2>1, <2>2, <2>3, <2>4, <2>5, <2>6 DEF PluginStep
  <1>7. CASE Script
    BY <1>7 DEF Script, TypeOK, LentToSomeone, queueVars, history
  <1>8. CASE UNCHANGED vars
    BY <1>8 DEF vars, TypeOK, LentToSomeone, queueVars, pluginVars, history
  <1>9. QED
    BY <1>1, <1>2, <1>3, <1>4, <1>5, <1>6, <1>7, <1>8 DEF Next

\* Every variable of mainthread.rs and of the plugin borrow keeps its type, for
\* any number of threads, jobs and nested calls.
THEOREM TypeCorrect == SafeSpec => []TypeOK
  <1>1. TypeInv => TypeOK
    BY DEF TypeInv
  <1>2. QED
    BY <1>1, TypeInit, TypeNext, PTL DEF SafeSpec

(***************************************************************************)
(* The count outside the mutex and the queue inside it.                    *)
(***************************************************************************)

\* A thread inside the mutex is between the append and the count of post().
CountInv == TypeInv /\ CountMirrorsQueue

LEMMA CountInit == Init => CountInv
  <1> SUFFICES ASSUME Init
               PROVE  CountMirrorsQueue
    BY TypeInit DEF CountInv
  <1>1. \A t \in Threads : posting[t] = "idle" /\ holder # t
    BY ThreadsAssumption DEF Init, Threads
  <1>2. len = 0 /\ Len(jobs) = 0
    BY EmptySeq DEF Init
  <1>3. QED
    BY <1>1, <1>2 DEF CountMirrorsQueue

\* The steps outside post() leave the mutex as it is, and set the count to the
\* length of what they leave in the queue or touch neither.
LEMMA CountFrame ==
  ASSUME CountMirrorsQueue, UNCHANGED <<holder, posting>>,
         UNCHANGED <<len, jobs>> \/ len' = Len(jobs')
  PROVE  CountMirrorsQueue'
  BY DEF CountMirrorsQueue

LEMMA CountNext == CountInv /\ [Next]_vars => CountInv'
  <1> SUFFICES ASSUME CountInv, [Next]_vars
               PROVE  CountMirrorsQueue'
    BY TypeNext DEF CountInv
  <1> USE DEF CountInv
  <1>1. ASSUME NEW t \in Threads, NEW kind \in Kinds, PostAppend(t, kind)
        PROVE  CountMirrorsQueue'
    <2>1. holder = NoThread /\ holder' = t /\ t # NoThread
      BY <1>1, ThreadsAssumption DEF PostAppend, Threads
    <2>2. \A u \in Threads : posting[u] # "store"
      BY <2>1, ThreadsAssumption DEF CountMirrorsQueue, Threads
    <2>3. /\ posting'[t] = "store"
          /\ \A u \in Threads : u # t => posting'[u] = posting[u]
      BY <1>1 DEF PostAppend, TypeInv, TypeOK
    <2>4. QED
      BY <2>1, <2>2, <2>3 DEF CountMirrorsQueue
  <1>2. ASSUME NEW t \in Threads, PostStore(t)
        PROVE  CountMirrorsQueue'
    <2>1. holder = t /\ holder' = NoThread /\ len' = Len(jobs')
      BY <1>2 DEF PostStore, PublishedLen, CountMirrorsQueue
    <2>2. /\ posting'[t] # "store"
          /\ \A u \in Threads : u # t => posting'[u] = posting[u]
      BY <1>2 DEF PostStore, TypeInv, TypeOK
    <2>3. \A u \in Threads : posting'[u] # "store" /\ u # NoThread
      BY <2>1, <2>2, ThreadsAssumption DEF CountMirrorsQueue, Threads
    <2>4. QED
      BY <2>1, <2>3 DEF CountMirrorsQueue
  <1>3. ASSUME NEW t \in Threads, PostWarn(t)
        PROVE  CountMirrorsQueue'
    <2>1. posting[t] = "warn" /\ UNCHANGED <<jobs, len, holder>>
      BY <1>3 DEF PostWarn
    <2>2. /\ posting'[t] = "idle"
          /\ \A u \in Threads : u # t => posting'[u] = posting[u]
      BY <1>3 DEF PostWarn, TypeInv, TypeOK
    <2>3. QED
      BY <2>1, <2>2 DEF CountMirrorsQueue
  <1>4. CASE Take
    <2>1. UNCHANGED <<holder, posting>> /\ len' = 0 /\ jobs' = <<>>
      BY <1>4 DEF Take
    <2>2. Len(jobs') = 0
      BY <2>1, EmptySeq
    <2>3. QED
      BY <2>1, <2>2, CountFrame
  <1>5. CASE PutBack
    <2>1. UNCHANGED <<holder, posting>> /\ len' = Len(jobs')
      BY <1>5 DEF PutBack
    <2>2. QED
      BY <2>1, CountFrame
  <1>6. CASE UNCHANGED queueVars
    BY <1>6, CountFrame DEF queueVars
  <1>7. CASE DrainStep
    BY <1>4, <1>5, <1>6, <1>7
      DEF DrainStep, TakeNothing, StartJob, DrainReturns, JobWithoutScript,
          JobBorrows, JobRefused, JobReplies, JobEnds
  <1>8. CASE PluginStep
    BY <1>6, <1>8 DEF PluginStep, RunPending, WithInstance, Return, Panic, SetBudget, Native
  <1>9. CASE Tick \/ OnTick \/ Script \/ UNCHANGED vars
    BY <1>6, <1>9 DEF Tick, OnTick, Script, vars
  <1>10. QED
    BY <1>1, <1>2, <1>3, <1>7, <1>8, <1>9 DEF Next, PostStep

\* The count read without the lock never hides a job from a drain: outside the
\* mutex it is the length of the queue, and the mutex has one holder, for any
\* number of posting threads and of drains inside drains.
THEOREM CountCorrect == SafeSpec => []CountMirrorsQueue
  <1>1. CountInv => CountMirrorsQueue
    BY DEF CountInv
  <1>2. QED
    BY <1>1, CountInit, CountNext, PTL DEF SafeSpec

(***************************************************************************)
(* The plugin is lent once: the two flags of plugin.rs and the main        *)
(* thread's stack, for any plugin calls, jobs and nesting.                 *)
(***************************************************************************)

\* The frames NATIVE_DEPTH counts.
Counted(s) == {d \in DOMAIN s : s[d].fn = "native_self"}

Borrows(s) == \E d \in DOMAIN s : s[d].fn = "with_instance"

\* What no frame of a with_instance closure has underneath it.
Alone(s) ==
  \A c, d \in DOMAIN s :
    c < d /\ s[d].fn = "with_instance" => s[c].fn \notin {"with_instance", "native_self"}

\* A stack s, a PLUGIN_BORROWED b and a NATIVE_DEPTH n that go together: the flag
\* alone says too little, since a count above 0 may be off by one.
Agree(s, b, n) ==
  /\ n = Cardinality(Counted(s))
  /\ b <=> Borrows(s)
  /\ Alone(s)

\* Frames of r are frames of s, up to what the flags do not see.
SameCalls(r, s, n) == \A d \in 1 .. n : r[d].fn = s[d].fn

LEMMA CountedIsFinite ==
  ASSUME NEW s \in Seq(Frame)
  PROVE  IsFiniteSet(Counted(s)) /\ Cardinality(Counted(s)) \in Nat
  <1>1. Len(s) \in Nat /\ DOMAIN s = 1 .. Len(s)
    BY LenProperties
  <1>2. IsFiniteSet(DOMAIN s)
    BY <1>1, FS_Interval
  <1>3. Counted(s) \subseteq DOMAIN s
    BY DEF Counted
  <1>4. QED
    BY <1>2, <1>3, FS_Subset, FS_CardinalityType

\* A frame that moves on within its function changes nothing the flags see.
LEMMA AgreeStay ==
  ASSUME NEW s \in Seq(Frame), NEW r \in Seq(Frame), NEW b \in BOOLEAN, NEW n \in Nat,
         Len(r) = Len(s), SameCalls(r, s, Len(s)), Agree(s, b, n)
  PROVE  Agree(r, b, n)
  <1>1. DOMAIN s = 1 .. Len(s) /\ DOMAIN r = 1 .. Len(s)
    BY LenProperties
  <1>2. \A d \in 1 .. Len(s) : r[d].fn = s[d].fn
    BY DEF SameCalls
  <1>3. Counted(r) = Counted(s)
    BY <1>1, <1>2 DEF Counted
  <1>4. Borrows(r) <=> Borrows(s)
    BY <1>1, <1>2 DEF Borrows
  <1>5. Alone(r)
    BY <1>1, <1>2 DEF Alone, Agree
  <1>6. QED
    BY <1>3, <1>4, <1>5 DEF Agree

\* Leaving a frame and undoing its own mark leaves the flags right.
LEMMA AgreePop ==
  ASSUME NEW s \in Seq(Frame), NEW r \in Seq(Frame), NEW b \in BOOLEAN, NEW n \in Nat,
         s # <<>>, Len(r) = Len(s) - 1, SameCalls(r, s, Len(r)), Agree(s, b, n)
  PROVE  Agree(r, IF s[Len(s)].fn = "with_instance" THEN FALSE ELSE b,
                  IF s[Len(s)].fn = "native_self" THEN LeaveNative(n) ELSE n)
  <1> DEFINE k == Len(s)
  <1>1. k \in Nat \ {0} /\ DOMAIN s = 1 .. k /\ DOMAIN r = 1 .. k - 1
    BY EmptySeq, LenProperties
  <1>2. \A d \in 1 .. k - 1 : r[d].fn = s[d].fn
    BY DEF SameCalls
  <1>3. 1 .. k = (1 .. k - 1) \cup {k} /\ k \notin 1 .. k - 1
    BY <1>1
  <1>4. Alone(r)
    <2> SUFFICES ASSUME NEW c \in DOMAIN r, NEW d \in DOMAIN r, c < d,
                        r[d].fn = "with_instance"
                 PROVE  r[c].fn \notin {"with_instance", "native_self"}
      BY DEF Alone
    <2>1. c \in DOMAIN s /\ d \in DOMAIN s /\ s[d].fn = "with_instance" /\ r[c].fn = s[c].fn
      BY <1>1, <1>2
    <2>2. QED
      BY <2>1 DEF Alone, Agree
  <1>5. CASE s[k].fn = "native_self"
    <2>1. Counted(r) = Counted(s) \ {k} /\ k \in Counted(s)
      BY <1>1, <1>2, <1>3, <1>5 DEF Counted
    <2>2. IsFiniteSet(Counted(s)) /\ n = Cardinality(Counted(s))
      BY CountedIsFinite DEF Agree
    <2>3. Cardinality(Counted(r)) = n - 1
      BY <2>1, <2>2, FS_RemoveElement
    <2>4. n # 0
      BY <2>1, <2>2, FS_EmptySet
    <2>5. LeaveNative(n) = Cardinality(Counted(r))
      BY <2>3, <2>4 DEF LeaveNative
    <2>6. Borrows(r) <=> Borrows(s)
      BY <1>1, <1>2, <1>3, <1>5 DEF Borrows
    <2>7. QED
      BY <1>4, <1>5, <2>5, <2>6 DEF Agree
  <1>6. CASE s[k].fn = "with_instance"
    <2>1. Counted(r) = Counted(s)
      BY <1>1, <1>2, <1>3, <1>6 DEF Counted
    <2>2. ASSUME NEW d \in DOMAIN r
          PROVE  r[d].fn # "with_instance"
      <3>1. d \in DOMAIN s /\ k \in DOMAIN s /\ d < k /\ r[d].fn = s[d].fn
        BY <1>1, <1>2
      <3>2. QED
        BY <1>6, <3>1 DEF Alone, Agree
    <2>3. ~Borrows(r)
      BY <2>2 DEF Borrows
    <2>4. QED
      BY <1>4, <1>6, <2>1, <2>3 DEF Agree
  <1>7. CASE s[k].fn \notin {"with_instance", "native_self"}
    <2>1. Counted(r) = Counted(s)
      BY <1>1, <1>2, <1>3, <1>7 DEF Counted
    <2>2. Borrows(r) <=> Borrows(s)
      BY <1>1, <1>2, <1>3, <1>7 DEF Borrows
    <2>3. QED
      BY <1>4, <1>7, <2>1, <2>2 DEF Agree
  <1>8. QED
    BY <1>5, <1>6, <1>7

\* with_instance lends only over a stack that neither borrows nor is counted.
LEMMA AgreeLend ==
  ASSUME NEW s \in Seq(Frame), NEW r \in Seq(Frame),
         Len(r) = Len(s) + 1, SameCalls(r, s, Len(s)),
         r[Len(r)].fn = "with_instance", Agree(s, FALSE, 0)
  PROVE  Agree(r, TRUE, 0)
  <1> DEFINE k == Len(s) + 1
  <1>1. k \in Nat \ {0} /\ DOMAIN s = 1 .. k - 1 /\ DOMAIN r = 1 .. k /\ Len(r) = k
    BY LenProperties
  <1>2. \A d \in 1 .. k - 1 : r[d].fn = s[d].fn
    BY <1>1 DEF SameCalls
  <1>3. 1 .. k = (1 .. k - 1) \cup {k}
    BY <1>1
  <1>4. Counted(s) = {}
    BY CountedIsFinite, FS_EmptySet DEF Agree
  <1>5. \A d \in 1 .. k - 1 : s[d].fn \notin {"with_instance", "native_self"}
    BY <1>1, <1>4 DEF Counted, Borrows, Agree
  <1>6. Counted(r) = Counted(s)
    BY <1>1, <1>2, <1>3 DEF Counted
  <1>7. Borrows(r)
    BY <1>1 DEF Borrows
  <1>8. Alone(r)
    <2> SUFFICES ASSUME NEW c \in DOMAIN r, NEW d \in DOMAIN r, c < d
                 PROVE  r[c].fn \notin {"with_instance", "native_self"}
      BY DEF Alone
    <2>1. c \in 1 .. k - 1
      BY <1>1
    <2>2. QED
      BY <1>2, <1>5, <2>1
  <1>9. QED
    BY <1>6, <1>7, <1>8 DEF Agree

\* A call that lends nothing: a native taking self is counted.
LEMMA AgreeCall ==
  ASSUME NEW s \in Seq(Frame), NEW f \in Frame, NEW b \in BOOLEAN, NEW n \in Nat,
         f.fn # "with_instance", Agree(s, b, n)
  PROVE  Agree(Append(s, f), b, IF f.fn = "native_self" THEN n + 1 ELSE n)
  <1> DEFINE k == Len(s) + 1
             r == Append(s, f)
  <1>1. /\ k \in Nat \ {0} /\ DOMAIN s = 1 .. k - 1 /\ DOMAIN r = 1 .. k
        /\ r[k] = f /\ \A d \in 1 .. k - 1 : r[d] = s[d]
    BY LenProperties, AppendProperties
  <1> HIDE DEF r
  <1>2. 1 .. k = (1 .. k - 1) \cup {k} /\ k \notin 1 .. k - 1
    BY <1>1
  <1>3. Borrows(r) <=> Borrows(s)
    BY <1>1, <1>2 DEF Borrows
  <1>4. Alone(r)
    <2> SUFFICES ASSUME NEW c \in DOMAIN r, NEW d \in DOMAIN r, c < d,
                        r[d].fn = "with_instance"
                 PROVE  r[c].fn \notin {"with_instance", "native_self"}
      BY DEF Alone
    <2>1. d # k
      BY <1>1
    <2>2. c \in DOMAIN s /\ d \in DOMAIN s /\ s[d].fn = "with_instance" /\ r[c] = s[c]
      BY <1>1, <2>1
    <2>3. QED
      BY <2>2 DEF Alone, Agree
  <1>5. CASE f.fn = "native_self"
    <2>1. Counted(r) = Counted(s) \cup {k} /\ k \notin Counted(s)
      BY <1>1, <1>2, <1>5 DEF Counted
    <2>2. Cardinality(Counted(r)) = Cardinality(Counted(s)) + 1
      BY <2>1, CountedIsFinite, FS_AddElement
    <2>3. QED
      BY <1>3, <1>4, <1>5, <2>2 DEF Agree, r
  <1>6. CASE f.fn # "native_self"
    <2>1. Counted(r) = Counted(s)
      BY <1>1, <1>2, <1>6 DEF Counted
    <2>2. QED
      BY <1>3, <1>4, <1>6, <2>1 DEF Agree, r
  <1>7. QED
    BY <1>5, <1>6

(***************************************************************************)
(* The invariant.                                                          *)
(***************************************************************************)

LendInv == TypeInv /\ Agree(stack, borrowed, depth)

\* Setting the innermost frame of a stack to another point of its function.
LEMMA SetTopStays ==
  ASSUME TypeInv, stack # <<>>, NEW f \in Frame, f.fn = Top.fn
  PROVE  /\ SetTop(f) \in Seq(Frame)
         /\ Len(SetTop(f)) = Len(stack)
         /\ SameCalls(SetTop(f), stack, Len(stack))
  <1>1. stack \in Seq(Frame) /\ Len(stack) \in 1 .. Len(stack)
    BY TopOfStack DEF TypeInv, TypeOK
  <1>2. ASSUME NEW n \in 1 .. Len(stack), n = Len(stack)
        PROVE  /\ SetTop(f) \in Seq(Frame)
               /\ Len(SetTop(f)) = n
               /\ SetTop(f)[n] = f
               /\ \A i \in 1 .. n - 1 : SetTop(f)[i] = stack[i]
    BY <1>1, <1>2, SetFrame DEF SetTop, Below
  <1>3. \A d \in 1 .. Len(stack) : d = Len(stack) \/ d \in 1 .. Len(stack) - 1
    BY <1>1
  <1>4. QED
    BY <1>1, <1>2, <1>3 DEF SameCalls, Top

\* A finished job leaves its frame where it was, and unwinds those above it.
LEMMA FinishJobCalls ==
  ASSUME TypeInv, NEW i \in 1 .. Len(stack), NEW outcome, FinishJob(i, outcome)
  PROVE  /\ stack' \in Seq(Frame)
         /\ Len(stack') = i
         /\ SameCalls(stack', stack, i)
  <1>1. stack \in Seq(Frame) /\ stack[i] \in Frame
    BY ElementOfSeq DEF TypeInv, TypeOK
  <1>2. PICK next \in AfterJob(stack[i].limited) :
          stack' = Append(SubSeq(stack, 1, i - 1), [stack[i] EXCEPT !.at = next, !.id = 0])
    BY DEF FinishJob
  <1>3. next \in {"loop", "put_back"}
    BY <1>2 DEF AfterJob
  <1> DEFINE f == [stack[i] EXCEPT !.at = next, !.id = 0]
  <1>4. f \in Frame /\ f.fn = stack[i].fn
    BY <1>1, <1>3, JobOver
  <1> HIDE DEF f
  <1>5. /\ stack' \in Seq(Frame)
        /\ Len(stack') = i
        /\ stack'[i] = f
        /\ \A j \in 1 .. i - 1 : stack'[j] = stack[j]
    BY <1>1, <1>2, <1>4, SetFrame DEF f
  <1>6. \A d \in 1 .. i : d = i \/ d \in 1 .. i - 1
    OBVIOUS
  <1>7. QED
    BY <1>4, <1>5, <1>6 DEF SameCalls

\* Dropping the innermost frames.
LEMMA CutCalls ==
  ASSUME TypeInv, NEW n \in 0 .. Len(stack)
  PROVE  /\ SubSeq(stack, 1, n) \in Seq(Frame)
         /\ Len(SubSeq(stack, 1, n)) = n
         /\ SameCalls(SubSeq(stack, 1, n), stack, n)
  BY PrefixOfStack DEF SameCalls, TypeInv, TypeOK

LEMMA LendInit == Init => LendInv
  <1> SUFFICES ASSUME Init
               PROVE  Agree(stack, borrowed, depth)
    BY TypeInit DEF LendInv
  <1>1. stack = <<>> /\ ~borrowed /\ depth = 0
    BY DEF Init
  <1>2. DOMAIN stack = {}
    BY <1>1
  <1>3. Counted(stack) = {}
    BY <1>2 DEF Counted
  <1>4. Cardinality(Counted(stack)) = 0
    BY <1>3, FS_EmptySet
  <1>5. QED
    BY <1>1, <1>2, <1>4 DEF Agree, Borrows, Alone

LEMMA LendNext == LendInv /\ [Next]_vars => LendInv'
  <1> SUFFICES ASSUME LendInv, [Next]_vars
               PROVE  Agree(stack, borrowed, depth)'
    BY TypeNext DEF LendInv
  <1>1. TypeInv /\ Agree(stack, borrowed, depth)
    BY DEF LendInv
  <1>2. stack \in Seq(Frame) /\ borrowed \in BOOLEAN /\ depth \in Nat
    BY <1>1 DEF TypeInv, TypeOK
  \* Steps that leave the stack's calls and the flags as they are.
  <1>3. ASSUME UNCHANGED <<borrowed, depth>>, stack' \in Seq(Frame),
               Len(stack') = Len(stack), SameCalls(stack', stack, Len(stack))
        PROVE  Agree(stack, borrowed, depth)'
    BY <1>1, <1>2, <1>3, AgreeStay
  <1>4. ASSUME UNCHANGED <<borrowed, depth, stack>>
        PROVE  Agree(stack, borrowed, depth)'
    BY <1>1, <1>4 DEF Agree, Borrows, Alone, Counted
  \* Leaving a frame that made no mark.
  <1>5. ASSUME UNCHANGED <<borrowed, depth>>, stack # <<>>, stack' = Below,
               Top.fn \notin {"with_instance", "native_self"}
        PROVE  Agree(stack, borrowed, depth)'
    <2>1. Len(stack) \in Nat \ {0} /\ Len(stack) - 1 \in 0 .. Len(stack)
      BY <1>1, <1>5, TopOfStack DEF TypeInv
    <2>2. /\ stack' \in Seq(Frame) /\ Len(stack') = Len(stack) - 1
          /\ SameCalls(stack', stack, Len(stack'))
      BY <1>1, <1>5, <2>1, CutCalls DEF Below
    <2>3. QED
      BY <1>1, <1>2, <1>5, <2>2, AgreePop DEF Top
  <1>6. ASSUME NEW t \in Threads, NEW kind \in Kinds, PostAppend(t, kind)
        PROVE  Agree(stack, borrowed, depth)'
    BY <1>4, <1>6 DEF PostAppend, pluginVars
  <1>7. ASSUME NEW t \in Threads, PostStep(t)
        PROVE  Agree(stack, borrowed, depth)'
    BY <1>4, <1>7 DEF PostStep, PostStore, PostWarn, pluginVars
  <1>8. CASE DrainStep
    <2>1. CASE TakeNothing
      BY <1>5, <2>1 DEF TakeNothing, MainIn, pluginVars
    <2>2. CASE Take
      <3> DEFINE f == [Top EXCEPT !.at = "loop", !.left = jobs,
                                  !.limited = budgeted, !.upto = Len(posted)]
      <3>1. stack # <<>> /\ stack' = SetTop(f) /\ UNCHANGED <<borrowed, depth>>
        BY <2>2 DEF Take, MainIn, pluginVars
      <3>2. Top \in Frame
        BY <1>1, <3>1, TopOfStack DEF TypeInv
      <3>3. f \in Frame /\ f.fn = Top.fn
        BY <1>1, <3>2, LenProperties DEF TypeInv, TypeOK, Frame
      <3> HIDE DEF f
      <3>4. QED
        BY <1>1, <1>3, <3>1, <3>3, SetTopStays
    <2>3. CASE StartJob
      <3> DEFINE id == Head(Top.left)
                 f == [Top EXCEPT !.at = IF posted[id] = "plain" THEN "plugin" ELSE "call",
                                  !.id = id, !.left = Tail(Top.left)]
      <3>1. stack # <<>> /\ Top.left # <<>> /\ stack' = SetTop(f) /\ UNCHANGED <<borrowed, depth>>
        BY <2>3 DEF StartJob, MainIn, pluginVars
      <3>2. Top \in Frame
        BY <1>1, <3>1, TopOfStack DEF TypeInv
      <3>3. Top.left \in Seq(Job)
        BY <3>2 DEF Frame
      <3>4. id \in Job /\ Tail(Top.left) \in Seq(Job)
        BY <3>1, <3>3, HeadTailProperties
      <3>5. id \in 0 .. MaxPosts
        BY <3>4, BoundsAssumption DEF Job
      <3> HIDE DEF id
      <3>6. f \in Frame /\ f.fn = Top.fn
        BY <3>2, <3>4, <3>5 DEF Frame
      <3> HIDE DEF f
      <3>7. QED
        BY <1>1, <1>3, <3>1, <3>6, SetTopStays
    <2>4. CASE PutBack
      BY <1>5, <2>4 DEF PutBack, MainIn, pluginVars
    <2>5. CASE DrainReturns
      BY <1>5, <2>5 DEF DrainReturns, MainIn, pluginVars
    <2>6. CASE JobWithoutScript \/ JobRefused \/ JobEnds
      <3>1. PICK outcome : FinishJob(Len(stack), outcome)
        BY <2>6 DEF JobWithoutScript, JobRefused, JobEnds
      <3>2. stack # <<>> /\ UNCHANGED <<borrowed, depth>>
        BY <2>6 DEF JobWithoutScript, JobRefused, JobEnds, MainIn, pluginVars
      <3>3. Len(stack) \in 1 .. Len(stack)
        BY <1>1, <3>2, TopOfStack DEF TypeInv
      <3>4. QED
        BY <1>1, <1>3, <3>1, <3>2, <3>3, FinishJobCalls
    <2>7. CASE JobBorrows
      <3> DEFINE f == [Top EXCEPT !.at = IF posted[Top.id] = "with_amx" THEN "reply" ELSE "end"]
                 g == Call("with_instance", "plugin")
                 s == SetTop(f)
      <3>1. /\ stack # <<>> /\ stack' = Append(s, g)
            /\ depth = 0 /\ borrowed = FALSE /\ depth' = 0 /\ borrowed' = TRUE
        BY <1>2, <2>7 DEF JobBorrows, MainIn, LendTo, Lendable
      <3>2. Top \in Frame
        BY <1>1, <3>1, TopOfStack DEF TypeInv
      <3>3. f \in Frame /\ f.fn = Top.fn /\ g \in Frame /\ g.fn = "with_instance"
        BY <3>2, CallIsFrame DEF Frame
      <3> HIDE DEF f, g
      <3>4. s \in Seq(Frame) /\ Len(s) = Len(stack) /\ SameCalls(s, stack, Len(stack))
        BY <1>1, <3>1, <3>3, SetTopStays
      <3> HIDE DEF s
      <3>5. Agree(s, FALSE, 0)
        BY <1>1, <1>2, <3>1, <3>4, AgreeStay
      <3>6. /\ stack' \in Seq(Frame) /\ Len(stack') = Len(s) + 1
            /\ stack'[Len(s) + 1] = g /\ \A d \in 1 .. Len(s) : stack'[d] = s[d]
        BY <3>1, <3>3, <3>4, AppendProperties
      <3>7. Agree(stack', TRUE, 0)
        BY <3>3, <3>4, <3>5, <3>6, AgreeLend DEF SameCalls
      <3>8. QED
        BY <3>1, <3>7
    <2>8. CASE JobReplies
      <3> DEFINE f == [Top EXCEPT !.at = "plugin"]
      <3>1. stack # <<>> /\ stack' = SetTop(f) /\ UNCHANGED <<borrowed, depth>>
        BY <2>8 DEF JobReplies, MainIn, pluginVars
      <3>2. Top \in Frame
        BY <1>1, <3>1, TopOfStack DEF TypeInv
      <3>3. f \in Frame /\ f.fn = Top.fn
        BY <3>2 DEF Frame
      <3> HIDE DEF f
      <3>4. QED
        BY <1>1, <1>3, <3>1, <3>3, SetTopStays
    <2>9. QED
      BY <1>8, <2>1, <2>2, <2>3, <2>4, <2>5, <2>6, <2>7, <2>8 DEF DrainStep
  <1>9. CASE Tick
    <2> DEFINE f == Call("tick", "run_pending")
               g == Call("run_pending", "take")
               s == Append(stack, f)
    <2>1. stack = <<>> /\ stack' = <<f, g>> /\ UNCHANGED <<borrowed, depth>>
      BY <1>9 DEF Tick, ServerIdle, pluginVars
    <2>2. f \in Frame /\ f.fn = "tick" /\ g \in Frame /\ g.fn = "run_pending"
      BY CallIsFrame
    <2> HIDE DEF f, g
    <2>3. stack' = Append(s, g) /\ s \in Seq(Frame)
      BY <1>2, <2>1, <2>2, AppendProperties
    <2>4. Agree(s, borrowed, depth)
      BY <1>1, <1>2, <2>2, AgreeCall
    <2> HIDE DEF s
    <2>5. Agree(Append(s, g), borrowed, depth)
      BY <1>2, <2>2, <2>3, <2>4, AgreeCall
    <2>6. QED
      BY <2>1, <2>3, <2>5
  <1>10. CASE OnTick
    <2> DEFINE f == [Top EXCEPT !.at = "plugin"]
    <2>1. stack # <<>> /\ stack' = SetTop(f) /\ UNCHANGED <<borrowed, depth>>
      BY <1>10 DEF OnTick, MainIn, pluginVars
    <2>2. Top \in Frame
      BY <1>1, <2>1, TopOfStack DEF TypeInv
    <2>3. f \in Frame /\ f.fn = Top.fn
      BY <2>2 DEF Frame
    <2> HIDE DEF f
    <2>4. QED
      BY <1>1, <1>3, <2>1, <2>3, SetTopStays
  <1>11. CASE PluginStep
    <2>1. CASE RunPending
      <3>1. stack' = Append(stack, Call("run_pending", "take")) /\ UNCHANGED <<borrowed, depth>>
        BY <2>1 DEF RunPending, Push, pluginVars
      <3>2. Call("run_pending", "take") \in Frame /\ Call("run_pending", "take").fn = "run_pending"
        BY CallIsFrame
      <3>3. QED
        BY <1>1, <1>2, <3>1, <3>2, AgreeCall
    <2>2. CASE WithInstance
      <3> DEFINE g == Call("with_instance", "plugin")
      <3>1. /\ stack' = Append(stack, g)
            /\ depth = 0 /\ borrowed = FALSE /\ depth' = 0 /\ borrowed' = TRUE
        BY <1>2, <2>2 DEF WithInstance, LendTo, Lendable
      <3>2. g \in Frame /\ g.fn = "with_instance"
        BY CallIsFrame
      <3> HIDE DEF g
      <3>3. /\ stack' \in Seq(Frame) /\ Len(stack') = Len(stack) + 1
            /\ stack'[Len(stack) + 1] = g /\ \A d \in 1 .. Len(stack) : stack'[d] = stack[d]
        BY <1>2, <3>1, <3>2, AppendProperties
      <3>4. Agree(stack', TRUE, 0)
        BY <1>1, <1>2, <3>1, <3>2, <3>3, AgreeLend DEF SameCalls
      <3>5. QED
        BY <3>1, <3>4
    <2>3. CASE Return
      <3>1. stack # <<>>
        BY <2>3 DEF Return
      <3>2. Len(stack) \in 1 .. Len(stack) /\ Len(stack) - 1 \in 0 .. Len(stack)
        BY <1>1, <3>1, TopOfStack DEF TypeInv
      <3>3. CASE Top.fn = "run_pending"
        <4>1. FinishJob(Len(stack), "ran") /\ UNCHANGED <<borrowed, depth>>
          BY <2>3, <3>3 DEF Return, pluginVars
        <4>2. QED
          BY <1>1, <1>3, <3>2, <4>1, FinishJobCalls
      <3>4. CASE Top.fn # "run_pending"
        <4>1. stack' = SubSeq(stack, 1, Len(stack) - 1) /\ Release(Top)
          BY <2>3, <3>4 DEF Return, Below
        <4>2. /\ stack' \in Seq(Frame) /\ Len(stack') = Len(stack) - 1
              /\ SameCalls(stack', stack, Len(stack'))
          BY <1>1, <3>2, <4>1, CutCalls
        <4>3. Agree(stack', IF stack[Len(stack)].fn = "with_instance" THEN FALSE ELSE borrowed,
                            IF stack[Len(stack)].fn = "native_self" THEN LeaveNative(depth) ELSE depth)
          BY <1>1, <1>2, <3>1, <4>2, AgreePop
        <4>4. /\ borrowed' = IF stack[Len(stack)].fn = "with_instance" THEN FALSE ELSE borrowed
              /\ depth' = IF stack[Len(stack)].fn = "native_self" THEN LeaveNative(depth) ELSE depth
          BY <4>1 DEF Top, Release
        <4>5. QED
          BY <4>3, <4>4
      <3>5. QED
        BY <3>3, <3>4
    <2>4. CASE Panic
      <3>1. stack # <<>>
        BY <2>4 DEF Panic, PluginDoes
      <3>2. Len(stack) \in 1 .. Len(stack) /\ Len(stack) - 1 \in 0 .. Len(stack)
        BY <1>1, <3>1, TopOfStack DEF TypeInv
      \* The closure of a with_instance frame is left first.
      <3>3. CASE Top.fn = "with_instance"
        <4> DEFINE n == Len(stack) - 1
                   s == SubSeq(stack, 1, n)
        <4>1. Len(stack) > 1
          BY <1>1, <3>2, <3>3, <1>2, LenProperties DEF TypeInv, LentToSomeone, Top
        <4>2. Catcher = n /\ n \in 1 .. Len(stack) /\ n - 1 \in 0 .. Len(stack)
          BY <3>2, <3>3, <4>1 DEF Catcher
        <4>3. s \in Seq(Frame) /\ Len(s) = n /\ SameCalls(s, stack, n)
          BY <1>1, <3>2, CutCalls
        <4> HIDE DEF s
        <4>4. Agree(s, FALSE, depth)
          <5>1. stack[Len(stack)].fn = "with_instance"
            BY <3>3 DEF Top
          <5>2. Agree(s, IF stack[Len(stack)].fn = "with_instance" THEN FALSE ELSE borrowed,
                         IF stack[Len(stack)].fn = "native_self" THEN LeaveNative(depth) ELSE depth)
            <6>1. Len(s) = Len(stack) - 1 /\ SameCalls(s, stack, Len(s)) /\ s \in Seq(Frame)
              BY <4>3 DEF n
            <6>2. QED
              BY <1>1, <1>2, <3>1, <6>1, AgreePop
          <5>3. QED
            BY <5>1, <5>2
        <4>5. CASE stack[n].fn = "run_pending"
          <5>1. FinishJob(n, "panicked") /\ borrowed' = FALSE /\ depth' = depth
            BY <2>4, <3>3, <4>2, <4>5 DEF Panic, Release
          <5>2. stack' \in Seq(Frame) /\ Len(stack') = n /\ SameCalls(stack', stack, n)
            BY <1>1, <4>2, <5>1, FinishJobCalls
          <5>3. SameCalls(stack', s, n)
            BY <4>3, <5>2 DEF SameCalls
          <5>4. Agree(stack', FALSE, depth)
            BY <1>2, <4>3, <4>4, <5>2, <5>3, AgreeStay
          <5>5. QED
            BY <5>1, <5>4
        <4>6. CASE stack[n].fn # "run_pending"
          <5>1. /\ stack' = SubSeq(stack, 1, n - 1) /\ borrowed' = FALSE
                /\ depth' = IF stack[n].fn = "native_self" THEN LeaveNative(depth) ELSE depth
            BY <2>4, <3>3, <4>2, <4>6 DEF Panic
          <5>2. stack' \in Seq(Frame) /\ Len(stack') = n - 1 /\ SameCalls(stack', stack, n - 1)
            BY <1>1, <4>2, <5>1, CutCalls
          <5>3. s[n].fn = stack[n].fn /\ SameCalls(stack', s, n - 1) /\ s # <<>>
            <6>1. s[n].fn = stack[n].fn
              BY <4>2, <4>3 DEF SameCalls
            <6>2. SameCalls(stack', s, n - 1)
              <7>1. \A d \in 1 .. n - 1 : d \in 1 .. n
                BY <4>2
              <7>2. QED
                BY <4>3, <5>2, <7>1 DEF SameCalls
            <6>3. s # <<>>
              BY <4>2, <4>3, EmptySeq
            <6>4. QED
              BY <6>1, <6>2, <6>3
          <5>4. Agree(stack', IF s[n].fn = "with_instance" THEN FALSE ELSE FALSE,
                              IF s[n].fn = "native_self" THEN LeaveNative(depth) ELSE depth)
            BY <1>2, <4>3, <4>4, <5>2, <5>3, AgreePop
          <5>5. QED
            BY <5>1, <5>3, <5>4
        <4>7. QED
          BY <4>5, <4>6
      <3>4. CASE Top.fn # "with_instance"
        <4>1. Catcher = Len(stack) /\ stack[Len(stack)] = Top
          BY <3>4 DEF Catcher, Top
        <4>2. CASE Top.fn = "run_pending"
          <5>1. FinishJob(Len(stack), "panicked") /\ UNCHANGED <<borrowed, depth>>
            BY <2>4, <4>1, <4>2 DEF Panic, Release
          <5>2. QED
            BY <1>1, <1>3, <3>2, <5>1, FinishJobCalls
        <4>3. CASE Top.fn # "run_pending"
          <5>1. /\ stack' = SubSeq(stack, 1, Len(stack) - 1) /\ borrowed' = borrowed
                /\ depth' = IF Top.fn = "native_self" THEN LeaveNative(depth) ELSE depth
            BY <2>4, <3>4, <4>1, <4>3 DEF Panic
          <5>2. /\ stack' \in Seq(Frame) /\ Len(stack') = Len(stack) - 1
                /\ SameCalls(stack', stack, Len(stack'))
            BY <1>1, <3>2, <5>1, CutCalls
          <5>3. QED
            BY <1>1, <1>2, <3>1, <3>4, <4>1, <5>1, <5>2, AgreePop
        <4>4. QED
          BY <4>2, <4>3
      <3>5. QED
        BY <3>3, <3>4
    <2>5. CASE SetBudget
      BY <1>4, <2>5 DEF SetBudget, pluginVars
    <2>6. ASSUME NEW fn \in {"native", "native_self"}, Native(fn)
          PROVE  Agree(stack, borrowed, depth)'
      <3>1. /\ stack' = Append(stack, Call(fn, "plugin")) /\ borrowed' = borrowed
            /\ depth' = IF fn = "native_self" THEN depth + 1 ELSE depth
        BY <2>6 DEF Native, Push
      <3>2. Call(fn, "plugin") \in Frame /\ Call(fn, "plugin").fn = fn
        BY CallIsFrame
      <3>3. QED
        BY <1>1, <1>2, <3>1, <3>2, AgreeCall
    <2>7. QED
      BY <1>11, <2>1, <2>2, <2>3, <2>4, <2>5, <2>6 DEF PluginStep
  <1>12. CASE Script \/ UNCHANGED vars
    BY <1>4, <1>12 DEF Script, vars, pluginVars
  <1>13. QED
    BY <1>6, <1>7, <1>8, <1>9, <1>10, <1>11, <1>12 DEF Next

\* The invariant gives both properties.
LEMMA LendGives == LendInv => FlagsMatchStack /\ LendsOnce
  <1> SUFFICES ASSUME LendInv
               PROVE  FlagsMatchStack /\ LendsOnce
    OBVIOUS
  <1>1. stack \in Seq(Frame) /\ depth \in Nat /\ Agree(stack, borrowed, depth)
    BY DEF LendInv, TypeInv, TypeOK
  <1>2. depth > 0 <=> Counted(stack) # {}
    BY <1>1, CountedIsFinite, FS_EmptySet DEF Agree
  <1>3. FlagsMatchStack
    BY <1>1, <1>2 DEF Agree, Borrows, Counted, FlagsMatchStack
  <1>4. QED
    BY <1>1, <1>3 DEF Agree, Alone, LendsOnce

\* PLUGIN_BORROWED and NATIVE_DEPTH say what the main thread's stack says,
\* however calls nest and wherever they panic.
THEOREM FlagsCorrect == SafeSpec => []FlagsMatchStack
  BY LendGives, LendInit, LendNext, PTL DEF SafeSpec

\* with_instance never lends the plugin underneath itself or under a native
\* that holds it, for any depth of nesting and anything the plugin calls.
THEOREM LentOnce == SafeSpec => []LendsOnce
  BY LendGives, LendInit, LendNext, PTL DEF SafeSpec

(***************************************************************************)
(* Sequences without repetition.                                           *)
(***************************************************************************)

In(id, q) == \E i \in 1 .. Len(q) : q[i] = id

Distinct(q) == \A i, j \in 1 .. Len(q) : q[i] = q[j] => i = j

LEMMA EmptyHolds == Distinct(<<>>) /\ \A id \in Nat : ~In(id, <<>>)
  <1>1. Len(<<>>) = 0
    OBVIOUS
  <1>2. 1 .. 0 = {}
    OBVIOUS
  <1>3. QED
    BY <1>1, <1>2 DEF Distinct, In

LEMMA AppendHolds ==
  ASSUME NEW q \in Seq(Nat), NEW x \in Nat
  PROVE  /\ \A id \in Nat : In(id, Append(q, x)) <=> In(id, q) \/ id = x
         /\ Distinct(q) /\ ~In(x, q) => Distinct(Append(q, x))
  <1> DEFINE r == Append(q, x)
             n == Len(q)
  <1>1. /\ n \in Nat /\ Len(r) = n + 1 /\ r[n + 1] = x
        /\ \A i \in 1 .. n : r[i] = q[i]
    BY AppendProperties, LenProperties
  <1> HIDE DEF r
  <1>2. 1 .. n + 1 = (1 .. n) \cup {n + 1}
    BY <1>1
  <1>3. \A id \in Nat : In(id, r) <=> In(id, q) \/ id = x
    BY <1>1, <1>2 DEF In
  <1>4. ASSUME Distinct(q), ~In(x, q)
        PROVE  Distinct(r)
    <2> SUFFICES ASSUME NEW i \in 1 .. n + 1, NEW j \in 1 .. n + 1, r[i] = r[j]
                 PROVE  i = j
      BY <1>1 DEF Distinct
    <2>1. CASE i \in 1 .. n /\ j \in 1 .. n
      BY <1>1, <1>4, <2>1 DEF Distinct
    <2>2. CASE i = n + 1 /\ j \in 1 .. n
      BY <1>1, <1>4, <2>2 DEF In
    <2>3. CASE i \in 1 .. n /\ j = n + 1
      BY <1>1, <1>4, <2>3 DEF In
    <2>4. QED
      BY <1>2, <2>1, <2>2, <2>3
  <1>5. QED
    BY <1>3, <1>4 DEF r

LEMMA TailHolds ==
  ASSUME NEW q \in Seq(Nat), q # <<>>
  PROVE  /\ Head(q) \in Nat /\ Tail(q) \in Seq(Nat)
         /\ \A id \in Nat : In(id, q) <=> In(id, Tail(q)) \/ id = Head(q)
         /\ Distinct(q) => Distinct(Tail(q)) /\ ~In(Head(q), Tail(q))
  <1> DEFINE t == Tail(q)
             n == Len(q)
  <1>1. n \in Nat \ {0} /\ Head(q) = q[1] /\ q[1] \in Nat
    <2>1. n \in Nat \ {0}
      BY EmptySeq, LenProperties
    <2>2. 1 \in 1 .. n
      BY <2>1
    <2>3. QED
      BY <2>1, <2>2, ElementOfSeq
  <1>2. t \in Seq(Nat) /\ Len(t) = n - 1 /\ \A i \in 1 .. n - 1 : t[i] = q[i + 1]
    BY <1>1, HeadTailProperties
  <1> HIDE DEF t, n
  <1>3. ASSUME NEW id \in Nat, In(id, q)
        PROVE  In(id, t) \/ id = Head(q)
    <2>1. PICK i \in 1 .. n : q[i] = id
      BY <1>3 DEF In, n
    <2>2. CASE i = 1
      BY <1>1, <2>1, <2>2
    <2>3. CASE i # 1
      <3>1. i - 1 \in 1 .. n - 1 /\ (i - 1) + 1 = i
        BY <1>1, <2>3
      <3>2. t[i - 1] = id
        BY <1>2, <2>1, <3>1
      <3>3. QED
        BY <1>2, <3>1, <3>2 DEF In
    <2>4. QED
      BY <2>2, <2>3
  <1>4. ASSUME NEW id \in Nat, In(id, t) \/ id = Head(q)
        PROVE  In(id, q)
    <2>1. CASE id = Head(q)
      <3>1. 1 \in 1 .. n /\ q[1] = id
        BY <1>1, <2>1
      <3>2. QED
        BY <3>1 DEF In, n
    <2>2. CASE In(id, t)
      <3>1. PICK i \in 1 .. n - 1 : t[i] = id
        BY <1>2, <2>2 DEF In
      <3>2. i + 1 \in 1 .. n /\ q[i + 1] = id
        BY <1>1, <1>2, <3>1
      <3>3. QED
        BY <3>2 DEF In, n
    <2>3. QED
      BY <1>4, <2>1, <2>2
  <1>5. ASSUME Distinct(q)
        PROVE  Distinct(t) /\ ~In(Head(q), t)
    <2>1. ASSUME NEW i \in 1 .. n - 1, NEW j \in 1 .. n - 1, t[i] = t[j]
          PROVE  i = j
      <3>1. i + 1 \in 1 .. n /\ j + 1 \in 1 .. n /\ q[i + 1] = q[j + 1]
        BY <1>1, <1>2, <2>1
      <3>2. i + 1 = j + 1
        BY <1>5, <3>1 DEF Distinct, n
      <3>3. QED
        BY <3>2
    <2>2. ASSUME NEW i \in 1 .. n - 1
          PROVE  t[i] # q[1]
      <3>1. i + 1 \in 1 .. n /\ 1 \in 1 .. n /\ i + 1 # 1 /\ t[i] = q[i + 1]
        BY <1>1, <1>2
      <3>2. QED
        BY <1>5, <3>1 DEF Distinct, n
    <2>3. QED
      BY <1>1, <1>2, <2>1, <2>2 DEF Distinct, In
  <1>6. QED
    BY <1>1, <1>2, <1>3, <1>4, <1>5 DEF t

LEMMA ConcatHolds ==
  ASSUME NEW p \in Seq(Nat), NEW q \in Seq(Nat)
  PROVE  /\ p \o q \in Seq(Nat)
         /\ \A id \in Nat : In(id, p \o q) <=> In(id, p) \/ In(id, q)
         /\ Distinct(p) /\ Distinct(q) /\ (\A id \in Nat : In(id, p) => ~In(id, q))
              => Distinct(p \o q)
  <1> DEFINE r == p \o q
             m == Len(p)
             n == Len(q)
  <1>1. /\ m \in Nat /\ n \in Nat /\ r \in Seq(Nat) /\ Len(r) = m + n
        /\ \A i \in 1 .. m + n : r[i] = IF i <= m THEN p[i] ELSE q[i - m]
    BY ConcatProperties, LenProperties
  <1>2. /\ \A i \in 1 .. m : i \in 1 .. m + n /\ r[i] = p[i]
        /\ \A i \in 1 .. n : m + i \in 1 .. m + n /\ r[m + i] = q[i]
        /\ \A i \in 1 .. m + n : i \in 1 .. m \/ (i - m \in 1 .. n /\ i = m + (i - m))
    <2>1. \A i \in 1 .. m : i \in 1 .. m + n /\ i <= m
      BY <1>1
    <2>2. \A i \in 1 .. n : m + i \in 1 .. m + n /\ ~(m + i <= m) /\ (m + i) - m = i
      BY <1>1
    <2>3. \A i \in 1 .. m + n : i \in 1 .. m \/ (i - m \in 1 .. n /\ i = m + (i - m))
      BY <1>1
    <2> HIDE DEF r, m, n
    <2>4. QED
      BY <1>1, <2>1, <2>2, <2>3
  <1>3. /\ \A i \in 1 .. m : p[i] \in Nat
        /\ \A i \in 1 .. n : q[i] \in Nat
    BY ElementOfSeq
  <1> HIDE DEF r, m, n
  <1>4. ASSUME NEW id \in Nat
        PROVE  In(id, r) <=> In(id, p) \/ In(id, q)
    <2>1. ASSUME In(id, r)
          PROVE  In(id, p) \/ In(id, q)
      <3>1. PICK i \in 1 .. m + n : r[i] = id
        BY <1>1, <2>1 DEF In
      <3>2. CASE i \in 1 .. m
        BY <1>2, <3>1, <3>2 DEF In, m
      <3>3. CASE i - m \in 1 .. n /\ i = m + (i - m)
        <4>1. q[i - m] = id
          BY <1>2, <3>1, <3>3
        <4>2. QED
          BY <3>3, <4>1 DEF In, n
      <3>4. QED
        BY <1>2, <3>2, <3>3
    <2>2. ASSUME In(id, p)
          PROVE  In(id, r)
      <3>1. PICK i \in 1 .. m : p[i] = id
        BY <2>2 DEF In, m
      <3>2. QED
        BY <1>1, <1>2, <3>1 DEF In
    <2>3. ASSUME In(id, q)
          PROVE  In(id, r)
      <3>1. PICK i \in 1 .. n : q[i] = id
        BY <2>3 DEF In, n
      <3>2. QED
        BY <1>1, <1>2, <3>1 DEF In
    <2>4. QED
      BY <2>1, <2>2, <2>3
  <1>5. ASSUME Distinct(p), Distinct(q), \A id \in Nat : In(id, p) => ~In(id, q)
        PROVE  Distinct(r)
    <2>1. \A i, j \in 1 .. m : p[i] = p[j] => i = j
      BY <1>5 DEF Distinct, m
    <2>2. \A i, j \in 1 .. n : q[i] = q[j] => i = j
      BY <1>5 DEF Distinct, n
    <2>3. \A i \in 1 .. m : \A j \in 1 .. n : p[i] # q[j]
      BY <1>3, <1>5 DEF In, m, n
    <2> SUFFICES ASSUME NEW i \in 1 .. m + n, NEW j \in 1 .. m + n, r[i] = r[j]
                 PROVE  i = j
      BY <1>1 DEF Distinct
    <2> DEFINE x == i - m
               y == j - m
    <2>4. i \in 1 .. m \/ (x \in 1 .. n /\ i = m + x)
      BY <1>2
    <2>5. j \in 1 .. m \/ (y \in 1 .. n /\ j = m + y)
      BY <1>2
    <2> HIDE DEF x, y
    <2>6. CASE i \in 1 .. m /\ j \in 1 .. m
      BY <1>2, <2>1, <2>6
    <2>7. CASE i \in 1 .. m /\ y \in 1 .. n /\ j = m + y
      BY <1>2, <2>3, <2>7
    <2>8. CASE x \in 1 .. n /\ i = m + x /\ j \in 1 .. m
      BY <1>2, <2>3, <2>8
    <2>9. CASE x \in 1 .. n /\ i = m + x /\ y \in 1 .. n /\ j = m + y
      <3>1. q[x] = q[y]
        BY <1>2, <2>9
      <3>2. QED
        BY <2>2, <2>9, <3>1
    <2>10. QED
      BY <2>4, <2>5, <2>6, <2>7, <2>8, <2>9
  <1>6. QED
    BY <1>1, <1>4, <1>5 DEF r

(***************************************************************************)
(* A queue J, a batch B[d] for each depth d and the started jobs S, with n *)
(* jobs posted.                                                            *)
(***************************************************************************)

\* What is in the queue is in no batch and not started; what is in a batch is
\* in no other and not started; and every job posted is somewhere.
Held(J, B, S, n) ==
  /\ \A id \in Nat : In(id, J) => id <= n /\ ~In(id, S) /\ \A d \in Nat : ~In(id, B[d])
  /\ \A id \in Nat : \A d \in Nat : In(id, B[d]) =>
       id <= n /\ ~In(id, S) /\ \A c \in Nat : In(id, B[c]) => c = d
  /\ \A id \in Nat : In(id, S) => id <= n
  /\ \A id \in 1 .. n : In(id, J) \/ In(id, S) \/ \E d \in Nat : In(id, B[d])
  /\ Distinct(J)
  /\ Distinct(S)
  /\ \A d \in Nat : Distinct(B[d])

\* post() appends the newest job.
LEMMA HeldPost ==
  ASSUME NEW J \in Seq(Nat), NEW B \in [Nat -> Seq(Nat)], NEW S \in Seq(Nat), NEW n \in Nat,
         Held(J, B, S, n)
  PROVE  Held(Append(J, n + 1), B, S, n + 1)
  <1> DEFINE K == Append(J, n + 1)
  <1>1. n + 1 \in Nat /\ ~(n + 1 <= n) /\ (\A id \in Nat : id <= n => id <= n + 1)
    <2>1. n + 1 \in Nat
      OBVIOUS
    <2>2. ~(n + 1 <= n)
      OBVIOUS
    <2>3. \A id \in Nat : id <= n => id <= n + 1
      OBVIOUS
    <2>4. QED
      BY <2>1, <2>2, <2>3
  <1>2. ~In(n + 1, J) /\ ~In(n + 1, S) /\ \A d \in Nat : ~In(n + 1, B[d])
    BY <1>1 DEF Held
  <1>3. \A id \in Nat : In(id, K) <=> In(id, J) \/ id = n + 1
    BY <1>1, AppendHolds
  <1>4. Distinct(K)
    BY <1>1, <1>2, AppendHolds DEF Held
  <1> HIDE DEF K
  <1>5. \A id \in Nat : In(id, K) => id <= n + 1 /\ ~In(id, S) /\ \A d \in Nat : ~In(id, B[d])
    <2> SUFFICES ASSUME NEW id \in Nat, In(id, K)
                 PROVE  id <= n + 1 /\ ~In(id, S) /\ \A d \in Nat : ~In(id, B[d])
      OBVIOUS
    <2>1. CASE id = n + 1
      BY <1>2, <2>1
    <2>2. CASE In(id, J)
      BY <1>1, <2>2 DEF Held
    <2>3. QED
      BY <1>3, <2>1, <2>2
  <1>6. \A id \in Nat : \A d \in Nat : In(id, B[d]) =>
          id <= n + 1 /\ ~In(id, S) /\ \A c \in Nat : In(id, B[c]) => c = d
    BY <1>1 DEF Held
  <1>7. \A id \in 1 .. n + 1 : In(id, K) \/ In(id, S) \/ \E d \in Nat : In(id, B[d])
    <2> SUFFICES ASSUME NEW id \in 1 .. n + 1
                 PROVE  In(id, K) \/ In(id, S) \/ \E d \in Nat : In(id, B[d])
      OBVIOUS
    <2>1. id \in Nat /\ (id = n + 1 \/ id \in 1 .. n)
      OBVIOUS
    <2>2. CASE id = n + 1
      BY <1>3, <2>1, <2>2
    <2>3. CASE id \in 1 .. n
      BY <1>3, <2>1, <2>3 DEF Held
    <2>4. QED
      BY <2>1, <2>2, <2>3
  <1>8. QED
    BY <1>1, <1>4, <1>5, <1>6, <1>7 DEF Held, K

\* A take moves the queue to an empty batch.
LEMMA HeldTake ==
  ASSUME NEW J \in Seq(Nat), NEW B \in [Nat -> Seq(Nat)], NEW S \in Seq(Nat), NEW n \in Nat,
         NEW t \in Nat, B[t] = <<>>, Held(J, B, S, n)
  PROVE  Held(<<>>, [B EXCEPT ![t] = J], S, n)
  <1> DEFINE C == [B EXCEPT ![t] = J]
             E == <<>>
  <1>1. C[t] = J /\ \A d \in Nat : d # t => C[d] = B[d]
    OBVIOUS
  <1>2. Distinct(E) /\ \A id \in Nat : ~In(id, E)
    BY EmptyHolds
  <1>3. \A id \in Nat : ~In(id, B[t])
    BY EmptyHolds
  <1> HIDE DEF C, E
  <1>4. \A id \in Nat : \A d \in Nat : In(id, C[d]) =>
          id <= n /\ ~In(id, S) /\ \A c \in Nat : In(id, C[c]) => c = d
    <2> SUFFICES ASSUME NEW id \in Nat, NEW d \in Nat, In(id, C[d])
                 PROVE  id <= n /\ ~In(id, S) /\ \A c \in Nat : In(id, C[c]) => c = d
      OBVIOUS
    <2>1. CASE d = t
      <3>1. In(id, J)
        BY <1>1, <2>1
      <3>2. QED
        BY <1>1, <2>1, <3>1 DEF Held
    <2>2. CASE d # t
      <3>1. In(id, B[d])
        BY <1>1, <2>2
      <3>2. ~In(id, J)
        BY <3>1 DEF Held
      <3>3. QED
        BY <1>1, <2>2, <3>1, <3>2 DEF Held
    <2>3. QED
      BY <2>1, <2>2
  <1>5. \A id \in 1 .. n : In(id, E) \/ In(id, S) \/ \E d \in Nat : In(id, C[d])
    <2> SUFFICES ASSUME NEW id \in 1 .. n, ~In(id, S)
                 PROVE  \E d \in Nat : In(id, C[d])
      OBVIOUS
    <2>1. CASE In(id, J)
      BY <1>1, <2>1
    <2>2. CASE \E d \in Nat : In(id, B[d])
      <3>1. PICK d \in Nat : In(id, B[d])
        BY <2>2
      <3>2. d # t
        BY <1>3, <3>1
      <3>3. QED
        BY <1>1, <3>1, <3>2
    <2>3. QED
      BY <2>1, <2>2 DEF Held
  <1>6. \A d \in Nat : Distinct(C[d])
    BY <1>1 DEF Held
  <1>7. QED
    BY <1>2, <1>4, <1>5, <1>6 DEF Held, C, E

\* Starting the first job of a batch moves it to the started ones.
LEMMA HeldStart ==
  ASSUME NEW J \in Seq(Nat), NEW B \in [Nat -> Seq(Nat)], NEW S \in Seq(Nat), NEW n \in Nat,
         NEW t \in Nat, B[t] # <<>>, Held(J, B, S, n)
  PROVE  Held(J, [B EXCEPT ![t] = Tail(B[t])], Append(S, Head(B[t])), n)
  <1> DEFINE h == Head(B[t])
             C == [B EXCEPT ![t] = Tail(B[t])]
             R == Append(S, h)
  <1>1. C[t] = Tail(B[t]) /\ \A d \in Nat : d # t => C[d] = B[d]
    OBVIOUS
  <1>2. /\ h \in Nat
        /\ \A id \in Nat : In(id, B[t]) <=> In(id, C[t]) \/ id = h
        /\ Distinct(C[t]) /\ ~In(h, C[t])
    BY <1>1, TailHolds DEF Held
  <1>3. h <= n /\ ~In(h, S) /\ ~In(h, J) /\ \A c \in Nat : In(h, B[c]) => c = t
    BY <1>2 DEF Held
  <1>4. (\A id \in Nat : In(id, R) <=> In(id, S) \/ id = h) /\ Distinct(R)
    <2>1. Distinct(S)
      BY DEF Held
    <2> HIDE DEF h
    <2>2. QED
      BY <1>2, <1>3, <2>1, AppendHolds
  <1> HIDE DEF h, C, R
  \* What is left in the batches was in them, and is not the job started.
  <1>5. \A id \in Nat : \A d \in Nat : In(id, C[d]) => In(id, B[d]) /\ id # h
    BY <1>1, <1>2, <1>3
  <1>6. \A id \in Nat : In(id, J) => id <= n /\ ~In(id, R) /\ \A d \in Nat : ~In(id, C[d])
    BY <1>3, <1>4, <1>5 DEF Held
  <1>7. \A id \in Nat : \A d \in Nat : In(id, C[d]) =>
          id <= n /\ ~In(id, R) /\ \A c \in Nat : In(id, C[c]) => c = d
    BY <1>4, <1>5 DEF Held
  <1>8. \A id \in 1 .. n : In(id, J) \/ In(id, R) \/ \E d \in Nat : In(id, C[d])
    <2> SUFFICES ASSUME NEW id \in 1 .. n, ~In(id, J), ~In(id, R)
                 PROVE  \E d \in Nat : In(id, C[d])
      OBVIOUS
    <2>1. id # h /\ ~In(id, S)
      BY <1>4
    <2>2. PICK d \in Nat : In(id, B[d])
      BY <2>1 DEF Held
    <2>3. In(id, C[d])
      <3>1. CASE d = t
        BY <1>2, <2>1, <2>2, <3>1
      <3>2. CASE d # t
        BY <1>1, <2>2, <3>2
      <3>3. QED
        BY <3>1, <3>2
    <2>4. QED
      BY <2>3
  <1>9. \A d \in Nat : Distinct(C[d])
    BY <1>1, <1>2 DEF Held
  <1>10. \A id \in Nat : In(id, R) => id <= n
    BY <1>3, <1>4 DEF Held
  <1>11. QED
    BY <1>4, <1>6, <1>7, <1>8, <1>9, <1>10 DEF Held, C, R, h

\* put_back moves the rest of a batch to the front of the queue.
LEMMA HeldPutBack ==
  ASSUME NEW J \in Seq(Nat), NEW B \in [Nat -> Seq(Nat)], NEW S \in Seq(Nat), NEW n \in Nat,
         NEW t \in Nat, Held(J, B, S, n)
  PROVE  Held(B[t] \o J, [B EXCEPT ![t] = <<>>], S, n)
  <1> DEFINE K == B[t] \o J
             C == [B EXCEPT ![t] = <<>>]
  <1>1. C[t] = <<>> /\ \A d \in Nat : d # t => C[d] = B[d]
    OBVIOUS
  <1>2. Distinct(C[t]) /\ \A id \in Nat : ~In(id, C[t])
    BY <1>1, EmptyHolds
  <1>3. \A id \in Nat : In(id, B[t]) => ~In(id, J)
    BY DEF Held
  <1>4. (\A id \in Nat : In(id, K) <=> In(id, B[t]) \/ In(id, J)) /\ Distinct(K)
    BY <1>3, ConcatHolds DEF Held
  <1> HIDE DEF K, C
  <1>5. \A id \in Nat : \A d \in Nat : In(id, C[d]) => d # t /\ In(id, B[d])
    BY <1>1, <1>2
  <1>6. \A id \in Nat : In(id, K) => id <= n /\ ~In(id, S) /\ \A d \in Nat : ~In(id, C[d])
    <2> SUFFICES ASSUME NEW id \in Nat, In(id, K)
                 PROVE  id <= n /\ ~In(id, S) /\ \A d \in Nat : ~In(id, C[d])
      OBVIOUS
    <2>1. CASE In(id, J)
      BY <1>5, <2>1 DEF Held
    <2>2. CASE In(id, B[t])
      BY <1>5, <2>2 DEF Held
    <2>3. QED
      BY <1>4, <2>1, <2>2
  <1>7. \A id \in Nat : \A d \in Nat : In(id, C[d]) =>
          id <= n /\ ~In(id, S) /\ \A c \in Nat : In(id, C[c]) => c = d
    BY <1>5 DEF Held
  <1>8. \A id \in 1 .. n : In(id, K) \/ In(id, S) \/ \E d \in Nat : In(id, C[d])
    <2> SUFFICES ASSUME NEW id \in 1 .. n, ~In(id, K), ~In(id, S)
                 PROVE  \E d \in Nat : In(id, C[d])
      OBVIOUS
    <2>1. ~In(id, J) /\ ~In(id, B[t])
      BY <1>4
    <2>2. PICK d \in Nat : In(id, B[d])
      BY <2>1 DEF Held
    <2>3. QED
      BY <1>1, <2>1, <2>2
  <1>9. \A d \in Nat : Distinct(C[d])
    BY <1>1, <1>2 DEF Held
  <1>10. QED
    BY <1>4, <1>6, <1>7, <1>8, <1>9 DEF Held, K, C

(***************************************************************************)
(* The batches on the main thread's stack.                                 *)
(***************************************************************************)

BatchesOf(s) == [d \in Nat |-> IF d \in DOMAIN s THEN s[d].left ELSE <<>>]

\* Only a drain that has taken its batch holds one.
OnlyDrains(s) ==
  \A d \in DOMAIN s : s[d].left # <<>> => s[d].fn = "run_pending" /\ s[d].at # "take"

LEMMA JobsAreNumbers == ASSUME NEW q \in Seq(Job) PROVE q \in Seq(Nat)
  <1>1. Job \subseteq Nat
    BY BoundsAssumption DEF Job
  <1>2. Len(q) \in Nat /\ q \in [1 .. Len(q) -> Job]
    BY LenProperties
  <1>3. q \in [1 .. Len(q) -> Nat]
    BY <1>1, <1>2
  <1>4. QED
    BY <1>2, <1>3, SeqDef

LEMMA BatchesType ==
  ASSUME NEW s \in Seq(Frame)
  PROVE  /\ BatchesOf(s) \in [Nat -> Seq(Nat)]
         /\ \A d \in 1 .. Len(s) : BatchesOf(s)[d] = s[d].left
  <1>1. DOMAIN s = 1 .. Len(s) /\ Len(s) \in Nat
    BY LenProperties
  <1>2. ASSUME NEW d \in Nat
        PROVE  (IF d \in DOMAIN s THEN s[d].left ELSE <<>>) \in Seq(Nat)
    <2>1. CASE d \in DOMAIN s
      <3>1. s[d] \in Frame
        BY <1>1, <2>1, ElementOfSeq
      <3>2. s[d].left \in Seq(Job)
        BY <3>1 DEF Frame
      <3>3. QED
        BY <2>1, <3>2, JobsAreNumbers
    <2>2. CASE d \notin DOMAIN s
      BY <2>2
    <2>3. QED
      BY <2>1, <2>2
  <1>3. BatchesOf(s) \in [Nat -> Seq(Nat)]
    BY <1>2 DEF BatchesOf
  <1>4. \A d \in 1 .. Len(s) : d \in Nat
    BY <1>1
  <1>5. QED
    BY <1>1, <1>3, <1>4 DEF BatchesOf

\* Leaving frames that hold no batch.
LEMMA BatchesStay ==
  ASSUME NEW s \in Seq(Frame), NEW r \in Seq(Frame), Len(r) <= Len(s),
         \A d \in 1 .. Len(r) : r[d].left = s[d].left,
         \A d \in 1 .. Len(s) : d > Len(r) => s[d].left = <<>>
  PROVE  BatchesOf(r) = BatchesOf(s)
  <1>1. /\ DOMAIN s = 1 .. Len(s) /\ Len(s) \in Nat
        /\ DOMAIN r = 1 .. Len(r) /\ Len(r) \in Nat
    BY LenProperties
  <1>2. ASSUME NEW d \in Nat
        PROVE  (IF d \in DOMAIN r THEN r[d].left ELSE <<>>)
                 = (IF d \in DOMAIN s THEN s[d].left ELSE <<>>)
    <2>1. CASE d \in 1 .. Len(r)
      BY <1>1, <2>1
    <2>2. CASE d \notin 1 .. Len(r) /\ d \in 1 .. Len(s)
      <3>1. d > Len(r)
        BY <1>1, <2>2
      <3>2. QED
        BY <1>1, <2>2, <3>1
    <2>3. CASE d \notin 1 .. Len(s) /\ d \notin 1 .. Len(r)
      BY <1>1, <2>3
    <2>4. QED
      BY <2>1, <2>2, <2>3
  <1>3. QED
    BY <1>2 DEF BatchesOf

\* Calling something that holds no batch.
LEMMA BatchesGrow ==
  ASSUME NEW s \in Seq(Frame), NEW f \in Frame, f.left = <<>>
  PROVE  BatchesOf(Append(s, f)) = BatchesOf(s) /\ (OnlyDrains(s) => OnlyDrains(Append(s, f)))
  <1> DEFINE r == Append(s, f)
             k == Len(s)
  <1>1. /\ k \in Nat /\ DOMAIN s = 1 .. k /\ DOMAIN r = 1 .. k + 1 /\ r[k + 1] = f
        /\ \A d \in 1 .. k : r[d] = s[d]
    BY LenProperties, AppendProperties
  <1> HIDE DEF r, k
  <1>2. 1 .. k + 1 = (1 .. k) \cup {k + 1}
    BY <1>1
  <1>3. ASSUME NEW d \in Nat
        PROVE  (IF d \in DOMAIN r THEN r[d].left ELSE <<>>)
                 = (IF d \in DOMAIN s THEN s[d].left ELSE <<>>)
    <2>1. CASE d \in 1 .. k
      BY <1>1, <1>2, <2>1
    <2>2. CASE d = k + 1
      <3>1. d \notin 1 .. k
        BY <1>1, <2>2
      <3>2. QED
        BY <1>1, <1>2, <2>2, <3>1
    <2>3. CASE d \notin 1 .. k + 1
      BY <1>1, <1>2, <2>3
    <2>4. QED
      BY <1>2, <2>1, <2>2, <2>3
  <1>4. BatchesOf(r) = BatchesOf(s)
    BY <1>3 DEF BatchesOf
  <1>5. OnlyDrains(s) => OnlyDrains(r)
    BY <1>1, <1>2 DEF OnlyDrains
  <1>6. QED
    BY <1>4, <1>5 DEF r

\* Changing the innermost frame, or leaving it.
LEMMA BatchesSet ==
  ASSUME NEW s \in Seq(Frame), NEW r \in Seq(Frame), s # <<>>, Len(r) = Len(s),
         \A d \in 1 .. Len(s) - 1 : r[d] = s[d]
  PROVE  BatchesOf(r) = [BatchesOf(s) EXCEPT ![Len(s)] = r[Len(s)].left]
  <1> DEFINE k == Len(s)
  <1>1. k \in Nat \ {0} /\ DOMAIN s = 1 .. k /\ DOMAIN r = 1 .. k
    BY EmptySeq, LenProperties
  <1> HIDE DEF k
  <1>2. 1 .. k = (1 .. k - 1) \cup {k} /\ k \notin 1 .. k - 1
    BY <1>1
  <1>3. ASSUME NEW d \in Nat
        PROVE  (IF d \in DOMAIN r THEN r[d].left ELSE <<>>)
                 = [BatchesOf(s) EXCEPT ![k] = r[k].left][d]
    <2>1. CASE d = k
      BY <1>1, <1>2, <2>1 DEF BatchesOf
    <2>2. CASE d \in 1 .. k - 1
      <3>1. r[d] = s[d]
        BY <2>2 DEF k
      <3>2. d # k
        BY <1>2, <2>2
      <3>3. QED
        BY <1>1, <1>2, <2>2, <3>1, <3>2 DEF BatchesOf
    <2>3. CASE d \notin 1 .. k
      <3>1. d # k
        BY <1>2, <2>3
      <3>2. QED
        BY <1>1, <2>3, <3>1 DEF BatchesOf
    <2>4. QED
      BY <1>2, <2>1, <2>2, <2>3
  <1>4. DOMAIN [BatchesOf(s) EXCEPT ![k] = r[k].left] = Nat
    BY DEF BatchesOf
  <1>5. QED
    BY <1>3, <1>4 DEF BatchesOf, k

LEMMA BatchesPop ==
  ASSUME NEW s \in Seq(Frame), NEW r \in Seq(Frame), s # <<>>, Len(r) = Len(s) - 1,
         \A d \in 1 .. Len(s) - 1 : r[d] = s[d]
  PROVE  BatchesOf(r) = [BatchesOf(s) EXCEPT ![Len(s)] = <<>>]
  <1> DEFINE k == Len(s)
  <1>1. k \in Nat \ {0} /\ DOMAIN s = 1 .. k /\ DOMAIN r = 1 .. k - 1
    BY EmptySeq, LenProperties
  <1> HIDE DEF k
  <1>2. 1 .. k = (1 .. k - 1) \cup {k} /\ k \notin 1 .. k - 1
    BY <1>1
  <1>3. ASSUME NEW d \in Nat
        PROVE  (IF d \in DOMAIN r THEN r[d].left ELSE <<>>)
                 = [BatchesOf(s) EXCEPT ![k] = <<>>][d]
    <2>1. CASE d = k
      BY <1>1, <1>2, <2>1 DEF BatchesOf
    <2>2. CASE d # k
      BY <1>1, <1>2, <2>2 DEF BatchesOf, k
    <2>3. QED
      BY <2>1, <2>2
  <1>4. DOMAIN [BatchesOf(s) EXCEPT ![k] = <<>>] = Nat
    BY DEF BatchesOf
  <1>5. QED
    BY <1>3, <1>4 DEF BatchesOf, k

\* The parts of a stack whose innermost frame moved on, or was left.
LEMMA SetTopParts ==
  ASSUME TypeInv, stack # <<>>, NEW f \in Frame
  PROVE  /\ SetTop(f) \in Seq(Frame)
         /\ Len(SetTop(f)) = Len(stack)
         /\ SetTop(f)[Len(stack)] = f
         /\ \A d \in 1 .. Len(stack) - 1 : SetTop(f)[d] = stack[d]
  <1>1. stack \in Seq(Frame) /\ Len(stack) \in 1 .. Len(stack)
    BY TopOfStack DEF TypeInv, TypeOK
  <1>2. ASSUME NEW n \in 1 .. Len(stack), n = Len(stack)
        PROVE  /\ SetTop(f) \in Seq(Frame)
               /\ Len(SetTop(f)) = n
               /\ SetTop(f)[n] = f
               /\ \A i \in 1 .. n - 1 : SetTop(f)[i] = stack[i]
    BY <1>1, <1>2, SetFrame DEF SetTop, Below
  <1>3. QED
    BY <1>1, <1>2

LEMMA CutParts ==
  ASSUME TypeInv, NEW n \in 0 .. Len(stack)
  PROVE  /\ SubSeq(stack, 1, n) \in Seq(Frame)
         /\ Len(SubSeq(stack, 1, n)) = n
         /\ \A d \in 1 .. n : SubSeq(stack, 1, n)[d] = stack[d]
  BY PrefixOfStack DEF TypeInv, TypeOK

LEMMA FinishJobParts ==
  ASSUME TypeInv, NEW i \in 1 .. Len(stack), NEW outcome, FinishJob(i, outcome)
  PROVE  /\ stack' \in Seq(Frame)
         /\ Len(stack') = i
         /\ stack'[i].left = stack[i].left /\ stack'[i].fn = stack[i].fn
         /\ stack'[i].at \in {"loop", "put_back"}
         /\ stack'[i].id = 0 /\ stack'[i].upto = stack[i].upto
         /\ \A d \in 1 .. i - 1 : stack'[d] = stack[d]
  <1>1. stack \in Seq(Frame) /\ stack[i] \in Frame
    BY ElementOfSeq DEF TypeInv, TypeOK
  <1>2. PICK next \in AfterJob(stack[i].limited) :
          stack' = Append(SubSeq(stack, 1, i - 1), [stack[i] EXCEPT !.at = next, !.id = 0])
    BY DEF FinishJob
  <1>3. next \in {"loop", "put_back"}
    BY <1>2 DEF AfterJob
  <1> DEFINE f == [stack[i] EXCEPT !.at = next, !.id = 0]
  <1>4. f \in Frame /\ f.fn = stack[i].fn
    BY <1>1, <1>3, JobOver
  <1>5. f.left = stack[i].left /\ f.at = next /\ f.id = 0 /\ f.upto = stack[i].upto
    BY <1>1 DEF Frame
  <1> HIDE DEF f
  <1>6. /\ stack' \in Seq(Frame)
        /\ Len(stack') = i
        /\ stack'[i] = f
        /\ \A j \in 1 .. i - 1 : stack'[j] = stack[j]
    BY <1>1, <1>2, <1>4, SetFrame DEF f
  <1>7. QED
    BY <1>3, <1>4, <1>5, <1>6

\* Finishing a job leaves the batches as they were, when the frames unwound
\* above it hold none.
LEMMA FinishJobKeeps ==
  ASSUME TypeInv, OnlyDrains(stack), NEW i \in 1 .. Len(stack), NEW outcome,
         FinishJob(i, outcome), stack[i].fn = "run_pending",
         \A d \in 1 .. Len(stack) : d > i => stack[d].fn # "run_pending"
  PROVE  BatchesOf(stack') = BatchesOf(stack) /\ OnlyDrains(stack')
  <1>1. stack \in Seq(Frame) /\ Len(stack) \in Nat /\ DOMAIN stack = 1 .. Len(stack)
    BY LenProperties DEF TypeInv, TypeOK
  <1>2. /\ stack' \in Seq(Frame) /\ Len(stack') = i
        /\ stack'[i].left = stack[i].left /\ stack'[i].fn = stack[i].fn
        /\ stack'[i].at \in {"loop", "put_back"}
        /\ \A d \in 1 .. i - 1 : stack'[d] = stack[d]
    BY FinishJobParts
  <1>3. \A d \in 1 .. i : d = i \/ d \in 1 .. i - 1
    OBVIOUS
  <1>4. \A d \in 1 .. i : stack'[d].left = stack[d].left
    BY <1>2, <1>3
  <1>5. \A d \in 1 .. Len(stack) : d > i => stack[d].left = <<>>
    BY <1>1 DEF OnlyDrains
  <1>6. BatchesOf(stack') = BatchesOf(stack)
    BY <1>1, <1>2, <1>4, <1>5, BatchesStay
  <1>7. DOMAIN stack' = 1 .. i /\ \A d \in 1 .. i : d \in DOMAIN stack
    BY <1>1, <1>2, LenProperties
  <1>8. OnlyDrains(stack')
    BY <1>2, <1>3, <1>7 DEF OnlyDrains
  <1>9. QED
    BY <1>6, <1>8

\* So does leaving frames that hold none.
LEMMA CutKeeps ==
  ASSUME TypeInv, OnlyDrains(stack), NEW n \in 0 .. Len(stack), stack' = SubSeq(stack, 1, n),
         \A d \in 1 .. Len(stack) : d > n => stack[d].left = <<>>
  PROVE  BatchesOf(stack') = BatchesOf(stack) /\ OnlyDrains(stack')
  <1>1. stack \in Seq(Frame) /\ Len(stack) \in Nat /\ DOMAIN stack = 1 .. Len(stack)
    BY LenProperties DEF TypeInv, TypeOK
  <1>2. /\ stack' \in Seq(Frame) /\ Len(stack') = n
        /\ \A d \in 1 .. n : stack'[d] = stack[d]
    BY CutParts
  <1>3. BatchesOf(stack') = BatchesOf(stack)
    <2>1. Len(stack') <= Len(stack) /\ \A d \in 1 .. Len(stack') : stack'[d].left = stack[d].left
      BY <1>1, <1>2
    <2>2. \A d \in 1 .. Len(stack) : d > Len(stack') => stack[d].left = <<>>
      BY <1>2
    <2>3. QED
      BY <1>1, <1>2, <2>1, <2>2, BatchesStay
  <1>4. DOMAIN stack' = 1 .. n /\ \A d \in 1 .. n : d \in DOMAIN stack
    BY <1>1, <1>2, LenProperties
  <1>5. OnlyDrains(stack')
    BY <1>2, <1>4 DEF OnlyDrains
  <1>6. QED
    BY <1>3, <1>5

\* And so does a drain that moves on, or a tick, with the batch it holds.
LEMMA SetTopKeeps ==
  ASSUME TypeInv, OnlyDrains(stack), stack # <<>>, NEW f \in Frame,
         f.left # <<>> => f.fn = "run_pending" /\ f.at # "take"
  PROVE  /\ OnlyDrains(SetTop(f))
         /\ BatchesOf(SetTop(f)) = [BatchesOf(stack) EXCEPT ![Len(stack)] = f.left]
         /\ f.left = Top.left => BatchesOf(SetTop(f)) = BatchesOf(stack)
  <1>1. /\ stack \in Seq(Frame) /\ DOMAIN stack = 1 .. Len(stack)
        /\ Len(stack) \in Nat /\ Len(stack) \in 1 .. Len(stack)
    BY TopOfStack, LenProperties DEF TypeInv, TypeOK
  <1>2. /\ SetTop(f) \in Seq(Frame) /\ Len(SetTop(f)) = Len(stack)
        /\ SetTop(f)[Len(stack)] = f
        /\ \A d \in 1 .. Len(stack) - 1 : SetTop(f)[d] = stack[d]
    BY SetTopParts
  <1>3. \A d \in 1 .. Len(stack) : d = Len(stack) \/ d \in 1 .. Len(stack) - 1
    <2>1. ASSUME NEW n \in Nat
          PROVE  \A d \in 1 .. n : d = n \/ d \in 1 .. n - 1
      OBVIOUS
    <2>2. QED
      BY <1>1, <2>1
  <1>4. DOMAIN SetTop(f) = 1 .. Len(stack)
    BY <1>2, LenProperties
  <1>5. OnlyDrains(SetTop(f))
    BY <1>1, <1>2, <1>3, <1>4 DEF OnlyDrains
  <1>6. BatchesOf(SetTop(f)) = [BatchesOf(stack) EXCEPT ![Len(stack)] = f.left]
    BY <1>1, <1>2, BatchesSet
  <1>7. ASSUME f.left = Top.left
        PROVE  BatchesOf(SetTop(f)) = BatchesOf(stack)
    <2>1. BatchesOf(stack)[Len(stack)] = f.left
      BY <1>1, <1>7, BatchesType DEF Top
    <2>2. [BatchesOf(stack) EXCEPT ![Len(stack)] = f.left] = BatchesOf(stack)
      BY <2>1 DEF BatchesOf
    <2>3. QED
      BY <1>6, <2>2
  <1>8. QED
    BY <1>5, <1>6, <1>7

(***************************************************************************)
(* The invariant.                                                          *)
(***************************************************************************)

PlacesInv ==
  /\ TypeInv
  /\ OnlyDrains(stack)
  /\ Held(jobs, BatchesOf(stack), started, Len(posted))

LEMMA PlacesInit == Init => PlacesInv
  <1> SUFFICES ASSUME Init
               PROVE  OnlyDrains(stack) /\ Held(jobs, BatchesOf(stack), started, Len(posted))
    BY TypeInit DEF PlacesInv
  <1>1. stack = <<>> /\ jobs = <<>> /\ started = <<>> /\ posted = <<>>
    BY DEF Init
  <1>2. DOMAIN stack = {} /\ Len(posted) = 0
    BY <1>1
  <1>3. \A d \in Nat : BatchesOf(stack)[d] = <<>>
    BY <1>2 DEF BatchesOf
  <1>4. 1 .. 0 = {}
    OBVIOUS
  <1>5. Held(jobs, BatchesOf(stack), started, Len(posted))
    BY <1>1, <1>2, <1>3, <1>4, EmptyHolds DEF Held
  <1>6. QED
    BY <1>2, <1>5 DEF OnlyDrains

\* A frame that holds no batch.
LEMMA CallHoldsNone ==
  ASSUME NEW fn \in {"tick", "run_pending", "with_instance", "native", "native_self"},
         NEW at \in {"run_pending", "take", "plugin"}
  PROVE  Call(fn, at) \in Frame /\ Call(fn, at).left = <<>>
  <1>1. Call(fn, at).left = <<>>
    BY DEF Call
  <1>2. QED
    BY <1>1, CallIsFrame

\* What a step may do to the queue, to the batches and to the jobs started: B
\* and C are the batches before and after it.
JobPosted(B, C) ==
  /\ jobs' = Append(jobs, Len(posted) + 1)
  /\ Len(posted') = Len(posted) + 1
  /\ C = B
  /\ UNCHANGED started

BatchTaken(B, C) ==
  /\ B[Len(stack)] = <<>>
  /\ C = [B EXCEPT ![Len(stack)] = jobs]
  /\ jobs' = <<>>
  /\ UNCHANGED <<started, posted>>

JobStarted(B, C) ==
  /\ B[Len(stack)] # <<>>
  /\ C = [B EXCEPT ![Len(stack)] = Tail(B[Len(stack)])]
  /\ started' = Append(started, Head(B[Len(stack)]))
  /\ UNCHANGED <<jobs, posted>>

RestPutBack(B, C) ==
  /\ C = [B EXCEPT ![Len(stack)] = <<>>]
  /\ jobs' = B[Len(stack)] \o jobs
  /\ UNCHANGED <<started, posted>>

NoJobMoved(B, C) == C = B /\ UNCHANGED <<jobs, started, posted>>

Draining == stack # <<>> /\ Top.fn = "run_pending"

QueueStep(B, C) ==
  \/ JobPosted(B, C)
  \/ Draining /\ (BatchTaken(B, C) \/ JobStarted(B, C) \/ RestPutBack(B, C))
  \/ NoJobMoved(B, C)

\* Every step moves the jobs in one of these ways, whatever it does to calls.
LEMMA StepMovesJobs ==
  ASSUME PlacesInv, [Next]_vars
  PROVE  OnlyDrains(stack') /\ QueueStep(BatchesOf(stack), BatchesOf(stack'))
  <1> DEFINE B == BatchesOf(stack)
             Goal == OnlyDrains(stack') /\ QueueStep(B, BatchesOf(stack'))
             n == Len(stack)
  <1>1. TypeInv /\ OnlyDrains(stack) /\ Held(jobs, B, started, Len(posted))
    BY DEF PlacesInv
  <1>2. /\ stack \in Seq(Frame) /\ n \in Nat /\ DOMAIN stack = 1 .. n
        /\ jobs \in Seq(Nat) /\ started \in Seq(Nat) /\ Len(posted) \in Nat
        /\ B \in [Nat -> Seq(Nat)] /\ \A d \in 1 .. n : B[d] = stack[d].left
    BY <1>1, LenProperties, JobsAreNumbers, BatchesType DEF TypeInv, TypeOK
  <1>3. stack # <<>> => /\ n \in 1 .. n /\ n - 1 \in 0 .. n /\ Top \in Frame /\ Top = stack[n]
                        /\ \A d \in 1 .. n : d > n - 1 => d = n
    <2>1. ASSUME stack # <<>>
          PROVE  n \in Nat \ {0} /\ Top \in Frame /\ Top = stack[n]
      BY <1>1, <2>1, TopOfStack DEF TypeInv, Top
    <2>2. QED
      BY <2>1
  \* Steps that move no job.
  <1>4. ASSUME UNCHANGED <<jobs, started, posted>>, BatchesOf(stack') = B, OnlyDrains(stack')
        PROVE  Goal
    BY <1>1, <1>4 DEF QueueStep, NoJobMoved
  <1>5. ASSUME UNCHANGED <<jobs, started, posted, stack>>
        PROVE  Goal
    BY <1>1, <1>5 DEF QueueStep, NoJobMoved
  \* Calling, leaving and moving on in frames without a batch.
  <1>6. ASSUME UNCHANGED <<jobs, started, posted>>,
               NEW f \in Frame, f.left = <<>>, stack' = Append(stack, f)
        PROVE  Goal
    BY <1>1, <1>2, <1>4, <1>6, BatchesGrow
  <1>7. ASSUME UNCHANGED <<jobs, started, posted>>, stack # <<>>, stack' = Below,
               Top.left = <<>>
        PROVE  Goal
    <2>1. \A d \in 1 .. n : d > n - 1 => stack[d].left = <<>>
      BY <1>3, <1>7
    <2>2. QED
      BY <1>1, <1>3, <1>4, <1>7, <2>1, CutKeeps DEF Below
  <1>8. ASSUME UNCHANGED <<jobs, started, posted>>, stack # <<>>, Top.fn = "run_pending",
               NEW outcome, FinishJob(n, outcome)
        PROVE  Goal
    <2>1. \A d \in 1 .. n : d > n => stack[d].fn # "run_pending"
      BY <1>2
    <2>2. BatchesOf(stack') = B /\ OnlyDrains(stack')
      BY <1>1, <1>3, <1>8, <2>1, FinishJobKeeps
    <2>3. QED
      BY <1>4, <1>8, <2>2
  <1>9. ASSUME NEW t \in Threads, NEW kind \in Kinds, PostAppend(t, kind)
        PROVE  Goal
    <2>1. /\ jobs' = Append(jobs, Len(posted) + 1) /\ posted' = Append(posted, kind)
          /\ UNCHANGED <<stack, started>>
      BY <1>9 DEF PostAppend
    <2>2. Len(posted') = Len(posted) + 1
      BY <1>1, <2>1, AppendProperties DEF TypeInv, TypeOK
    <2>3. QED
      BY <1>1, <2>1, <2>2 DEF QueueStep, JobPosted
  <1>10. ASSUME NEW t \in Threads, PostStep(t)
         PROVE  Goal
    BY <1>5, <1>10 DEF PostStep, PostStore, PostWarn, history
  <1>11. CASE DrainStep
    <2>1. CASE TakeNothing
      <3>1. stack # <<>> /\ Top.at = "take" /\ stack' = Below /\ UNCHANGED <<jobs, started, posted>>
        BY <2>1 DEF TakeNothing, MainIn, queueVars, history
      <3>2. Top.left = <<>>
        BY <1>1, <1>2, <1>3, <3>1 DEF OnlyDrains
      <3>3. QED
        BY <1>7, <3>1, <3>2
    <2>2. CASE Take
      <3> DEFINE f == [Top EXCEPT !.at = "loop", !.left = jobs,
                                  !.limited = budgeted, !.upto = Len(posted)]
      <3>1. /\ stack # <<>> /\ Top.fn = "run_pending" /\ Top.at = "take"
            /\ stack' = SetTop(f) /\ jobs' = <<>> /\ UNCHANGED <<started, posted>>
        BY <2>2 DEF Take, MainIn, history
      <3>2. f \in Frame /\ f.left = jobs /\ f.fn = "run_pending" /\ f.at # "take"
        BY <1>1, <1>2, <1>3, <3>1 DEF TypeInv, TypeOK, Frame
      <3> HIDE DEF f
      <3>3. B[n] = <<>>
        BY <1>1, <1>2, <1>3, <3>1 DEF OnlyDrains
      <3>4. OnlyDrains(stack') /\ BatchesOf(stack') = [B EXCEPT ![n] = jobs]
        BY <1>1, <3>1, <3>2, SetTopKeeps
      <3>5. QED
        BY <3>1, <3>3, <3>4 DEF QueueStep, BatchTaken, Draining
    <2>3. CASE StartJob
      <3> DEFINE id == Head(Top.left)
                 f == [Top EXCEPT !.at = IF posted[id] = "plain" THEN "plugin" ELSE "call",
                                  !.id = id, !.left = Tail(Top.left)]
      <3>1. /\ stack # <<>> /\ Top.fn = "run_pending" /\ Top.left # <<>>
            /\ stack' = SetTop(f) /\ started' = Append(started, id) /\ UNCHANGED <<jobs, posted>>
        BY <2>3 DEF StartJob, MainIn, queueVars
      <3>2. B[n] = Top.left
        BY <1>2, <1>3, <3>1
      <3>3. id \in Job /\ Tail(Top.left) \in Seq(Job)
        BY <1>3, <3>1, HeadTailProperties DEF Frame
      <3>4. id \in 0 .. MaxPosts
        BY <3>3, BoundsAssumption DEF Job
      <3> HIDE DEF id
      <3>5. f \in Frame /\ f.left = Tail(Top.left) /\ f.fn = "run_pending" /\ f.at # "take"
        BY <1>3, <3>1, <3>3, <3>4 DEF Frame
      <3> HIDE DEF f
      <3>6. OnlyDrains(stack') /\ BatchesOf(stack') = [B EXCEPT ![n] = Tail(B[n])]
        BY <1>1, <3>1, <3>2, <3>5, SetTopKeeps
      <3>7. QED
        BY <3>1, <3>2, <3>6 DEF QueueStep, JobStarted, Draining, id
    <2>4. CASE PutBack
      <3>1. /\ stack # <<>> /\ Top.fn = "run_pending" /\ stack' = Below
            /\ jobs' = Top.left \o jobs /\ UNCHANGED <<started, posted>>
        BY <2>4 DEF PutBack, MainIn, Merged, history
      <3>2. B[n] = Top.left
        BY <1>2, <1>3, <3>1
      <3>3. /\ stack' \in Seq(Frame) /\ Len(stack') = n - 1
            /\ \A d \in 1 .. n - 1 : stack'[d] = stack[d]
        BY <1>1, <1>3, <3>1, CutParts DEF Below
      <3>4. BatchesOf(stack') = [B EXCEPT ![n] = <<>>]
        BY <1>2, <3>1, <3>3, BatchesPop
      <3>5. DOMAIN stack' = 1 .. n - 1 /\ \A d \in 1 .. n - 1 : d \in DOMAIN stack
        <4>1. DOMAIN stack' = 1 .. Len(stack')
          BY <3>3, LenProperties
        <4>2. \A d \in 1 .. n - 1 : d \in 1 .. n
          BY <1>2
        <4>3. QED
          BY <1>2, <3>3, <4>1, <4>2
      <3>6. OnlyDrains(stack')
        BY <1>1, <3>3, <3>5 DEF OnlyDrains
      <3>7. QED
        BY <3>1, <3>2, <3>4, <3>6 DEF QueueStep, RestPutBack, Draining
    <2>5. CASE DrainReturns
      BY <1>7, <2>5 DEF DrainReturns, MainIn, queueVars, history
    <2>6. CASE JobWithoutScript \/ JobRefused \/ JobEnds
      <3>1. PICK outcome : FinishJob(n, outcome)
        BY <2>6 DEF JobWithoutScript, JobRefused, JobEnds
      <3>2. stack # <<>> /\ Top.fn = "run_pending" /\ UNCHANGED <<jobs, started, posted>>
        BY <2>6 DEF JobWithoutScript, JobRefused, JobEnds, MainIn, queueVars
      <3>3. QED
        BY <1>8, <3>1, <3>2
    <2>7. CASE JobBorrows
      <3> DEFINE f == [Top EXCEPT !.at = IF posted[Top.id] = "with_amx" THEN "reply" ELSE "end"]
                 g == Call("with_instance", "plugin")
                 s == SetTop(f)
      <3>1. /\ stack # <<>> /\ Top.fn = "run_pending" /\ stack' = Append(s, g)
            /\ UNCHANGED <<jobs, started, posted>>
        BY <2>7 DEF JobBorrows, MainIn, LendTo, queueVars, history
      <3>2. f \in Frame /\ f.left = Top.left /\ f.fn = "run_pending" /\ f.at # "take"
        BY <1>3, <3>1 DEF Frame
      <3>3. g \in Frame /\ g.left = <<>>
        BY CallHoldsNone
      <3> HIDE DEF f, g
      <3>4. OnlyDrains(s) /\ BatchesOf(s) = B /\ s \in Seq(Frame)
        BY <1>1, <3>1, <3>2, SetTopKeeps, SetTopParts
      <3> HIDE DEF s
      <3>5. BatchesOf(stack') = B /\ OnlyDrains(stack')
        BY <3>1, <3>3, <3>4, BatchesGrow
      <3>6. QED
        BY <1>4, <3>1, <3>5
    <2>8. CASE JobReplies
      <3> DEFINE f == [Top EXCEPT !.at = "plugin"]
      <3>1. /\ stack # <<>> /\ Top.fn = "run_pending" /\ stack' = SetTop(f)
            /\ UNCHANGED <<jobs, started, posted>>
        BY <2>8 DEF JobReplies, MainIn, queueVars, history
      <3>2. f \in Frame /\ f.left = Top.left /\ f.fn = "run_pending" /\ f.at # "take"
        BY <1>3, <3>1 DEF Frame
      <3> HIDE DEF f
      <3>3. BatchesOf(stack') = B /\ OnlyDrains(stack')
        BY <1>1, <3>1, <3>2, SetTopKeeps
      <3>4. QED
        BY <1>4, <3>1, <3>3
    <2>9. QED
      BY <1>11, <2>1, <2>2, <2>3, <2>4, <2>5, <2>6, <2>7, <2>8 DEF DrainStep
  <1>12. CASE Tick
    <2> DEFINE f == Call("tick", "run_pending")
               g == Call("run_pending", "take")
    <2>1. stack = <<>> /\ stack' = <<f, g>> /\ UNCHANGED <<jobs, started, posted>>
      BY <1>12 DEF Tick, ServerIdle, queueVars, history
    <2>2. f.left = <<>> /\ g.left = <<>>
      BY CallHoldsNone
    <2> HIDE DEF f, g
    <2>3. DOMAIN stack' = {1, 2} /\ stack'[1] = f /\ stack'[2] = g
      BY <2>1
    <2>4. DOMAIN stack = {}
      BY <2>1
    <2>5. OnlyDrains(stack')
      BY <2>2, <2>3 DEF OnlyDrains
    <2>6. BatchesOf(stack') = B
      <3>1. \A d \in Nat : (IF d \in DOMAIN stack' THEN stack'[d].left ELSE <<>>) = <<>>
        BY <2>2, <2>3
      <3>2. \A d \in Nat : (IF d \in DOMAIN stack THEN stack[d].left ELSE <<>>) = <<>>
        BY <2>4
      <3>3. QED
        BY <3>1, <3>2 DEF BatchesOf
    <2>7. QED
      BY <1>4, <2>1, <2>5, <2>6
  <1>13. CASE OnTick
    <2> DEFINE f == [Top EXCEPT !.at = "plugin"]
    <2>1. /\ stack # <<>> /\ Top.fn = "tick" /\ stack' = SetTop(f)
          /\ UNCHANGED <<jobs, started, posted>>
      BY <1>13 DEF OnTick, MainIn, queueVars, history
    <2>2. Top.left = <<>>
      BY <1>1, <1>2, <1>3, <2>1 DEF OnlyDrains
    <2>3. f \in Frame /\ f.left = <<>>
      BY <1>3, <2>1, <2>2 DEF Frame
    <2> HIDE DEF f
    <2>4. BatchesOf(stack') = B /\ OnlyDrains(stack')
      BY <1>1, <2>1, <2>2, <2>3, SetTopKeeps
    <2>5. QED
      BY <1>4, <2>1, <2>4
  <1>14. CASE PluginStep
    <2>1. CASE RunPending
      <3>1. stack' = Append(stack, Call("run_pending", "take")) /\ UNCHANGED <<jobs, started, posted>>
        BY <2>1 DEF RunPending, Push, queueVars, history
      <3>2. QED
        BY <1>6, <3>1, CallHoldsNone
    <2>2. CASE WithInstance
      <3>1. /\ stack' = Append(stack, Call("with_instance", "plugin"))
            /\ UNCHANGED <<jobs, started, posted>>
        BY <2>2 DEF WithInstance, LendTo, queueVars, history
      <3>2. QED
        BY <1>6, <3>1, CallHoldsNone
    <2>3. CASE Return
      <3>1. stack # <<>> /\ UNCHANGED <<jobs, started, posted>>
        BY <2>3 DEF Return, queueVars
      <3>2. CASE Top.fn = "run_pending"
        BY <1>8, <2>3, <3>1, <3>2 DEF Return
      <3>3. CASE Top.fn # "run_pending"
        <4>1. stack' = Below
          BY <2>3, <3>3 DEF Return
        <4>2. Top.left = <<>>
          BY <1>1, <1>2, <1>3, <3>1, <3>3 DEF OnlyDrains
        <4>3. QED
          BY <1>7, <3>1, <4>1, <4>2
      <3>4. QED
        BY <3>2, <3>3
    <2>4. CASE Panic
      <3> DEFINE k == Catcher
      <3>1. stack # <<>> /\ UNCHANGED <<jobs, started, posted>>
        BY <2>4 DEF Panic, PluginDoes, queueVars
      <3>2. /\ k \in 1 .. n /\ k - 1 \in 0 .. n
            /\ \A d \in 1 .. n : d > k => d = n /\ Top.fn = "with_instance"
            /\ \A d \in 1 .. n : d > k - 1 => d = k \/ (d = n /\ Top.fn = "with_instance")
        <4>1. CASE Top.fn = "with_instance"
          <5>1. n > 1
            BY <1>1, <1>2, <1>3, <3>1, <4>1 DEF TypeInv, LentToSomeone
          <5>2. k = n - 1
            BY <4>1 DEF Catcher
          <5>3. ASSUME NEW m \in Nat, m > 1
                PROVE  /\ m - 1 \in 1 .. m /\ (m - 1) - 1 \in 0 .. m
                       /\ \A d \in 1 .. m : d > m - 1 => d = m
                       /\ \A d \in 1 .. m : d > (m - 1) - 1 => d = m - 1 \/ d = m
            BY <5>3
          <5> HIDE DEF k, n
          <5>4. QED
            BY <1>2, <4>1, <5>1, <5>2, <5>3
        <4>2. CASE Top.fn # "with_instance"
          <5>1. k = n /\ n # 0
            BY <1>3, <3>1, <4>2 DEF Catcher
          <5> HIDE DEF k, n
          <5>2. QED
            BY <1>2, <4>2, <5>1
        <4>3. QED
          BY <4>1, <4>2
      <3>3. CASE stack[k].fn = "run_pending"
        <4>1. FinishJob(k, "panicked")
          BY <2>4, <3>3 DEF Panic
        <4>2. \A d \in 1 .. n : d > k => stack[d].fn # "run_pending"
          BY <1>3, <3>1, <3>2
        <4>3. BatchesOf(stack') = B /\ OnlyDrains(stack')
          BY <1>1, <3>2, <3>3, <4>1, <4>2, FinishJobKeeps
        <4>4. QED
          BY <1>4, <3>1, <4>3
      <3>4. CASE stack[k].fn # "run_pending"
        <4>1. stack' = SubSeq(stack, 1, k - 1)
          BY <2>4, <3>4 DEF Panic
        <4>2. \A d \in 1 .. n : d > k - 1 => stack[d].left = <<>>
          BY <1>1, <1>2, <1>3, <3>1, <3>2, <3>4 DEF OnlyDrains
        <4>3. BatchesOf(stack') = B /\ OnlyDrains(stack')
          BY <1>1, <3>2, <4>1, <4>2, CutKeeps
        <4>4. QED
          BY <1>4, <3>1, <4>3
      <3>5. QED
        BY <3>3, <3>4
    <2>5. CASE SetBudget
      BY <1>5, <2>5 DEF SetBudget, queueVars, history
    <2>6. ASSUME NEW fn \in {"native", "native_self"}, Native(fn)
          PROVE  Goal
      <3>1. stack' = Append(stack, Call(fn, "plugin")) /\ UNCHANGED <<jobs, started, posted>>
        BY <2>6 DEF Native, Push, queueVars, history
      <3>2. QED
        BY <1>6, <3>1, CallHoldsNone
    <2>7. QED
      BY <1>14, <2>1, <2>2, <2>3, <2>4, <2>5, <2>6 DEF PluginStep
  <1>15. CASE Script \/ UNCHANGED vars
    BY <1>5, <1>15 DEF Script, vars, queueVars, history
  <1>16. QED
    BY <1>9, <1>10, <1>11, <1>12, <1>13, <1>14, <1>15 DEF Next

LEMMA PlacesNext == PlacesInv /\ [Next]_vars => PlacesInv'
  <1> SUFFICES ASSUME PlacesInv, [Next]_vars
               PROVE  Held(jobs, BatchesOf(stack), started, Len(posted))'
    BY TypeNext, StepMovesJobs DEF PlacesInv
  <1> DEFINE B == BatchesOf(stack)
             n == Len(stack)
  <1>1. /\ Held(jobs, B, started, Len(posted)) /\ n \in Nat
        /\ jobs \in Seq(Nat) /\ started \in Seq(Nat) /\ Len(posted) \in Nat
        /\ B \in [Nat -> Seq(Nat)]
    BY LenProperties, JobsAreNumbers, BatchesType DEF PlacesInv, TypeInv, TypeOK
  <1>2. QueueStep(B, BatchesOf(stack'))
    BY StepMovesJobs
  <1> DEFINE C == BatchesOf(stack')
  <1> HIDE DEF B, C
  <1>3. CASE JobPosted(B, C)
    BY <1>1, <1>3, HeldPost DEF JobPosted, C
  <1>4. CASE BatchTaken(B, C)
    <2>1. Held(<<>>, [B EXCEPT ![n] = jobs], started, Len(posted))
      BY <1>1, <1>4, HeldTake DEF BatchTaken
    <2>2. QED
      BY <1>4, <2>1 DEF BatchTaken, C
  <1>5. CASE JobStarted(B, C)
    <2>1. Held(jobs, [B EXCEPT ![n] = Tail(B[n])], Append(started, Head(B[n])), Len(posted))
      BY <1>1, <1>5, HeldStart DEF JobStarted
    <2>2. QED
      BY <1>5, <2>1 DEF JobStarted, C
  <1>6. CASE RestPutBack(B, C)
    <2>1. Held(B[n] \o jobs, [B EXCEPT ![n] = <<>>], started, Len(posted))
      BY <1>1, HeldPutBack
    <2>2. QED
      BY <1>6, <2>1 DEF RestPutBack, C
  <1>7. CASE NoJobMoved(B, C)
    BY <1>1, <1>7 DEF NoJobMoved, C
  <1>8. QED
    BY <1>2, <1>3, <1>4, <1>5, <1>6, <1>7 DEF QueueStep, C

\* What the invariant says of MainThread's own words for the three places.
LEMMA PlacesGives == PlacesInv => ExactlyOnePlace /\ StartedOnce
  <1> SUFFICES ASSUME PlacesInv
               PROVE  ExactlyOnePlace /\ StartedOnce
    OBVIOUS
  <1> DEFINE B == BatchesOf(stack)
  <1>1. /\ Held(jobs, B, started, Len(posted)) /\ Len(posted) \in Nat
        /\ DOMAIN jobs = 1 .. Len(jobs) /\ DOMAIN started = 1 .. Len(started)
        /\ DOMAIN stack = 1 .. Len(stack) /\ stack \in Seq(Frame)
    BY LenProperties DEF PlacesInv, TypeInv, TypeOK
  <1>2. StartedOnce
    BY <1>1 DEF Held, Distinct, StartedOnce
  <1>3. ASSUME NEW id \in 1 .. Len(posted)
        PROVE  /\ InQueue(id) <=> In(id, jobs)
               /\ IsStarted(id) <=> In(id, started)
    BY <1>1 DEF InQueue, IsStarted, In
  <1>4. ASSUME NEW d \in DOMAIN stack
        PROVE  d \in Nat /\ B[d] = stack[d].left /\ DOMAIN stack[d].left = 1 .. Len(B[d])
    <2>1. d \in Nat /\ B[d] = stack[d].left
      BY <1>1 DEF BatchesOf
    <2>2. stack[d] \in Frame
      BY <1>1, ElementOfSeq
    <2>3. stack[d].left \in Seq(Job)
      BY <2>2 DEF Frame
    <2>4. QED
      BY <2>1, <2>3, LenProperties
  <1>5. ASSUME NEW d \in Nat, d \notin DOMAIN stack, NEW id \in Nat
        PROVE  ~In(id, B[d])
    BY <1>5, EmptyHolds DEF BatchesOf
  <1>6. ASSUME NEW id \in 1 .. Len(posted)
        PROVE  InBatch(id) <=> \E d \in Nat : In(id, B[d])
    <2> HIDE DEF B
    <2>1. id \in Nat
      OBVIOUS
    <2>2. ASSUME NEW d \in Nat, In(id, B[d])
          PROVE  InBatch(id)
      <3>1. d \in DOMAIN stack
        BY <1>5, <2>1, <2>2
      <3>2. PICK i \in 1 .. Len(B[d]) : B[d][i] = id
        BY <2>2 DEF In
      <3>3. i \in DOMAIN stack[d].left /\ stack[d].left[i] = id
        BY <1>4, <3>1, <3>2
      <3>4. QED
        BY <3>1, <3>3 DEF InBatch
    <2>3. ASSUME InBatch(id)
          PROVE  \E d \in Nat : In(id, B[d])
      BY <1>4, <2>3 DEF InBatch, In
    <2>4. QED
      BY <2>2, <2>3
  <1>7. ExactlyOnePlace
    <2> SUFFICES ASSUME NEW id \in 1 .. Len(posted)
                 PROVE  /\ InQueue(id) \/ InBatch(id) \/ IsStarted(id)
                        /\ ~(InQueue(id) /\ InBatch(id))
                        /\ ~(InQueue(id) /\ IsStarted(id))
                        /\ ~(InBatch(id) /\ IsStarted(id))
      BY DEF ExactlyOnePlace
    <2> HIDE DEF B
    <2>1. id \in Nat
      OBVIOUS
    <2>2. QED
      BY <1>1, <1>3, <1>6, <2>1 DEF Held
  <1>8. QED
    BY <1>2, <1>7

\* Every posted job is waiting in the queue, held by one drain, or has been
\* started, and only one of these: no interleaving of post() with takes and
\* put_backs, no nesting of drains, no panic and no spent budget loses a job or
\* leaves a second copy of it, however many threads post and however deep the
\* main thread's calls go.
THEOREM OnePlace == SafeSpec => []ExactlyOnePlace
  <1>1. PlacesInv => ExactlyOnePlace
    BY PlacesGives
  <1>2. QED
    BY <1>1, PlacesInit, PlacesNext, PTL DEF SafeSpec

\* "The job runs once" (mainthread.rs:118): run_pending calls no job twice, a
\* job that panicked or was refused included.
THEOREM OnceStarted == SafeSpec => []StartedOnce
  <1>1. PlacesInv => StartedOnce
    BY PlacesGives
  <1>2. QED
    BY <1>1, PlacesInit, PlacesNext, PTL DEF SafeSpec

(***************************************************************************)
(* What becomes of one frame.                                              *)
(***************************************************************************)

\* A drain moves on with its batch, has just taken it, or starts its first job.
FrameStep(f, g) ==
  /\ g.fn = f.fn
  /\ \/ g.id \in {f.id, 0} /\ g.left = f.left /\ g.upto = f.upto
     \/ g.id = f.id /\ g.left = jobs /\ g.upto = Len(posted)
     \/ f.left # <<>> /\ g.id = Head(f.left) /\ g.left = Tail(f.left) /\ g.upto = f.upto

\* A call starts without a batch, and a drain by itself only inside a tick.
NewCall(d, g) ==
  /\ g.id = 0 /\ g.left = <<>> /\ g.upto = 0
  /\ g.fn = "run_pending" => d = 2 \/ "run_pending" \in PluginCalls

FramesStep ==
  \A d \in DOMAIN stack' :
    (d \in DOMAIN stack /\ FrameStep(stack[d], stack'[d])) \/ NewCall(d, stack'[d])

LEMMA FramesCut ==
  ASSUME TypeInv, NEW n \in 0 .. Len(stack), stack' = SubSeq(stack, 1, n)
  PROVE  FramesStep
  <1>1. /\ stack' \in Seq(Frame) /\ Len(stack') = n
        /\ \A d \in 1 .. n : stack'[d] = stack[d]
    BY CutParts
  <1>2. DOMAIN stack' = 1 .. n /\ \A d \in 1 .. n : d \in DOMAIN stack
    BY <1>1, LenProperties DEF TypeInv, TypeOK
  <1>3. QED
    BY <1>1, <1>2 DEF FramesStep, FrameStep

LEMMA FramesSetTop ==
  ASSUME TypeInv, stack # <<>>, NEW f \in Frame, FrameStep(Top, f), stack' = SetTop(f)
  PROVE  FramesStep
  <1>1. /\ stack \in Seq(Frame) /\ DOMAIN stack = 1 .. Len(stack) /\ Len(stack) \in Nat \ {0}
    BY TopOfStack, LenProperties DEF TypeInv, TypeOK
  <1>2. /\ stack' \in Seq(Frame) /\ Len(stack') = Len(stack)
        /\ stack'[Len(stack)] = f
        /\ \A d \in 1 .. Len(stack) - 1 : stack'[d] = stack[d]
    BY SetTopParts
  <1>3. DOMAIN stack' = 1 .. Len(stack)
    BY <1>2, LenProperties
  <1>4. \A d \in DOMAIN stack' : d = Len(stack) \/ d \in 1 .. Len(stack) - 1
    BY <1>1, <1>3
  <1>5. \A d \in DOMAIN stack' : FrameStep(stack[d], stack'[d])
    <2>1. ASSUME NEW d \in 1 .. Len(stack) - 1
          PROVE  FrameStep(stack[d], stack'[d])
      BY <1>2 DEF FrameStep
    <2>2. FrameStep(stack[Len(stack)], stack'[Len(stack)])
      BY <1>2 DEF Top
    <2>3. QED
      BY <1>4, <2>1, <2>2
  <1>6. QED
    BY <1>1, <1>3, <1>5 DEF FramesStep

LEMMA FramesGrow ==
  ASSUME TypeInv, NEW f \in Frame, NewCall(Len(stack) + 1, f), stack' = Append(stack, f)
  PROVE  FramesStep
  <1>1. /\ stack \in Seq(Frame) /\ DOMAIN stack = 1 .. Len(stack) /\ Len(stack) \in Nat
    BY LenProperties DEF TypeInv, TypeOK
  <1>2. /\ stack' \in Seq(Frame) /\ Len(stack') = Len(stack) + 1
        /\ stack'[Len(stack) + 1] = f
        /\ \A d \in 1 .. Len(stack) : stack'[d] = stack[d]
    BY <1>1, AppendProperties
  <1>3. DOMAIN stack' = 1 .. Len(stack) + 1
    BY <1>2, LenProperties
  <1>4. \A d \in DOMAIN stack' : d = Len(stack) + 1 \/ d \in 1 .. Len(stack)
    BY <1>1, <1>3
  <1>5. ASSUME NEW d \in 1 .. Len(stack)
        PROVE  d \in DOMAIN stack /\ FrameStep(stack[d], stack'[d])
    BY <1>1, <1>2 DEF FrameStep
  <1>6. NewCall(Len(stack) + 1, stack'[Len(stack) + 1])
    BY <1>2
  <1>7. QED
    BY <1>4, <1>5, <1>6 DEF FramesStep

LEMMA FramesFinish ==
  ASSUME TypeInv, NEW i \in 1 .. Len(stack), NEW outcome, FinishJob(i, outcome)
  PROVE  FramesStep
  <1>1. /\ stack' \in Seq(Frame)
        /\ Len(stack') = i
        /\ stack'[i].left = stack[i].left /\ stack'[i].fn = stack[i].fn
        /\ stack'[i].id = 0 /\ stack'[i].upto = stack[i].upto
        /\ \A d \in 1 .. i - 1 : stack'[d] = stack[d]
    BY FinishJobParts
  <1>2. DOMAIN stack' = 1 .. i /\ \A d \in 1 .. i : d \in DOMAIN stack /\ (d = i \/ d \in 1 .. i - 1)
    BY <1>1, LenProperties DEF TypeInv, TypeOK
  <1>3. QED
    BY <1>1, <1>2 DEF FramesStep, FrameStep

\* A job that borrows goes on to wait for the borrow above it to end.
LEMMA FramesSetAndGrow ==
  ASSUME TypeInv, stack # <<>>, NEW f \in Frame, NEW g \in Frame, FrameStep(Top, f),
         NewCall(Len(stack) + 1, g), stack' = Append(SetTop(f), g)
  PROVE  FramesStep
  <1> DEFINE s == SetTop(f)
  <1>1. /\ DOMAIN stack = 1 .. Len(stack) /\ Len(stack) \in Nat \ {0}
    BY TopOfStack, LenProperties DEF TypeInv, TypeOK
  <1>2. /\ s \in Seq(Frame) /\ Len(s) = Len(stack)
        /\ s[Len(stack)] = f
        /\ \A d \in 1 .. Len(stack) - 1 : s[d] = stack[d]
    BY SetTopParts
  <1> HIDE DEF s
  <1>3. /\ stack' \in Seq(Frame) /\ Len(stack') = Len(stack) + 1
        /\ stack'[Len(stack) + 1] = g
        /\ \A d \in 1 .. Len(stack) : stack'[d] = s[d]
    BY <1>2, AppendProperties DEF s
  <1>4. DOMAIN stack' = 1 .. Len(stack) + 1
    BY <1>3, LenProperties
  <1>5. \A d \in DOMAIN stack' : d = Len(stack) + 1 \/ d = Len(stack) \/ d \in 1 .. Len(stack) - 1
    BY <1>1, <1>4
  <1>6. ASSUME NEW d \in 1 .. Len(stack) - 1
        PROVE  d \in DOMAIN stack /\ FrameStep(stack[d], stack'[d])
    <2>1. d \in 1 .. Len(stack)
      BY <1>1
    <2>2. QED
      BY <1>1, <1>2, <1>3, <2>1 DEF FrameStep
  <1>7. Len(stack) \in DOMAIN stack /\ FrameStep(stack[Len(stack)], stack'[Len(stack)])
    <2>1. Len(stack) \in 1 .. Len(stack)
      BY <1>1
    <2>2. stack'[Len(stack)] = f
      BY <1>2, <1>3, <2>1
    <2>3. QED
      BY <1>1, <2>1, <2>2 DEF Top
  <1>8. NewCall(Len(stack) + 1, stack'[Len(stack) + 1])
    BY <1>3
  <1>9. QED
    BY <1>5, <1>6, <1>7, <1>8 DEF FramesStep

LEMMA CallIsNew ==
  ASSUME NEW fn \in {"tick", "run_pending", "with_instance", "native", "native_self"},
         NEW at \in {"run_pending", "take", "plugin"}, NEW d,
         fn = "run_pending" => d = 2 \/ "run_pending" \in PluginCalls
  PROVE  Call(fn, at) \in Frame /\ NewCall(d, Call(fn, at))
  <1>1. NewCall(d, Call(fn, at))
    BY DEF Call, NewCall
  <1>2. QED
    BY <1>1, CallIsFrame

LEMMA StepMovesFrames ==
  ASSUME TypeInv, [Next]_vars
  PROVE  FramesStep
  <1>1. CASE UNCHANGED stack
    <2>1. Len(stack) \in 0 .. Len(stack) /\ stack = SubSeq(stack, 1, Len(stack))
      BY LenProperties, SubSeqFull DEF TypeInv, TypeOK
    <2>2. QED
      BY <1>1, <2>1, FramesCut
  <1>2. stack # <<>> => /\ Len(stack) \in 1 .. Len(stack) /\ Len(stack) - 1 \in 0 .. Len(stack)
                        /\ Top \in Frame /\ Top = stack[Len(stack)]
    BY TopOfStack DEF TypeInv, Top
  <1>3. CASE DrainStep
    <2>1. CASE TakeNothing \/ PutBack \/ DrainReturns
      <3>1. stack # <<>> /\ stack' = SubSeq(stack, 1, Len(stack) - 1)
        BY <2>1 DEF TakeNothing, PutBack, DrainReturns, MainIn, Below
      <3>2. QED
        BY <1>2, <3>1, FramesCut
    <2>2. CASE Take
      <3> DEFINE f == [Top EXCEPT !.at = "loop", !.left = jobs,
                                  !.limited = budgeted, !.upto = Len(posted)]
      <3>1. stack # <<>> /\ stack' = SetTop(f)
        BY <2>2 DEF Take, MainIn
      <3>2. Len(posted) \in Nat /\ jobs \in Seq(Job) /\ budgeted \in BOOLEAN
        BY LenProperties DEF TypeInv, TypeOK
      <3>3. f \in Frame /\ f.fn = Top.fn /\ f.id = Top.id /\ f.left = jobs /\ f.upto = Len(posted)
        BY <1>2, <3>1, <3>2 DEF Frame
      <3> HIDE DEF f
      <3>4. QED
        BY <3>1, <3>3, FramesSetTop DEF FrameStep
    <2>3. CASE StartJob
      <3> DEFINE id == Head(Top.left)
                 f == [Top EXCEPT !.at = IF posted[id] = "plain" THEN "plugin" ELSE "call",
                                  !.id = id, !.left = Tail(Top.left)]
      <3>1. stack # <<>> /\ Top.left # <<>> /\ stack' = SetTop(f)
        BY <2>3 DEF StartJob, MainIn
      <3>2. id \in Job /\ Tail(Top.left) \in Seq(Job)
        BY <1>2, <3>1, HeadTailProperties DEF Frame
      <3>3. id \in 0 .. MaxPosts
        BY <3>2, BoundsAssumption DEF Job
      <3> HIDE DEF id
      <3>4. f \in Frame /\ f.fn = Top.fn /\ f.id = id /\ f.left = Tail(Top.left) /\ f.upto = Top.upto
        BY <1>2, <3>1, <3>2, <3>3 DEF Frame
      <3> HIDE DEF f
      <3>5. QED
        BY <3>1, <3>4, FramesSetTop DEF FrameStep, id
    <2>4. CASE JobWithoutScript \/ JobRefused \/ JobEnds
      <3>1. PICK outcome : FinishJob(Len(stack), outcome)
        BY <2>4 DEF JobWithoutScript, JobRefused, JobEnds
      <3>2. stack # <<>>
        BY <2>4 DEF JobWithoutScript, JobRefused, JobEnds, MainIn
      <3>3. QED
        BY <1>2, <3>1, <3>2, FramesFinish
    <2>5. CASE JobBorrows
      <3> DEFINE f == [Top EXCEPT !.at = IF posted[Top.id] = "with_amx" THEN "reply" ELSE "end"]
                 g == Call("with_instance", "plugin")
      <3>1. stack # <<>> /\ stack' = Append(SetTop(f), g)
        BY <2>5 DEF JobBorrows, MainIn, LendTo
      <3>2. f \in Frame /\ FrameStep(Top, f)
        BY <1>2, <3>1 DEF Frame, FrameStep
      <3>3. g \in Frame /\ NewCall(Len(stack) + 1, g)
        BY CallIsNew
      <3> HIDE DEF f, g
      <3>4. QED
        BY <3>1, <3>2, <3>3, FramesSetAndGrow
    <2>6. CASE JobReplies
      <3> DEFINE f == [Top EXCEPT !.at = "plugin"]
      <3>1. stack # <<>> /\ stack' = SetTop(f)
        BY <2>6 DEF JobReplies, MainIn
      <3>2. f \in Frame /\ FrameStep(Top, f)
        BY <1>2, <3>1 DEF Frame, FrameStep
      <3> HIDE DEF f
      <3>3. QED
        BY <3>1, <3>2, FramesSetTop
    <2>7. QED
      BY <1>3, <2>1, <2>2, <2>3, <2>4, <2>5, <2>6 DEF DrainStep
  <1>4. CASE Tick
    <2> DEFINE f == Call("tick", "run_pending")
               g == Call("run_pending", "take")
    <2>1. stack' = <<f, g>>
      BY <1>4 DEF Tick
    <2>2. NewCall(1, f) /\ NewCall(2, g)
      BY CallIsNew
    <2> HIDE DEF f, g
    <2>3. DOMAIN stack' = {1, 2} /\ stack'[1] = f /\ stack'[2] = g
      BY <2>1
    <2>4. QED
      BY <2>2, <2>3 DEF FramesStep
  <1>5. CASE OnTick
    <2> DEFINE f == [Top EXCEPT !.at = "plugin"]
    <2>1. stack # <<>> /\ stack' = SetTop(f)
      BY <1>5 DEF OnTick, MainIn
    <2>2. f \in Frame /\ FrameStep(Top, f)
      BY <1>2, <2>1 DEF Frame, FrameStep
    <2> HIDE DEF f
    <2>3. QED
      BY <2>1, <2>2, FramesSetTop
  <1>6. CASE PluginStep
    <2>1. CASE RunPending
      <3>1. "run_pending" \in PluginCalls /\ stack' = Append(stack, Call("run_pending", "take"))
        BY <2>1 DEF RunPending, PluginDoes, Push
      <3>2. QED
        BY <3>1, CallIsNew, FramesGrow
    <2>2. CASE WithInstance
      <3>1. stack' = Append(stack, Call("with_instance", "plugin"))
        BY <2>2 DEF WithInstance, LendTo
      <3>2. QED
        BY <3>1, CallIsNew, FramesGrow
    <2>3. CASE Return
      <3>1. stack # <<>> /\ (FinishJob(Len(stack), "ran") \/ stack' = SubSeq(stack, 1, Len(stack) - 1))
        BY <2>3 DEF Return, Below
      <3>2. QED
        BY <1>2, <3>1, FramesFinish, FramesCut
    <2>4. CASE Panic
      <3>1. stack # <<>>
        BY <2>4 DEF Panic, PluginDoes
      <3>2. Catcher \in 1 .. Len(stack) /\ Catcher - 1 \in 0 .. Len(stack)
        <4>1. Top.fn = "with_instance" => Len(stack) > 1
          BY <1>2, <3>1, LenProperties DEF TypeInv, TypeOK, LentToSomeone
        <4>2. QED
          BY <1>2, <3>1, <4>1 DEF Catcher
      <3>3. FinishJob(Catcher, "panicked") \/ stack' = SubSeq(stack, 1, Catcher - 1)
        BY <2>4 DEF Panic
      <3>4. QED
        BY <3>2, <3>3, FramesFinish, FramesCut
    <2>5. CASE SetBudget
      BY <1>1, <2>5 DEF SetBudget
    <2>6. ASSUME NEW fn \in {"native", "native_self"}, Native(fn)
          PROVE  FramesStep
      <3>1. stack' = Append(stack, Call(fn, "plugin"))
        BY <2>6 DEF Native, Push
      <3>2. QED
        BY <3>1, CallIsNew, FramesGrow
    <2>7. QED
      BY <1>6, <2>1, <2>2, <2>3, <2>4, <2>5, <2>6 DEF PluginStep
  <1>7. ASSUME NEW t \in Threads, PostStep(t) \/ \E kind \in Kinds : PostAppend(t, kind)
        PROVE  FramesStep
    BY <1>1, <1>7 DEF PostAppend, PostStep, PostStore, PostWarn
  <1>8. CASE Script \/ UNCHANGED vars
    BY <1>1, <1>8 DEF Script, vars
  <1>9. QED
    BY <1>3, <1>4, <1>5, <1>6, <1>7, <1>8 DEF Next

(***************************************************************************)
(* A job posted while a drain runs waits for the next.                     *)
(***************************************************************************)

\* A frame's job and the rest of its batch had been posted when it took them.
TakenBefore(f) ==
  /\ f.id <= f.upto
  /\ f.upto <= Len(posted)
  /\ \A id \in Nat : In(id, f.left) => id <= f.upto

WaitsInv == PlacesInv /\ \A d \in DOMAIN stack : TakenBefore(stack[d])

LEMMA WaitsInit == Init => WaitsInv
  <1> SUFFICES ASSUME Init
               PROVE  DOMAIN stack = {}
    BY PlacesInit DEF WaitsInv
  <1>1. QED
    BY DEF Init

LEMMA WaitsNext == WaitsInv /\ [Next]_vars => WaitsInv'
  <1> SUFFICES ASSUME WaitsInv, [Next]_vars, NEW d \in DOMAIN stack'
               PROVE  TakenBefore(stack[d])'
    BY PlacesNext DEF WaitsInv
  <1>1. PlacesInv /\ PlacesInv' /\ TypeInv
    BY PlacesNext DEF WaitsInv, PlacesInv
  <1>2. stack \in Seq(Frame) /\ stack' \in Seq(Frame) /\ Len(posted) \in Nat /\ Len(posted') \in Nat
    BY <1>1, LenProperties DEF PlacesInv, TypeInv, TypeOK
  <1>3. Len(posted) <= Len(posted')
    <2>1. QueueStep(BatchesOf(stack), BatchesOf(stack'))
      BY <1>1, StepMovesJobs
    <2>2. Len(posted') = Len(posted) + 1 \/ posted' = posted
      BY <2>1 DEF QueueStep, JobPosted, BatchTaken, JobStarted, RestPutBack, NoJobMoved
    <2>3. QED
      BY <1>2, <2>2
  <1>4. stack'[d] \in Frame
    BY <1>2, ElementOfSeq, LenProperties
  <1>5. CASE d \in DOMAIN stack /\ FrameStep(stack[d], stack'[d])
    <2> DEFINE f == stack[d]
               g == stack'[d]
    <2>1. f \in Frame /\ TakenBefore(f)
      BY <1>2, <1>5, ElementOfSeq, LenProperties DEF WaitsInv
    <2>2. /\ f.id \in Nat /\ f.upto \in Nat /\ f.left \in Seq(Nat)
          /\ g.id \in Nat /\ g.upto \in Nat /\ g.left \in Seq(Nat)
      <3>1. f.left \in Seq(Job) /\ g.left \in Seq(Job)
        BY <1>4, <2>1 DEF Frame
      <3>2. f.id \in 0 .. MaxPosts /\ f.upto \in Nat /\ g.id \in 0 .. MaxPosts /\ g.upto \in Nat
        BY <1>4, <2>1 DEF Frame
      <3>3. QED
        BY <3>1, <3>2, JobsAreNumbers, BoundsAssumption
    <2>3. FrameStep(f, g)
      BY <1>5
    <2> HIDE DEF f, g
    <2>4. CASE g.id \in {f.id, 0} /\ g.left = f.left /\ g.upto = f.upto
      BY <1>2, <1>3, <2>1, <2>2, <2>4 DEF TakenBefore, g
    <2>5. CASE g.id = f.id /\ g.left = jobs /\ g.upto = Len(posted)
      <3>1. \A id \in Nat : In(id, jobs) => id <= Len(posted)
        BY <1>1 DEF PlacesInv, Held
      <3>2. QED
        BY <1>2, <1>3, <2>1, <2>2, <2>5, <3>1 DEF TakenBefore, g
    <2>6. CASE f.left # <<>> /\ g.id = Head(f.left) /\ g.left = Tail(f.left) /\ g.upto = f.upto
      <3>1. \A id \in Nat : In(id, f.left) <=> In(id, Tail(f.left)) \/ id = Head(f.left)
        BY <2>2, <2>6, TailHolds
      <3>2. QED
        BY <1>2, <1>3, <2>1, <2>2, <2>6, <3>1 DEF TakenBefore, g
    <2>7. QED
      BY <2>3, <2>4, <2>5, <2>6 DEF FrameStep
  <1>6. CASE NewCall(d, stack'[d])
    BY <1>2, <1>6, EmptyHolds DEF NewCall, TakenBefore
  <1>7. QED
    BY <1>1, <1>5, <1>6, StepMovesFrames DEF FramesStep

\* "A job posted while the queue is draining runs on the next tick, not the
\* current one" (mainthread.rs:43): no job that a drain runs, or has left to
\* run, was posted after its take, however drains and plugin calls nest.
THEOREM PostedJobsWait == SafeSpec => []PostedWhileDrainingWaits
  <1>1. WaitsInv => PostedWhileDrainingWaits
    BY DEF WaitsInv, TakenBefore, PostedWhileDrainingWaits
  <1>2. QED
    BY <1>1, WaitsInit, WaitsNext, PTL DEF SafeSpec

(***************************************************************************)
(* When the plugin leaves draining to the tick, the queue is a JobQueue.   *)
(***************************************************************************)

LEMMA AppendBehind ==
  ASSUME NEW p \in Seq(Nat), NEW q \in Seq(Nat), NEW x \in Nat
  PROVE  p \o Append(q, x) = Append(p \o q, x)
  <1>1. <<x>> \in Seq(Nat)
    OBVIOUS
  <1>2. Append(q, x) = q \o <<x>>
    BY AppendIsConcat
  <1>3. p \o q \in Seq(Nat)
    BY ConcatProperties
  <1>4. Append(p \o q, x) = (p \o q) \o <<x>>
    BY <1>3, AppendIsConcat
  <1>5. (p \o q) \o <<x>> = p \o (q \o <<x>>)
    BY <1>1, ConcatAssociative
  <1>6. QED
    BY <1>2, <1>4, <1>5

LEMMA FirstOfConcat ==
  ASSUME NEW p \in Seq(Nat), NEW q \in Seq(Nat), p # <<>>
  PROVE  /\ p \o q # <<>>
         /\ Head(p \o q) = Head(p)
         /\ Tail(p \o q) = Tail(p) \o q
  <1> DEFINE r == p \o q
             t == Tail(p) \o q
             m == Len(p)
             n == Len(q)
  <1>1. m \in Nat \ {0} /\ n \in Nat
    BY EmptySeq, LenProperties
  <1>2. /\ r \in Seq(Nat) /\ Len(r) = m + n
        /\ \A i \in 1 .. m + n : r[i] = IF i <= m THEN p[i] ELSE q[i - m]
    BY ConcatProperties
  <1>3. /\ Tail(p) \in Seq(Nat) /\ Len(Tail(p)) = m - 1
        /\ \A i \in 1 .. m - 1 : Tail(p)[i] = p[i + 1]
    BY HeadTailProperties
  <1>4. /\ t \in Seq(Nat) /\ Len(t) = (m - 1) + n
        /\ \A i \in 1 .. (m - 1) + n : t[i] = IF i <= m - 1 THEN Tail(p)[i] ELSE q[i - (m - 1)]
    BY <1>3, ConcatProperties
  <1> HIDE DEF r, t, m, n
  <1>5. r # <<>>
    BY <1>1, <1>2, EmptySeq
  <1>6. /\ Tail(r) \in Seq(Nat) /\ Len(Tail(r)) = m + n - 1
        /\ \A i \in 1 .. m + n - 1 : Tail(r)[i] = r[i + 1]
    <2>1. Tail(r) \in Seq(Nat) /\ Len(Tail(r)) = Len(r) - 1
      BY <1>2, <1>5, HeadTailProperties
    <2>2. \A i \in 1 .. Len(r) - 1 : Tail(r)[i] = r[i + 1]
      BY <1>2, <1>5, HeadTailProperties
    <2>3. Len(r) - 1 = m + n - 1
      BY <1>1, <1>2
    <2>4. QED
      BY <2>1, <2>2, <2>3
  <1>7. ASSUME NEW i \in 1 .. m + n - 1
        PROVE  Tail(r)[i] = t[i]
    <2>1. CASE i <= m - 1
      <3>1. i \in 1 .. m - 1 /\ i + 1 \in 1 .. m + n /\ i + 1 <= m /\ i \in 1 .. (m - 1) + n
        BY <1>1, <2>1
      <3>2. Tail(r)[i] = r[i + 1]
        BY <1>6
      <3>3. r[i + 1] = p[i + 1]
        BY <1>2, <3>1
      <3>4. t[i] = Tail(p)[i]
        BY <1>4, <2>1, <3>1
      <3>5. Tail(p)[i] = p[i + 1]
        BY <1>3, <3>1
      <3>6. QED
        BY <3>2, <3>3, <3>4, <3>5
    <2>2. CASE ~(i <= m - 1)
      <3>1. i + 1 \in 1 .. m + n /\ ~(i + 1 <= m) /\ i \in 1 .. (m - 1) + n /\ (i + 1) - m = i - (m - 1)
        BY <1>1, <2>2
      <3>2. QED
        BY <1>2, <1>4, <1>6, <2>2, <3>1
    <2>3. QED
      BY <2>1, <2>2
  <1>8. Tail(r) = t
    <2>1. Len(Tail(r)) = Len(t) /\ Len(t) = m + n - 1
      BY <1>1, <1>4, <1>6
    <2>2. QED
      BY <1>4, <1>6, <1>7, <2>1, SeqEqual
  <1>9. Head(r) = Head(p)
    <2>1. 1 \in 1 .. m + n /\ 1 <= m
      BY <1>1
    <2>2. r[1] = p[1]
      BY <1>2, <2>1
    <2>3. QED
      BY <2>2 DEF r
  <1>10. QED
    BY <1>5, <1>8, <1>9 DEF r, t

\* What waits is the batch of the tick's drain and the queue behind it.
LEMMA BacklogIsBatchAndQueue ==
  ASSUME TypeInv, OnlyDrains(stack)
  PROVE  Backlog = BatchesOf(stack)[2] \o jobs
  <1>1. DOMAIN stack = 1 .. Len(stack) /\ Len(stack) \in Nat
    BY LenProperties DEF TypeInv, TypeOK
  <1>2. CASE Len(stack) >= 2
    <2>1. 2 \in DOMAIN stack
      BY <1>1, <1>2
    <2>2. QED
      BY <1>2, <2>1 DEF Backlog, BatchesOf, OnlyDrains
  <1>3. CASE ~(Len(stack) >= 2)
    <2>1. 2 \notin DOMAIN stack
      BY <1>1, <1>3
    <2>2. QED
      BY <1>3, <2>1 DEF Backlog, BatchesOf
  <1>4. QED
    BY <1>2, <1>3

LEMMA BacklogOfPlaces == PlacesInv => Backlog = BatchesOf(stack)[2] \o jobs
  BY BacklogIsBatchAndQueue DEF PlacesInv

DrainsInTicks == \A d \in DOMAIN stack : stack[d].fn = "run_pending" => d = 2

\* Jobs have been started, and wait, in the order of their numbers.
NumberedOn(q, n) == \A i \in 1 .. Len(q) : q[i] = n + i

TickInv ==
  /\ PlacesInv
  /\ DrainsInTicks
  /\ Len(Backlog) + Len(started) = Len(posted)
  /\ NumberedOn(started, 0)
  /\ NumberedOn(Backlog, Len(started))

LEMMA TickInvInit == Init => TickInv
  <1> SUFFICES ASSUME Init
               PROVE  TickInv
    OBVIOUS
  <1>1. DOMAIN stack = {} /\ Backlog = <<>> /\ started = <<>> /\ posted = <<>>
    BY DEF Init, Backlog
  <1>2. 1 .. Len(<<>>) = {}
    BY EmptySeq
  <1>3. QED
    BY <1>1, <1>2, PlacesInit DEF TickInv, DrainsInTicks, NumberedOn

LEMMA DrainsStayInTicks ==
  ASSUME TickInv, [Next]_vars, "run_pending" \notin PluginCalls
  PROVE  DrainsInTicks'
  <1>1. FramesStep
    BY StepMovesFrames DEF TickInv, PlacesInv
  <1>2. QED
    BY <1>1 DEF FramesStep, FrameStep, NewCall, TickInv, DrainsInTicks

\* What the steps that move a job do to the backlog.
LEMMA BacklogStep ==
  ASSUME TickInv, [Next]_vars, "run_pending" \notin PluginCalls
  PROVE  /\ Backlog \in Seq(Nat) /\ started \in Seq(Nat)
         /\ \/ /\ Backlog' = Append(Backlog, Len(posted) + 1)
               /\ Len(posted') = Len(posted) + 1
               /\ started' = started
            \/ /\ Backlog # <<>>
               /\ started' = Append(started, Head(Backlog))
               /\ Backlog' = Tail(Backlog)
               /\ posted' = posted
            \/ UNCHANGED <<Backlog, started, posted>>
  <1> DEFINE B == BatchesOf(stack)
             C == BatchesOf(stack')
  <1>1. /\ PlacesInv /\ PlacesInv' /\ QueueStep(B, C)
    BY PlacesNext, StepMovesJobs DEF TickInv
  <1>2. /\ jobs \in Seq(Nat) /\ started \in Seq(Nat) /\ jobs' \in Seq(Nat)
        /\ Len(posted) \in Nat /\ Len(stack) \in Nat /\ DOMAIN stack = 1 .. Len(stack)
        /\ B \in [Nat -> Seq(Nat)] /\ C \in [Nat -> Seq(Nat)]
    BY <1>1, LenProperties, JobsAreNumbers, BatchesType DEF PlacesInv, TypeInv, TypeOK
  <1>3. Backlog = B[2] \o jobs /\ Backlog' = C[2] \o jobs'
    <2>1. Backlog = BatchesOf(stack)[2] \o jobs
      BY <1>1, BacklogOfPlaces
    <2>2. (PlacesInv => Backlog = BatchesOf(stack)[2] \o jobs)'
      BY BacklogOfPlaces, PTL
    <2>3. QED
      BY <1>1, <2>1, <2>2
  <1>4. Draining => Len(stack) = 2
    <2>1. stack # <<>> => Len(stack) \in DOMAIN stack
      BY <1>2, EmptySeq, <1>1 DEF PlacesInv, TypeInv, TypeOK
    <2>2. QED
      BY <2>1 DEF Draining, Top, TickInv, DrainsInTicks
  <1> HIDE DEF B, C
  <1>5. Backlog \in Seq(Nat)
    BY <1>2, <1>3, ConcatProperties
  <1>6. CASE JobPosted(B, C)
    <2>1. C[2] = B[2] /\ jobs' = Append(jobs, Len(posted) + 1)
      BY <1>6 DEF JobPosted
    <2>2. B[2] \in Seq(Nat)
      <3>1. B \in [Nat -> Seq(Nat)]
        BY <1>2
      <3>2. QED
        BY <3>1
    <2>3. Len(posted) + 1 \in Nat /\ jobs \in Seq(Nat)
      BY <1>2
    <2>4. B[2] \o Append(jobs, Len(posted) + 1) = Append(B[2] \o jobs, Len(posted) + 1)
      BY <2>2, <2>3, AppendBehind
    <2>5. Backlog' = Append(Backlog, Len(posted) + 1)
      BY <1>3, <2>1, <2>4
    <2>6. QED
      BY <1>2, <1>5, <1>6, <2>5 DEF JobPosted
  <1>7. CASE Draining /\ BatchTaken(B, C)
    <2>1. B[2] = <<>> /\ C[2] = jobs /\ jobs' = <<>>
      BY <1>2, <1>4, <1>7 DEF BatchTaken
    <2>2. Backlog' = Backlog
      BY <1>2, <1>3, <2>1, ConcatEmptySeq
    <2>3. QED
      BY <1>2, <1>5, <1>7, <2>2 DEF BatchTaken
  <1>8. CASE Draining /\ JobStarted(B, C)
    <2>1. /\ B[2] # <<>> /\ C[2] = Tail(B[2]) /\ jobs' = jobs
          /\ started' = Append(started, Head(B[2]))
      BY <1>2, <1>4, <1>8 DEF JobStarted
    <2>2. Backlog # <<>> /\ Head(Backlog) = Head(B[2]) /\ Tail(Backlog) = C[2] \o jobs
      BY <1>2, <1>3, <2>1, FirstOfConcat
    <2>3. QED
      BY <1>2, <1>3, <1>5, <1>8, <2>1, <2>2 DEF JobStarted
  <1>9. CASE Draining /\ RestPutBack(B, C)
    <2>1. C[2] = <<>> /\ jobs' = B[2] \o jobs
      BY <1>2, <1>4, <1>9 DEF RestPutBack
    <2>2. Backlog' = Backlog
      BY <1>2, <1>3, <2>1, ConcatEmptySeq
    <2>3. QED
      BY <1>2, <1>5, <1>9, <2>2 DEF RestPutBack
  <1>10. CASE NoJobMoved(B, C)
    BY <1>2, <1>3, <1>5, <1>10 DEF NoJobMoved
  <1>11. QED
    BY <1>1, <1>6, <1>7, <1>8, <1>9, <1>10 DEF QueueStep

LEMMA TickInvNext ==
  ASSUME TickInv, [Next]_vars, "run_pending" \notin PluginCalls
  PROVE  TickInv'
  <1>1. PlacesInv' /\ DrainsInTicks'
    BY PlacesNext, DrainsStayInTicks DEF TickInv
  <1>2. /\ Backlog \in Seq(Nat) /\ started \in Seq(Nat)
        /\ Len(Backlog) \in Nat /\ Len(started) \in Nat /\ Len(posted) \in Nat
    BY BacklogStep, LenProperties DEF TickInv, PlacesInv, TypeInv, TypeOK
  <1>3. /\ Len(Backlog) + Len(started) = Len(posted)
        /\ NumberedOn(started, 0) /\ NumberedOn(Backlog, Len(started))
    BY DEF TickInv
  <1>4. CASE /\ Backlog' = Append(Backlog, Len(posted) + 1)
             /\ Len(posted') = Len(posted) + 1
             /\ started' = started
    <2>1. Len(posted) + 1 \in Nat
      BY <1>2
    <2>2. /\ Len(Backlog') = Len(Backlog) + 1
          /\ Backlog'[Len(Backlog) + 1] = Len(posted) + 1
          /\ \A i \in 1 .. Len(Backlog) : Backlog'[i] = Backlog[i]
      BY <1>2, <1>4, <2>1, AppendProperties
    <2>3. ASSUME NEW i \in 1 .. Len(Backlog) + 1
          PROVE  Backlog'[i] = Len(started) + i
      <3>1. CASE i \in 1 .. Len(Backlog)
        <4>1. Backlog'[i] = Backlog[i]
          BY <2>2, <3>1
        <4>2. Backlog[i] = Len(started) + i
          BY <1>3, <3>1 DEF NumberedOn
        <4>3. QED
          BY <4>1, <4>2
      <3>2. CASE i = Len(Backlog) + 1
        <4>1. Len(posted) + 1 = Len(started) + (Len(Backlog) + 1)
          BY <1>2, <1>3
        <4>2. QED
          BY <2>2, <3>2, <4>1
      <3>3. QED
        BY <1>2, <3>1, <3>2
    <2>4. Len(Backlog') + Len(started') = Len(posted')
      <3>1. (Len(Backlog) + 1) + Len(started) = Len(posted) + 1
        BY <1>2, <1>3
      <3>2. QED
        BY <1>4, <2>2, <3>1
    <2>5. NumberedOn(Backlog', Len(started'))
      BY <1>4, <2>2, <2>3 DEF NumberedOn
    <2>6. QED
      BY <1>1, <1>3, <1>4, <2>4, <2>5 DEF TickInv
  <1>5. CASE /\ Backlog # <<>>
             /\ started' = Append(started, Head(Backlog))
             /\ Backlog' = Tail(Backlog)
             /\ posted' = posted
    <2>1. /\ Head(Backlog) \in Nat /\ Head(Backlog) = Backlog[1] /\ Len(Backlog) \in Nat \ {0}
          /\ Len(Backlog') = Len(Backlog) - 1
          /\ \A i \in 1 .. Len(Backlog) - 1 : Backlog'[i] = Backlog[i + 1]
      BY <1>2, <1>5, EmptySeq, HeadTailProperties
    <2>2. Head(Backlog) = Len(started) + 1
      <3>1. 1 \in 1 .. Len(Backlog)
        BY <2>1
      <3>2. QED
        BY <1>3, <2>1, <3>1 DEF NumberedOn
    <2>3. /\ Len(started') = Len(started) + 1
          /\ started'[Len(started) + 1] = Len(started) + 1
          /\ \A i \in 1 .. Len(started) : started'[i] = started[i]
      BY <1>2, <1>5, <2>1, <2>2, AppendProperties
    <2>4. NumberedOn(started', 0)
      <3>1. ASSUME NEW i \in 1 .. Len(started) + 1
            PROVE  started'[i] = 0 + i
        <4>1. CASE i \in 1 .. Len(started)
          BY <1>3, <2>3, <4>1 DEF NumberedOn
        <4>2. CASE i = Len(started) + 1
          BY <1>2, <2>3, <4>2
        <4>3. QED
          BY <1>2, <4>1, <4>2
      <3>2. QED
        BY <2>3, <3>1 DEF NumberedOn
    <2>5. NumberedOn(Backlog', Len(started'))
      <3>1. ASSUME NEW i \in 1 .. Len(Backlog) - 1
            PROVE  Backlog'[i] = (Len(started) + 1) + i
        <4>1. i + 1 \in 1 .. Len(Backlog)
          BY <2>1
        <4>2. Backlog[i + 1] = Len(started) + (i + 1)
          BY <1>3, <4>1 DEF NumberedOn
        <4>3. QED
          BY <1>2, <2>1, <4>2
      <3>2. QED
        BY <2>1, <2>3, <3>1 DEF NumberedOn
    <2>6. Len(Backlog') + Len(started') = Len(posted')
      BY <1>2, <1>3, <1>5, <2>1, <2>3
    <2>7. QED
      BY <1>1, <2>4, <2>5, <2>6 DEF TickInv
  <1>6. CASE UNCHANGED <<Backlog, started, posted>>
    BY <1>1, <1>3, <1>6 DEF TickInv
  <1>7. QED
    BY <1>4, <1>5, <1>6, BacklogStep

\* Each step is one of JobQueue's, or moves no job there.
LEMMA StepIsAbstract ==
  ASSUME TickInv, [Next]_vars, "run_pending" \notin PluginCalls
  PROVE  [Abstract!Next]_(Abstract!vars)
  <1>1. Len(posted) \in Nat /\ Len(posted') <= MaxPosts /\ Len(Backlog) + Len(started) = Len(posted)
    BY TickInvNext, LenProperties DEF TickInv, PlacesInv, TypeInv, TypeOK
  <1>2. CASE /\ Backlog' = Append(Backlog, Len(posted) + 1)
             /\ Len(posted') = Len(posted) + 1
             /\ started' = started
    <2>1. Len(Backlog) + Len(started) < MaxPosts
      BY <1>1, <1>2, BoundsAssumption
    <2>2. Abstract!Post
      BY <1>1, <1>2, <2>1 DEF Abstract!Post
    <2>3. QED
      BY <2>2 DEF Abstract!Next
  <1>3. CASE /\ Backlog # <<>>
             /\ started' = Append(started, Head(Backlog))
             /\ Backlog' = Tail(Backlog)
    BY <1>3 DEF Abstract!Next, Abstract!Run
  <1>4. CASE UNCHANGED <<Backlog, started>>
    BY <1>4 DEF Abstract!vars
  <1>5. QED
    BY <1>2, <1>3, <1>4, BacklogStep

\* When the plugin leaves draining to the tick, the mutex, the count outside it,
\* takes, put_backs, budgets, borrows and panics implement JobQueue step by step:
\* jobs leave the queue one at a time, from its front, once.  That they all
\* leave it is the liveness that only the run mainthread_tick shows.
THEOREM QueueImplemented ==
  ASSUME "run_pending" \notin PluginCalls
  PROVE  SafeSpec => Abstract!SafeSpec
  <1>1. Init => TickInv
    BY TickInvInit
  <1>2. TickInv /\ [Next]_vars => TickInv'
    BY TickInvNext
  <1>3. Init => Abstract!Init
    <2>1. SUFFICES ASSUME Init
                   PROVE  Backlog = <<>> /\ started = <<>>
      BY DEF Abstract!Init
    <2>2. QED
      BY <2>1 DEF Init, Backlog
  <1>4. TickInv /\ [Next]_vars => [Abstract!Next]_(Abstract!vars)
    BY StepIsAbstract
  <1>5. QED
    BY <1>1, <1>2, <1>3, <1>4, PTL DEF SafeSpec, Abstract!SafeSpec

\* "In the order it was posted" (mainthread.rs:118) is so when the plugin leaves
\* draining to the tick: the condition that the configuration
\* MainThreadOrder.cfg shows cannot be left out.
THEOREM OrderKeptByTicks ==
  ASSUME "run_pending" \notin PluginCalls
  PROVE  SafeSpec => []StartedInPostingOrder
  <1>1. ASSUME TickInv
        PROVE  StartedInPostingOrder
    <2>1. DOMAIN started = 1 .. Len(started) /\ Len(started) \in Nat
      BY <1>1, LenProperties DEF TickInv, PlacesInv, TypeInv, TypeOK
    <2>2. \A i \in 1 .. Len(started) : started[i] = i
      BY <1>1, <2>1 DEF TickInv, NumberedOn
    <2>3. QED
      BY <2>1, <2>2 DEF StartedInPostingOrder
  <1>2. TickInv /\ [Next]_vars => TickInv'
    BY TickInvNext
  <1>3. TickInv => StartedInPostingOrder
    BY <1>1
  <1>4. QED
    BY <1>2, <1>3, TickInvInit, PTL DEF SafeSpec

=============================================================================
