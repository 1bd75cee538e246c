--------------------------- MODULE SpinlockProofs ---------------------------
(***************************************************************************)
(* Spin-locks exclude each other, keep interrupts off while they are held, *)
(* restore the interrupt flag and never panic, for any number of CPUs and  *)
(* locks.                                                                  *)
(***************************************************************************)
EXTENDS Spinlock, FiniteSetTheorems, SequenceTheorems, TLAPS

Calling == {"acquire", "cli", "xchg", "own"}
Thread == [pc : Calling \union {"run", "unlock", "popcli"}, l : Lock \union {0},
           held : SUBSET Lock, eflags : BOOLEAN]
Stack == {s \in Seq(Thread) : Len(s) \in {1, 2}}

TypeInv ==
    /\ locked \in [Lock -> BOOLEAN]
    /\ owner \in [Lock -> Cpu \union {NoCpu}]
    /\ IF_ \in [Cpu -> BOOLEAN]
    /\ ncli \in [Cpu -> Nat]
    /\ intena \in [Cpu -> BOOLEAN]
    /\ code \in [Cpu -> Stack]
    /\ found \in [Cpu -> BOOLEAN]
    /\ panicked = FALSE

\* The locks whose bit a thread has set, those that name its CPU as their
\* owner, and its share of ncli.
Taken(t) == IF t.pc = "own" THEN t.held \union {t.l} ELSE t.held
Owned(t) == IF t.pc = "unlock" THEN t.held \ {t.l} ELSE t.held
Pushed(t) == Cardinality(t.held) + (IF t.pc \in {"xchg", "own", "popcli"} THEN 1 ELSE 0)

ThreadInv(t) ==
    /\ IsFiniteSet(t.held)
    /\ t.pc # "run" => t.l \in Lock
    /\ t.pc \in Calling => \A h \in t.held : h < t.l
    /\ t.pc = "unlock" => t.l \in t.held

LockInv ==
    /\ \A c \in Cpu : ThreadInv(Top(c))
    /\ \A c \in Cpu : \A l \in Taken(Top(c)) : locked[l]
    /\ \A c, d \in Cpu : c # d => Taken(Top(c)) \cap Taken(Top(d)) = {}
    /\ \A c \in Cpu, l \in Lock : owner[l] = c <=> l \in Owned(Top(c))

\* The code that a handler has interrupted holds nothing.
Below(t) == t.held = {} /\ t.pc \in {"run", "acquire", "cli"} /\ ThreadInv(t)

FlagOk(c) ==
    /\ ncli[c] = Pushed(Top(c))
    /\ intena[c] = found[c]
    /\ IF_[c] => Len(code[c]) = 1 /\ ncli[c] = 0
    /\ Len(code[c]) = 2 =>
          /\ Below(code[c][1])
          /\ Top(c).pc = "cli" => ~Top(c).eflags
          /\ ncli[c] > 0 => ~intena[c]

FlagInv == \A c \in Cpu : FlagOk(c)

SpinInv == TypeInv /\ LockInv /\ FlagInv

-----------------------------------------------------------------------------
\* A stack of one thread with a second one on top.
LEMMA AppendSecond ==
    ASSUME NEW S, NEW s \in Seq(S), Len(s) = 1, NEW e \in S
    PROVE  /\ Append(s, e) \in Seq(S) /\ Len(Append(s, e)) = 2
           /\ Append(s, e)[1] = s[1] /\ Append(s, e)[2] = e
<1>1. Append(s, e) \in Seq(S) /\ Len(Append(s, e)) = 2
  OBVIOUS
<1>2. Append(s, e)[1] = s[1]
  OBVIOUS
<1>3. Append(s, e)[Len(s) + 1] = e
  BY AppendProperties, Zenon
<1> QED
  BY <1>1, <1>2, <1>3

\* The code of a CPU has a top, which is a thread.
LEMMA TopType ==
    ASSUME code \in [Cpu -> Stack], NEW c \in Cpu
    PROVE  /\ code[c] \in Seq(Thread)
           /\ Len(code[c]) \in {1, 2}
           /\ Len(code[c]) \in 1 .. Len(code[c])
           /\ Top(c) \in Thread
<1>1. code[c] \in Seq(Thread) /\ Len(code[c]) \in {1, 2}
  BY DEF Stack
<1>2. Len(code[c]) \in 1 .. Len(code[c])
  BY <1>1
<1>3. code[c][Len(code[c])] \in Thread
  BY <1>1, <1>2, ElementOfSeq
<1> QED
  BY <1>1, <1>2, <1>3 DEF Top

\* The code of a CPU after a step of the thread that runs there.
LEMMA SetTop ==
    ASSUME code \in [Cpu -> Stack], NEW c \in Cpu, NEW t \in Thread, Set(c, t)
    PROVE  /\ code' \in [Cpu -> Stack]
           /\ Top(c)' = t
           /\ Len(code'[c]) = Len(code[c])
           /\ Len(code[c]) = 2 => code'[c][1] = code[c][1]
           /\ \A d \in Cpu : d # c => code'[d] = code[d] /\ Top(d)' = Top(d)
<1>1. /\ code[c] \in Seq(Thread) /\ Len(code[c]) \in {1, 2}
      /\ Len(code[c]) \in 1 .. Len(code[c])
  BY TopType
<1> DEFINE s == [code[c] EXCEPT ![Len(code[c])] = t]
<1>2. s \in Seq(Thread) /\ Len(s) = Len(code[c])
  <2> DEFINE q == code[c]
  <2>1. q \in Seq(Thread) /\ Len(q) \in 1 .. Len(q)
    BY <1>1
  <2> HIDE DEF q
  <2>2. [q EXCEPT ![Len(q)] = t] \in Seq(Thread) /\ Len([q EXCEPT ![Len(q)] = t]) = Len(q)
    BY <2>1, ExceptSeq
  <2> QED
    BY <2>2 DEF q
<1>3. code' = [code EXCEPT ![c] = s]
  BY DEF Set
<1>4. code'[c] = s
  BY <1>3
<1>5. code' \in [Cpu -> Stack]
  BY <1>2, <1>3 DEF Stack
<1>6. s[Len(s)] = t /\ (Len(code[c]) = 2 => s[1] = code[c][1])
  BY <1>1, <1>2, ExceptSeq
<1> HIDE DEF s
<1> QED
  BY <1>2, <1>3, <1>4, <1>5, <1>6 DEF Top


\* The CPUs start without a lock, whatever their interrupt flags.
LEMMA SpinInit == ASSUME SpinlockAssumption PROVE Init => SpinInv
<1> SUFFICES ASSUME Init PROVE SpinInv
  OBVIOUS
<1>1. Start \in Thread
  BY DEF Start, Thread, Calling
<1>2. <<Start>> \in Stack /\ Len(<<Start>>) = 1 /\ <<Start>>[1] = Start
  BY <1>1 DEF Stack
<1>3. \A c \in Cpu : code[c] = <<Start>> /\ Top(c) = Start
  BY <1>2 DEF Init, Top
<1>4. TypeInv
  BY <1>2 DEF Init, TypeInv
<1>5. Start.held = {} /\ Start.pc = "run" /\ IsFiniteSet({}) /\ Cardinality({}) = 0
  BY FS_EmptySet DEF Start
<1>6. LockInv
  BY <1>3, <1>5 DEF Init, LockInv, ThreadInv, Taken, Owned, Calling, SpinlockAssumption
<1>7. FlagInv
  <2>1. Pushed(Start) = 0
    BY <1>5 DEF Pushed
  <2> SUFFICES ASSUME NEW c \in Cpu PROVE FlagOk(c)
    BY DEF FlagInv
  <2>2. /\ Top(c) = Start /\ Len(code[c]) = 1
        /\ ncli[c] = 0 /\ intena[c] = FALSE /\ found[c] = FALSE
    BY <1>2, <1>3 DEF Init
  <2>3. ncli[c] = Pushed(Top(c)) /\ intena[c] = found[c]
    BY <2>1, <2>2
  <2>4. Len(code[c]) # 2
    BY <2>2
  <2> QED
    BY <2>2, <2>3, <2>4, Zenon DEF FlagOk
<1> QED
  BY <1>4, <1>6, <1>7 DEF SpinInv

\* A step of the code that runs on c, to t, that keeps its locks.
LEMMA SameLocks ==
    ASSUME SpinInv, NEW c \in Cpu, NEW t \in Thread, Set(c, t), ThreadInv(t),
           Taken(t) = Taken(Top(c)), Owned(t) = Owned(Top(c)), UNCHANGED <<locked, owner>>
    PROVE  LockInv'
<1>1. /\ Top(c)' = t
      /\ \A d \in Cpu : d # c => Top(d)' = Top(d)
  BY SetTop DEF SpinInv, TypeInv
<1>2. \A d \in Cpu : /\ ThreadInv(Top(d)') /\ Taken(Top(d)') = Taken(Top(d))
                     /\ Owned(Top(d)') = Owned(Top(d))
  BY <1>1 DEF SpinInv, LockInv
<1> QED
  BY <1>2 DEF SpinInv, LockInv


\* A step that leaves the flags of the other CPUs alone.
LEMMA OtherFlags ==
    ASSUME FlagInv, NEW c \in Cpu, FlagOk(c)',
           \A d \in Cpu : d # c => /\ code'[d] = code[d] /\ IF_'[d] = IF_[d] /\ ncli'[d] = ncli[d]
                                   /\ intena'[d] = intena[d] /\ found'[d] = found[d]
    PROVE  FlagInv'
<1> SUFFICES ASSUME NEW d \in Cpu, d # c PROVE FlagOk(d)'
  BY DEF FlagInv
<1>1. FlagOk(d) /\ Top(d)' = Top(d)
  BY DEF FlagInv, Top
<1> QED
  BY <1>1 DEF FlagOk

\* What is known of the code that runs on c.
LEMMA TopFacts ==
    ASSUME SpinInv, NEW c \in Cpu
    PROVE  /\ Top(c) \in Thread /\ ThreadInv(Top(c)) /\ FlagOk(c)
           /\ Cardinality(Top(c).held) \in Nat
           /\ Cardinality(Top(c).held) = 0 => Top(c).held = {}
           /\ Len(code[c]) \in {1, 2}
           /\ code \in [Cpu -> Stack]
BY TopType, FS_CardinalityType, FS_EmptySet DEF SpinInv, TypeInv, LockInv, FlagInv, ThreadInv

\* The call of acquire().
LEMMA AcquireStep ==
    ASSUME SpinlockAssumption, SpinInv, NEW c \in Cpu, NEW l \in Lock, acquire(c, l)
    PROVE  SpinInv'
<1> DEFINE t == [Top(c) EXCEPT !.pc = "acquire", !.l = l]
<1>0. /\ Top(c).pc = "run" /\ Len(code[c]) = 1 /\ \A h \in Top(c).held : h < l
      /\ Set(c, t) /\ UNCHANGED <<locked, owner, IF_, ncli, intena, found, panicked>>
  BY DEF acquire, At
<1>1. /\ t \in Thread /\ t.pc = "acquire" /\ t.l = l /\ t.held = Top(c).held
  BY TopFacts DEF Thread, Calling
<1> HIDE DEF t
<1>2. ThreadInv(t) /\ Taken(t) = Taken(Top(c)) /\ Owned(t) = Owned(Top(c)) /\ Pushed(t) = Pushed(Top(c))
  BY <1>0, <1>1, TopFacts DEF ThreadInv, Taken, Owned, Pushed
<1>3. /\ code' \in [Cpu -> Stack] /\ Top(c)' = t /\ Len(code'[c]) = 1
      /\ \A d \in Cpu : d # c => code'[d] = code[d]
  BY <1>0, <1>1, SetTop, TopFacts
<1>4. TypeInv'
  BY <1>0, <1>3 DEF SpinInv, TypeInv
<1>5. LockInv'
  BY <1>0, <1>1, <1>2, SameLocks
<1>6. FlagOk(c)'
  BY <1>0, <1>2, <1>3, TopFacts DEF FlagOk
<1>7. FlagInv'
  BY <1>0, <1>3, <1>6, OtherFlags DEF SpinInv
<1> QED
  BY <1>4, <1>5, <1>7 DEF SpinInv

\* pushcli() reads the flag.
LEMMA PushcliReadStep ==
    ASSUME SpinlockAssumption, SpinInv, NEW c \in Cpu, pushcli_read(c)
    PROVE  SpinInv'
<1> DEFINE t == [Top(c) EXCEPT !.pc = "cli", !.eflags = IF_[c]]
<1>0. /\ Top(c).pc = "acquire"
      /\ Set(c, t) /\ UNCHANGED <<locked, owner, IF_, ncli, intena, found, panicked>>
  BY DEF pushcli_read, At
<1>1. /\ t \in Thread /\ t.pc = "cli" /\ t.l = Top(c).l /\ t.held = Top(c).held /\ t.eflags = IF_[c]
  BY TopFacts DEF Thread, Calling, SpinInv, TypeInv
<1> HIDE DEF t
<1>2. ThreadInv(t) /\ Taken(t) = Taken(Top(c)) /\ Owned(t) = Owned(Top(c)) /\ Pushed(t) = Pushed(Top(c))
  BY <1>0, <1>1, TopFacts DEF ThreadInv, Taken, Owned, Pushed, Calling
<1>3. /\ code' \in [Cpu -> Stack] /\ Top(c)' = t /\ Len(code'[c]) = Len(code[c])
      /\ Len(code[c]) = 2 => code'[c][1] = code[c][1]
      /\ \A d \in Cpu : d # c => code'[d] = code[d]
  BY <1>0, <1>1, SetTop, TopFacts
<1>4. TypeInv'
  BY <1>0, <1>3 DEF SpinInv, TypeInv
<1>5. LockInv'
  BY <1>0, <1>1, <1>2, SameLocks
<1>6. FlagOk(c)'
  <2>1. FlagOk(c) /\ (Len(code[c]) = 2 => ~IF_[c])
    BY TopFacts DEF FlagOk
  <2>2. Len(code'[c]) = 2 => ~t.eflags
    BY <1>1, <1>3, <2>1
  <2> QED
    BY <1>0, <1>2, <1>3, <2>1, <2>2 DEF FlagOk
<1>7. FlagInv'
  BY <1>0, <1>3, <1>6, OtherFlags DEF SpinInv
<1> QED
  BY <1>4, <1>5, <1>7 DEF SpinInv

\* pushcli() turns interrupts off and counts.
LEMMA PushcliStep ==
    ASSUME SpinlockAssumption, SpinInv, NEW c \in Cpu, pushcli(c)
    PROVE  SpinInv'
<1> DEFINE t == [Top(c) EXCEPT !.pc = "xchg"]
<1>0. /\ Top(c).pc = "cli"
      /\ Set(c, t) /\ UNCHANGED <<locked, owner, panicked>>
      /\ IF_' = [IF_ EXCEPT ![c] = FALSE]
      /\ intena' = [intena EXCEPT ![c] = IF ncli[c] = 0 THEN Top(c).eflags ELSE intena[c]]
      /\ ncli' = [ncli EXCEPT ![c] = ncli[c] + 1]
      /\ found' = [found EXCEPT ![c] = IF Top(c).held = {} THEN Top(c).eflags ELSE found[c]]
  BY DEF pushcli, At, Goto, Cli, Saved
<1>1. /\ t \in Thread /\ t.pc = "xchg" /\ t.l = Top(c).l /\ t.held = Top(c).held
      /\ Top(c).eflags \in BOOLEAN
  BY TopFacts DEF Thread, Calling
<1> HIDE DEF t
<1>2. ThreadInv(t) /\ Taken(t) = Taken(Top(c)) /\ Owned(t) = Owned(Top(c))
  BY <1>0, <1>1, TopFacts DEF ThreadInv, Taken, Owned, Calling
<1>3. /\ code' \in [Cpu -> Stack] /\ Top(c)' = t /\ Len(code'[c]) = Len(code[c])
      /\ Len(code[c]) = 2 => code'[c][1] = code[c][1]
      /\ \A d \in Cpu : d # c => code'[d] = code[d]
  BY <1>0, <1>1, SetTop, TopFacts
<1>4. TypeInv'
  <2>0. TypeInv
    BY DEF SpinInv
  <2>1. IF_' \in [Cpu -> BOOLEAN]
    BY <1>0, <2>0 DEF TypeInv
  <2>2. intena' \in [Cpu -> BOOLEAN]
    BY <1>0, <1>1, <2>0 DEF TypeInv
  <2>3. found' \in [Cpu -> BOOLEAN]
    BY <1>0, <1>1, <2>0 DEF TypeInv
  <2>4. ncli' \in [Cpu -> Nat]
    BY <1>0, <2>0 DEF TypeInv
  <2> QED
    BY <1>0, <1>3, <2>0, <2>1, <2>2, <2>3, <2>4 DEF TypeInv
<1>5. LockInv'
  BY <1>0, <1>1, <1>2, SameLocks
<1>6. FlagOk(c)'
  <2>1. ncli[c] = Cardinality(Top(c).held) /\ Pushed(t) = Cardinality(Top(c).held) + 1
    BY <1>0, <1>1, TopFacts DEF FlagOk, Pushed
  <2>2. ncli[c] = 0 <=> Top(c).held = {}
    BY <2>1, TopFacts, FS_EmptySet
  <2>3. /\ ncli'[c] = ncli[c] + 1 /\ IF_'[c] = FALSE
        /\ intena'[c] = (IF ncli[c] = 0 THEN Top(c).eflags ELSE intena[c])
        /\ found'[c] = (IF ncli[c] = 0 THEN Top(c).eflags ELSE found[c])
    BY <1>0, <2>2 DEF SpinInv, TypeInv
  <2>4. ncli[c] \in Nat
    BY DEF SpinInv, TypeInv
  <2> QED
    BY <1>0, <1>1, <1>3, <2>1, <2>3, <2>4, TopFacts DEF FlagOk
<1>7. FlagInv'
  <2>1. \A d \in Cpu : d # c => /\ code'[d] = code[d] /\ IF_'[d] = IF_[d] /\ ncli'[d] = ncli[d]
                                /\ intena'[d] = intena[d] /\ found'[d] = found[d]
    BY <1>0, <1>3 DEF SpinInv, TypeInv
  <2> QED
    BY <2>1, <1>6, OtherFlags DEF SpinInv
<1> QED
  BY <1>4, <1>5, <1>7 DEF SpinInv


\* The lock is free: code that waits for it does not have it already, so
\* there is no panic.
LEMMA XchgStep ==
    ASSUME SpinlockAssumption, SpinInv, NEW c \in Cpu, xchg(c)
    PROVE  SpinInv'
<1> DEFINE l == Top(c).l
<1> DEFINE t == [Top(c) EXCEPT !.pc = "own"]
<1>a. Top(c).pc = "xchg" /\ l \in Lock /\ Owned(Top(c)) = Top(c).held /\ Taken(Top(c)) = Top(c).held
  BY TopFacts DEF xchg, At, ThreadInv, Owned, Taken
<1>b. l \notin Top(c).held
  <2>1. \A h \in Top(c).held : h < l
    BY <1>a, TopFacts DEF ThreadInv, Calling
  <2>2. l \in Int
    BY <1>a DEF SpinlockAssumption
  <2> QED
    BY <2>1, <2>2
<1>c. ~holding(c, l)
  BY <1>a, <1>b DEF holding, SpinInv, LockInv
<1>0. /\ ~locked[l] /\ locked' = [locked EXCEPT ![l] = TRUE]
      /\ Set(c, t) /\ UNCHANGED <<owner, IF_, ncli, intena, found, panicked>>
  BY <1>c DEF xchg, Available, Goto
<1>1. t \in Thread /\ t.pc = "own" /\ t.l = l /\ t.held = Top(c).held /\ t.eflags = Top(c).eflags
  BY TopFacts DEF Thread, Calling
<1> HIDE DEF t
<1>2. /\ ThreadInv(t) /\ Taken(t) = Top(c).held \union {l} /\ Owned(t) = Top(c).held
      /\ Pushed(t) = Pushed(Top(c))
  BY <1>a, <1>1, TopFacts DEF ThreadInv, Taken, Owned, Pushed, Calling
<1>3. /\ code' \in [Cpu -> Stack] /\ Top(c)' = t /\ Len(code'[c]) = Len(code[c])
      /\ Len(code[c]) = 2 => code'[c][1] = code[c][1]
      /\ \A d \in Cpu : d # c => code'[d] = code[d] /\ Top(d)' = Top(d)
  BY <1>0, <1>1, SetTop, TopFacts
<1>4. TypeInv'
  BY <1>0, <1>3 DEF SpinInv, TypeInv
<1>5. LockInv'
  <2>0. l \in Lock /\ locked \in [Lock -> BOOLEAN] /\ LockInv
    BY <1>a DEF SpinInv, TypeInv
  <2>1. \A d \in Cpu : ThreadInv(Top(d)')
    BY <1>2, <1>3, <2>0 DEF LockInv
  <2>2. \A d \in Cpu : l \notin Taken(Top(d))
    BY <1>0, <2>0 DEF LockInv
  <2>3. \A d \in Cpu : \A k \in Taken(Top(d)') : locked'[k]
    <3> SUFFICES ASSUME NEW d \in Cpu, NEW k \in Taken(Top(d)') PROVE locked'[k]
      OBVIOUS
    <3>1. k = l \/ k \in Taken(Top(d))
      BY <1>a, <1>2, <1>3
    <3>2. Taken(Top(d)) \subseteq Lock
      BY TopFacts DEF Thread, Taken, ThreadInv
    <3>3. k \in Taken(Top(d)) => locked[k]
      BY <2>0 DEF LockInv
    <3> QED
      BY <1>0, <2>0, <3>1, <3>2, <3>3
  <2>4. \A d, f \in Cpu : d # f => Taken(Top(d)') \cap Taken(Top(f)') = {}
    BY <1>a, <1>2, <1>3, <2>0, <2>2 DEF LockInv
  <2>5. \A d \in Cpu, k \in Lock : owner'[k] = d <=> k \in Owned(Top(d)')
    BY <1>0, <1>a, <1>2, <1>3, <2>0 DEF LockInv
  <2> QED
    BY <2>1, <2>3, <2>4, <2>5 DEF LockInv
<1>6. FlagOk(c)'
  BY <1>0, <1>1, <1>2, <1>3, TopFacts DEF FlagOk
<1>7. FlagInv'
  BY <1>0, <1>3, <1>6, OtherFlags DEF SpinInv, TypeInv
<1> QED
  BY <1>4, <1>5, <1>7 DEF SpinInv

\* The owner of a lock is entered.
LEMMA OwnStep ==
    ASSUME SpinlockAssumption, SpinInv, NEW c \in Cpu, own(c)
    PROVE  SpinInv'
<1> DEFINE l == Top(c).l
<1> DEFINE t == [Top(c) EXCEPT !.pc = "run", !.held = Top(c).held \union {l}]
<1>0. /\ owner' = [owner EXCEPT ![l] = c] /\ Top(c).pc = "own"
      /\ Set(c, t) /\ UNCHANGED <<locked, IF_, ncli, intena, found, panicked>>
  BY DEF own, At
<1>a. /\ l \in Lock /\ Owned(Top(c)) = Top(c).held /\ Taken(Top(c)) = Top(c).held \union {l}
  BY <1>0, TopFacts DEF ThreadInv, Owned, Taken
<1>b. l \notin Top(c).held
  BY <1>0, <1>a, TopFacts DEF ThreadInv, Calling, Thread, SpinlockAssumption
<1>1. /\ t \in Thread /\ t.pc = "run" /\ t.held = Top(c).held \union {l} /\ t.eflags = Top(c).eflags
  BY <1>a, TopFacts DEF Thread, Calling
<1> HIDE DEF t
<1>c. /\ IsFiniteSet(t.held) /\ Cardinality(t.held) = Cardinality(Top(c).held) + 1
  <2>1. IsFiniteSet(Top(c).held)
    BY TopFacts DEF ThreadInv
  <2>2. /\ IsFiniteSet(Top(c).held \union {l})
        /\ Cardinality(Top(c).held \union {l}) =
              IF l \in Top(c).held THEN Cardinality(Top(c).held) ELSE Cardinality(Top(c).held) + 1
    BY <2>1, FS_AddElement
  <2> QED
    BY <1>1, <1>b, <2>2
<1>2. /\ ThreadInv(t) /\ Taken(t) = Taken(Top(c)) /\ Owned(t) = Top(c).held \union {l}
      /\ Pushed(t) = Pushed(Top(c))
  BY <1>0, <1>a, <1>1, <1>c, TopFacts DEF ThreadInv, Taken, Owned, Pushed, Calling
<1>3. /\ code' \in [Cpu -> Stack] /\ Top(c)' = t /\ Len(code'[c]) = Len(code[c])
      /\ Len(code[c]) = 2 => code'[c][1] = code[c][1]
      /\ \A d \in Cpu : d # c => code'[d] = code[d] /\ Top(d)' = Top(d)
  BY <1>0, <1>1, SetTop, TopFacts
<1>4. TypeInv'
  BY <1>0, <1>3 DEF SpinInv, TypeInv
<1>5. LockInv'
  <2>0. l \in Lock /\ owner \in [Lock -> Cpu \union {NoCpu}] /\ LockInv
    BY <1>a DEF SpinInv, TypeInv
  <2>1. \A d \in Cpu : ThreadInv(Top(d)') /\ Taken(Top(d)') = Taken(Top(d))
    BY <1>2, <1>3, <2>0 DEF LockInv
  <2>2. \A d \in Cpu : d # c => l \notin Taken(Top(d))
    BY <1>a, <2>0 DEF LockInv
  <2>3. \A d \in Cpu : d # c => l \notin Owned(Top(d))
    BY <2>2 DEF Owned, Taken
  <2>4. \A d \in Cpu, k \in Lock : owner'[k] = d <=> k \in Owned(Top(d)')
    BY <1>0, <1>a, <1>2, <1>3, <2>0, <2>3 DEF LockInv
  <2> QED
    BY <1>0, <2>0, <2>1, <2>4 DEF LockInv
<1>6. FlagOk(c)'
  BY <1>0, <1>1, <1>2, <1>3, TopFacts DEF FlagOk
<1>7. FlagInv'
  BY <1>0, <1>3, <1>6, OtherFlags DEF SpinInv, TypeInv
<1> QED
  BY <1>4, <1>5, <1>7 DEF SpinInv

\* The owner of a lock is cleared: it is the CPU that releases it, so there
\* is no panic.
LEMMA ReleaseStep ==
    ASSUME SpinlockAssumption, SpinInv, NEW c \in Cpu, NEW l \in Lock, release(c, l)
    PROVE  SpinInv'
<1> DEFINE t == [Top(c) EXCEPT !.pc = "unlock", !.l = l]
<1>a. /\ Top(c).pc = "run" /\ l \in Top(c).held
      /\ Owned(Top(c)) = Top(c).held /\ Taken(Top(c)) = Top(c).held
  BY DEF release, At, Owned, Taken
<1>b. holding(c, l)
  BY <1>a DEF holding, SpinInv, LockInv
<1>0. /\ owner' = [owner EXCEPT ![l] = NoCpu]
      /\ Set(c, t) /\ UNCHANGED <<locked, IF_, ncli, intena, found, panicked>>
  BY <1>b DEF release
<1>1. t \in Thread /\ t.pc = "unlock" /\ t.l = l /\ t.held = Top(c).held
  BY TopFacts DEF Thread, Calling
<1> HIDE DEF t
<1>2. /\ ThreadInv(t) /\ Taken(t) = Taken(Top(c)) /\ Owned(t) = Top(c).held \ {l}
      /\ Pushed(t) = Pushed(Top(c))
  BY <1>a, <1>1, TopFacts DEF ThreadInv, Taken, Owned, Pushed, Calling
<1>3. /\ code' \in [Cpu -> Stack] /\ Top(c)' = t /\ Len(code'[c]) = Len(code[c])
      /\ Len(code[c]) = 2 => code'[c][1] = code[c][1]
      /\ \A d \in Cpu : d # c => code'[d] = code[d] /\ Top(d)' = Top(d)
  BY <1>0, <1>1, SetTop, TopFacts
<1>4. TypeInv'
  BY <1>0, <1>3 DEF SpinInv, TypeInv
<1>5. LockInv'
  <2>0. owner \in [Lock -> Cpu \union {NoCpu}] /\ LockInv /\ NoCpu \notin Cpu
    BY DEF SpinInv, TypeInv, SpinlockAssumption
  <2>1. \A d \in Cpu : ThreadInv(Top(d)') /\ Taken(Top(d)') = Taken(Top(d))
    BY <1>2, <1>3, <2>0 DEF LockInv
  <2>2. \A d \in Cpu : d # c => l \notin Taken(Top(d))
    BY <1>a, <2>0 DEF LockInv
  <2>3. \A d \in Cpu : d # c => l \notin Owned(Top(d))
    BY <2>2 DEF Owned, Taken
  <2>4. \A d \in Cpu, k \in Lock : owner'[k] = d <=> k \in Owned(Top(d)')
    BY <1>0, <1>a, <1>2, <1>3, <2>0, <2>3 DEF LockInv
  <2> QED
    BY <1>0, <2>0, <2>1, <2>4 DEF LockInv
<1>6. FlagOk(c)'
  BY <1>0, <1>1, <1>2, <1>3, TopFacts DEF FlagOk
<1>7. FlagInv'
  BY <1>0, <1>3, <1>6, OtherFlags DEF SpinInv, TypeInv
<1> QED
  BY <1>4, <1>5, <1>7 DEF SpinInv

\* The lock is free again.
LEMMA UnlockStep ==
    ASSUME SpinlockAssumption, SpinInv, NEW c \in Cpu, unlock(c)
    PROVE  SpinInv'
<1> DEFINE l == Top(c).l
<1> DEFINE t == [Top(c) EXCEPT !.pc = "popcli", !.held = Top(c).held \ {l}]
<1>0. /\ locked' = [locked EXCEPT ![l] = FALSE] /\ Top(c).pc = "unlock"
      /\ Set(c, t) /\ UNCHANGED <<owner, IF_, ncli, intena, found, panicked>>
  BY DEF unlock, At
<1>a. /\ l \in Lock /\ l \in Top(c).held
      /\ Owned(Top(c)) = Top(c).held \ {l} /\ Taken(Top(c)) = Top(c).held
  BY <1>0, TopFacts DEF ThreadInv, Owned, Taken
<1>1. /\ t \in Thread /\ t.pc = "popcli" /\ t.l = l /\ t.held = Top(c).held \ {l}
  BY <1>a, TopFacts DEF Thread, Calling
<1> HIDE DEF t
<1>c. /\ IsFiniteSet(t.held) /\ Cardinality(t.held) = Cardinality(Top(c).held) - 1
  BY <1>1, <1>a, TopFacts, FS_RemoveElement DEF ThreadInv
<1>2. /\ ThreadInv(t) /\ Taken(t) = Top(c).held \ {l} /\ Owned(t) = Owned(Top(c))
      /\ Pushed(t) = Pushed(Top(c))
  BY <1>0, <1>a, <1>1, <1>c, TopFacts DEF ThreadInv, Taken, Owned, Pushed, Calling
<1>3. /\ code' \in [Cpu -> Stack] /\ Top(c)' = t /\ Len(code'[c]) = Len(code[c])
      /\ Len(code[c]) = 2 => code'[c][1] = code[c][1]
      /\ \A d \in Cpu : d # c => code'[d] = code[d] /\ Top(d)' = Top(d)
  BY <1>0, <1>1, SetTop, TopFacts
<1>4. TypeInv'
  BY <1>0, <1>3 DEF SpinInv, TypeInv
<1>5. LockInv'
  <2>0. l \in Lock /\ locked \in [Lock -> BOOLEAN] /\ LockInv
    BY <1>a DEF SpinInv, TypeInv
  <2>1. \A d \in Cpu : /\ ThreadInv(Top(d)') /\ Owned(Top(d)') = Owned(Top(d))
                       /\ Taken(Top(d)') \subseteq Taken(Top(d))
    <3>1. ThreadInv(Top(c)') /\ Owned(Top(c)') = Owned(Top(c)) /\ Taken(Top(c)') \subseteq Taken(Top(c))
      BY <1>a, <1>2, <1>3
    <3>2. \A d \in Cpu : d # c => ThreadInv(Top(d)') /\ Top(d)' = Top(d)
      BY <1>3, <2>0 DEF LockInv
    <3> QED
      BY <3>1, <3>2
  <2>2. \A d \in Cpu : l \notin Taken(Top(d)')
    BY <1>a, <1>2, <1>3, <2>0 DEF LockInv
  <2>3. \A d \in Cpu : \A k \in Taken(Top(d)') : locked'[k]
    <3> SUFFICES ASSUME NEW d \in Cpu, NEW k \in Taken(Top(d)') PROVE locked'[k]
      OBVIOUS
    <3>1. k # l /\ k \in Taken(Top(d))
      BY <2>1, <2>2
    <3>2. Taken(Top(d)) \subseteq Lock
      BY TopFacts DEF Thread, Taken, ThreadInv
    <3>3. locked[k]
      BY <2>0, <3>1 DEF LockInv
    <3> QED
      BY <1>0, <2>0, <3>1, <3>2, <3>3
  <2>4. \A d, f \in Cpu : d # f => Taken(Top(d)') \cap Taken(Top(f)') = {}
    BY <2>0, <2>1 DEF LockInv
  <2> QED
    BY <1>0, <2>0, <2>1, <2>3, <2>4 DEF LockInv
<1>6. FlagOk(c)'
  BY <1>0, <1>1, <1>2, <1>3, TopFacts DEF FlagOk
<1>7. FlagInv'
  BY <1>0, <1>3, <1>6, OtherFlags DEF SpinInv, TypeInv
<1> QED
  BY <1>4, <1>5, <1>7 DEF SpinInv

\* Interrupts come back with the outermost popcli() only, so there is no
\* panic.
LEMMA PopcliStep ==
    ASSUME SpinlockAssumption, SpinInv, NEW c \in Cpu, popcli(c)
    PROVE  SpinInv'
<1> DEFINE t == [Top(c) EXCEPT !.pc = "run"]
<1>a. Top(c).pc = "popcli" /\ ncli[c] = Cardinality(Top(c).held) + 1 /\ ncli[c] \in Nat
  BY TopFacts DEF popcli, At, FlagOk, Pushed, SpinInv, TypeInv
<1>b. ncli[c] # 0 /\ ~IF_[c]
  BY <1>a, TopFacts DEF FlagOk
<1>0. /\ ncli' = [ncli EXCEPT ![c] = ncli[c] - 1]
      /\ IF_' = [IF_ EXCEPT ![c] = IF ncli[c] = 1 THEN intena[c] ELSE IF_[c]]
      /\ Set(c, t) /\ UNCHANGED <<locked, owner, intena, found, panicked>>
  BY <1>b DEF popcli, Goto, Sti
<1>1. t \in Thread /\ t.pc = "run" /\ t.l = Top(c).l /\ t.held = Top(c).held
  BY TopFacts DEF Thread, Calling
<1> HIDE DEF t
<1>2. /\ ThreadInv(t) /\ Taken(t) = Taken(Top(c)) /\ Owned(t) = Owned(Top(c))
      /\ Pushed(t) = Cardinality(Top(c).held)
  BY <1>a, <1>1, TopFacts DEF ThreadInv, Taken, Owned, Pushed, Calling
<1>3. /\ code' \in [Cpu -> Stack] /\ Top(c)' = t /\ Len(code'[c]) = Len(code[c])
      /\ Len(code[c]) = 2 => code'[c][1] = code[c][1]
      /\ \A d \in Cpu : d # c => code'[d] = code[d] /\ Top(d)' = Top(d)
  BY <1>0, <1>1, SetTop, TopFacts
<1>4. TypeInv'
  <2>0. TypeInv
    BY DEF SpinInv
  <2>1. IF_' \in [Cpu -> BOOLEAN]
    BY <1>0, <2>0 DEF TypeInv
  <2>2. ncli' \in [Cpu -> Nat]
    BY <1>0, <1>a, <1>b, <2>0 DEF TypeInv
  <2> QED
    BY <1>0, <1>3, <2>0, <2>1, <2>2 DEF TypeInv
<1>5. LockInv'
  BY <1>0, <1>1, <1>2, SameLocks
<1>6. FlagOk(c)'
  <2>0. IF_ \in [Cpu -> BOOLEAN] /\ ncli \in [Cpu -> Nat]
    BY DEF SpinInv, TypeInv
  <2>1. ncli'[c] = Cardinality(Top(c).held) /\ ncli'[c] = ncli[c] - 1
    BY <1>0, <1>a, <2>0, TopFacts
  <2>2. Len(code[c]) = 2 => ~intena[c]
    BY <1>a, <1>b, TopFacts DEF FlagOk
  <2>3. IF_'[c] => Len(code'[c]) = 1 /\ ncli'[c] = 0
    <3>1. ncli[c] # 1 => ~IF_'[c]
      BY <1>0, <1>b, <2>0
    <3>2. ncli[c] = 1 => (IF_'[c] <=> intena[c])
      BY <1>0, <2>0
    <3>3. Len(code[c]) = 1 \/ Len(code[c]) = 2
      BY TopFacts
    <3>4. ncli[c] = 1 => ncli'[c] = 0
      BY <2>1
    <3> QED
      BY <1>3, <2>2, <3>1, <3>2, <3>3, <3>4
  <2> QED
    BY <1>0, <1>1, <1>2, <1>3, <2>1, <2>2, <2>3, TopFacts DEF FlagOk
<1>7. FlagInv'
  <2>1. \A d \in Cpu : d # c => code'[d] = code[d] /\ IF_'[d] = IF_[d] /\ ncli'[d] = ncli[d]
    BY <1>0, <1>3 DEF SpinInv, TypeInv
  <2> QED
    BY <1>0, <2>1, <1>6, OtherFlags DEF SpinInv
<1> QED
  BY <1>4, <1>5, <1>7 DEF SpinInv

\* What a handler interrupts holds no lock.
LEMMA InterruptStep ==
    ASSUME SpinlockAssumption, SpinInv, NEW c \in Cpu, NEW l \in Lock, interrupt(c, l)
    PROVE  SpinInv'
<1> DEFINE t == Handler(l)
<1>0. /\ IF_[c] /\ Len(code[c]) = 1 /\ IF_' = [IF_ EXCEPT ![c] = FALSE]
      /\ code' = [code EXCEPT ![c] = Append(code[c], t)]
      /\ UNCHANGED <<locked, owner, ncli, intena, found, panicked>>
  BY DEF interrupt
<1>a. ncli[c] = 0 /\ Pushed(Top(c)) = 0 /\ Top(c) = code[c][1]
  BY <1>0, TopFacts DEF FlagOk, Top
<1>b. Top(c).held = {} /\ Top(c).pc \in {"run", "acquire", "cli"}
  <2>1. Cardinality(Top(c).held) = 0 /\ Top(c).pc \notin {"xchg", "own", "popcli"}
    BY <1>a, TopFacts DEF Pushed
  <2>2. Top(c).held = {}
    BY <2>1, TopFacts
  <2>3. Top(c).pc # "unlock"
    BY <2>2, TopFacts DEF ThreadInv
  <2>4. Top(c).pc \in Calling \union {"run", "unlock", "popcli"}
    BY TopFacts DEF Thread
  <2> QED
    BY <2>1, <2>2, <2>3, <2>4 DEF Calling
<1>1. t \in Thread /\ t.pc = "acquire" /\ t.l = l /\ t.held = {}
  BY DEF Handler, Start, Thread, Calling
<1> HIDE DEF t
<1>2. /\ ThreadInv(t) /\ Taken(t) = {} /\ Owned(t) = {} /\ Pushed(t) = 0
      /\ Taken(Top(c)) = {} /\ Owned(Top(c)) = {}
  BY <1>b, <1>1, FS_EmptySet DEF ThreadInv, Taken, Owned, Pushed, Calling
<1>3. /\ code' \in [Cpu -> Stack] /\ Top(c)' = t /\ Len(code'[c]) = 2 /\ code'[c][1] = Top(c)
      /\ \A d \in Cpu : d # c => code'[d] = code[d] /\ Top(d)' = Top(d)
  <2> DEFINE q == Append(code[c], t)
  <2>1. code[c] \in Seq(Thread) /\ code \in [Cpu -> Stack]
    BY TopType, TopFacts
  <2>2. q \in Seq(Thread) /\ Len(q) = 2 /\ q[2] = t /\ q[1] = code[c][1]
    BY <1>0, <1>1, <2>1, AppendSecond
  <2>3. code' = [code EXCEPT ![c] = q]
    BY <1>0
  <2> HIDE DEF q
  <2>4. q \in Stack
    BY <2>2 DEF Stack
  <2> QED
    BY <1>a, <2>1, <2>2, <2>3, <2>4 DEF Top
<1>4. TypeInv'
  BY <1>0, <1>3 DEF SpinInv, TypeInv
<1>5. LockInv'
  <2>1. LockInv
    BY DEF SpinInv
  <2>2. \A d \in Cpu : /\ ThreadInv(Top(d)') /\ Taken(Top(d)') = Taken(Top(d))
                       /\ Owned(Top(d)') = Owned(Top(d))
    <3>1. ThreadInv(Top(c)') /\ Taken(Top(c)') = Taken(Top(c)) /\ Owned(Top(c)') = Owned(Top(c))
      BY <1>2, <1>3
    <3>2. \A d \in Cpu : d # c => ThreadInv(Top(d)') /\ Top(d)' = Top(d)
      BY <1>3, <2>1 DEF LockInv
    <3> QED
      BY <3>1, <3>2
  <2> QED
    BY <1>0, <2>1, <2>2 DEF LockInv
<1>6. FlagOk(c)'
  <2>1. IF_'[c] = FALSE
    BY <1>0 DEF SpinInv, TypeInv
  <2>2. Below(Top(c))
    BY <1>b, TopFacts DEF Below
  <2>3. ncli'[c] = 0 /\ intena'[c] = found'[c]
    BY <1>0, <1>a, TopFacts DEF FlagOk
  <2> QED
    BY <1>1, <1>2, <1>3, <2>1, <2>2, <2>3 DEF FlagOk
<1>7. FlagInv'
  <2>1. \A d \in Cpu : d # c => code'[d] = code[d] /\ IF_'[d] = IF_[d]
    BY <1>0, <1>3 DEF SpinInv, TypeInv
  <2> QED
    BY <1>0, <2>1, <1>6, OtherFlags DEF SpinInv
<1> QED
  BY <1>4, <1>5, <1>7 DEF SpinInv

\* The handler has given back what it took.
LEMMA IretStep ==
    ASSUME SpinlockAssumption, SpinInv, NEW c \in Cpu, iret(c)
    PROVE  SpinInv'
<1> DEFINE t == code[c][1]
<1>0. /\ Top(c).pc = "run" /\ Len(code[c]) = 2 /\ Top(c).held = {}
      /\ code' = [code EXCEPT ![c] = <<t>>] /\ IF_' = [IF_ EXCEPT ![c] = TRUE]
      /\ UNCHANGED <<locked, owner, ncli, intena, found, panicked>>
  BY DEF iret, At
<1>1. t \in Thread /\ t.held = {} /\ t.pc \in {"run", "acquire", "cli"} /\ ThreadInv(t)
  <2>1. Below(t)
    BY <1>0, TopFacts DEF FlagOk
  <2>2. code[c] \in Seq(Thread)
    BY TopFacts, TopType
  <2>3. t \in Thread
    BY <1>0, <2>2, ElementOfSeq
  <2> QED
    BY <2>1, <2>3 DEF Below
<1> HIDE DEF t
<1>2. /\ Taken(t) = {} /\ Owned(t) = {} /\ Pushed(t) = 0
      /\ Taken(Top(c)) = {} /\ Owned(Top(c)) = {} /\ Pushed(Top(c)) = 0
  BY <1>0, <1>1, FS_EmptySet DEF Taken, Owned, Pushed
<1>3. /\ code' \in [Cpu -> Stack] /\ Top(c)' = t /\ Len(code'[c]) = 1
      /\ \A d \in Cpu : d # c => code'[d] = code[d] /\ Top(d)' = Top(d)
  <2>1. <<t>> \in Stack /\ Len(<<t>>) = 1 /\ <<t>>[1] = t
    BY <1>1 DEF Stack
  <2>2. code \in [Cpu -> Stack]
    BY TopFacts
  <2> QED
    BY <1>0, <2>1, <2>2 DEF Top
<1>4. TypeInv'
  BY <1>0, <1>3 DEF SpinInv, TypeInv
<1>5. LockInv'
  <2>1. LockInv
    BY DEF SpinInv
  <2>2. \A d \in Cpu : /\ ThreadInv(Top(d)') /\ Taken(Top(d)') = Taken(Top(d))
                       /\ Owned(Top(d)') = Owned(Top(d))
    <3>1. ThreadInv(Top(c)') /\ Taken(Top(c)') = Taken(Top(c)) /\ Owned(Top(c)') = Owned(Top(c))
      BY <1>1, <1>2, <1>3
    <3>2. \A d \in Cpu : d # c => ThreadInv(Top(d)') /\ Top(d)' = Top(d)
      BY <1>3, <2>1 DEF LockInv
    <3> QED
      BY <3>1, <3>2
  <2> QED
    BY <1>0, <2>1, <2>2, SMTT(30) DEF LockInv
<1>6. FlagOk(c)'
  <2>1. ncli'[c] = 0 /\ intena'[c] = found'[c]
    BY <1>0, <1>2, TopFacts DEF FlagOk
  <2> QED
    BY <1>2, <1>3, <2>1 DEF FlagOk
<1>7. FlagInv'
  <2>1. \A d \in Cpu : d # c => code'[d] = code[d] /\ IF_'[d] = IF_[d]
    BY <1>0, <1>3 DEF SpinInv, TypeInv
  <2> QED
    BY <1>0, <2>1, <1>6, OtherFlags DEF SpinInv
<1> QED
  BY <1>4, <1>5, <1>7 DEF SpinInv

\* scheduler() turns interrupts on.
LEMMA StiStep ==
    ASSUME SpinlockAssumption, SpinInv, NEW c \in Cpu, sti(c)
    PROVE  SpinInv'
<1>0. /\ Top(c).pc = "run" /\ Len(code[c]) = 1 /\ Top(c).held = {}
      /\ IF_' = [IF_ EXCEPT ![c] = TRUE]
      /\ UNCHANGED <<locked, owner, ncli, intena, code, found, panicked>>
  BY DEF sti, At
<1>1. \A d \in Cpu : Top(d)' = Top(d)
  BY <1>0 DEF Top
<1>2. TypeInv'
  BY <1>0 DEF SpinInv, TypeInv
<1>3. LockInv'
  BY <1>0, <1>1 DEF SpinInv, LockInv
<1>4. FlagOk(c)'
  <2>1. Pushed(Top(c)) = 0
    BY <1>0, FS_EmptySet DEF Pushed
  <2>2. ncli[c] = 0 /\ intena[c] = found[c]
    BY <2>1, TopFacts DEF FlagOk
  <2> QED
    BY <1>0, <1>1, <2>1, <2>2 DEF FlagOk
<1>5. FlagInv'
  <2>1. \A d \in Cpu : d # c => IF_'[d] = IF_[d]
    BY <1>0 DEF SpinInv, TypeInv
  <2> QED
    BY <1>0, <1>4, <2>1, OtherFlags DEF SpinInv
<1> QED
  BY <1>2, <1>3, <1>5 DEF SpinInv

-----------------------------------------------------------------------------
\* SpinInv is inductive.
THEOREM SpinInvariant == ASSUME SpinlockAssumption PROVE Spec => []SpinInv
<1>1. Init => SpinInv
  BY SpinInit
<1>2. SpinInv /\ [Next]_vars => SpinInv'
  <2> SUFFICES ASSUME SpinInv, [Next]_vars PROVE SpinInv'
    OBVIOUS
  <2>1. CASE Next
    <3>1. PICK c \in Cpu :
             \/ \E l \in Lock : acquire(c, l) \/ release(c, l) \/ interrupt(c, l)
             \/ pushcli_read(c) \/ pushcli(c) \/ xchg(c) \/ own(c)
             \/ unlock(c) \/ popcli(c) \/ iret(c) \/ sti(c)
      BY <2>1 DEF Next
    <3> QED
      BY <3>1, AcquireStep, ReleaseStep, InterruptStep, PushcliReadStep, PushcliStep, XchgStep,
         OwnStep, UnlockStep, PopcliStep, IretStep, StiStep
  <2>2. CASE UNCHANGED vars
    BY <2>2 DEF vars, SpinInv, TypeInv, LockInv, FlagInv, FlagOk, Top
  <2> QED
    BY <2>1, <2>2
<1> QED
  BY <1>1, <1>2, PTL DEF Spec

\* The locks that a CPU holds are those of the code that runs on it.
LEMMA HeldByTop ==
    ASSUME SpinInv, NEW c \in Cpu
    PROVE  HeldBy(c) = Top(c).held
<1>1. /\ code[c] \in Seq(Thread) /\ Len(code[c]) \in {1, 2}
      /\ DOMAIN code[c] = 1 .. Len(code[c])
  BY TopType, TopFacts, LenProperties
<1>2. CASE Len(code[c]) = 1
  BY <1>1, <1>2 DEF HeldBy, Top
<1>3. CASE Len(code[c]) = 2
  <2>1. code[c][1].held = {}
    BY <1>3, TopFacts DEF FlagOk, Below
  <2>2. DOMAIN code[c] = {1, 2}
    BY <1>1, <1>3
  <2> QED
    BY <1>3, <2>1, <2>2 DEF HeldBy, Top
<1> QED
  BY <1>1, <1>2, <1>3

\* Two CPUs never hold the same lock, whatever the number of CPUs and locks.
THEOREM LocksExclude == ASSUME SpinlockAssumption PROVE Spec => []MutualExclusion
<1>1. SpinInv => MutualExclusion
  <2> SUFFICES ASSUME SpinInv, NEW c \in Cpu, NEW d \in Cpu, c # d
               PROVE  HeldBy(c) \cap HeldBy(d) = {}
    BY DEF MutualExclusion
  <2>1. Taken(Top(c)) \cap Taken(Top(d)) = {}
    BY DEF SpinInv, LockInv
  <2> QED
    BY <2>1, HeldByTop DEF Taken
<1> QED
  BY <1>1, SpinInvariant, PTL

\* A CPU that holds or waits for a lock is not interrupted.
THEOREM LockedUninterrupted == ASSUME SpinlockAssumption PROVE Spec => []NoInterruptWithLock
<1>1. SpinInv => NoInterruptWithLock
  <2> SUFFICES ASSUME SpinInv, NEW c \in Cpu, IF_[c]
               PROVE  HeldBy(c) = {} /\ Top(c).pc \notin {"xchg", "own"}
    BY DEF NoInterruptWithLock
  <2>1. Pushed(Top(c)) = 0
    BY TopFacts DEF FlagOk
  <2>2. Cardinality(Top(c).held) = 0 /\ Top(c).pc \notin {"xchg", "own"}
    BY <2>1, TopFacts DEF Pushed
  <2> QED
    BY <2>2, HeldByTop, TopFacts
<1> QED
  BY <1>1, SpinInvariant, PTL

\* The last popcli() restores the flag that the outermost acquire() found.
THEOREM FlagIsRestored == ASSUME SpinlockAssumption PROVE Spec => []FlagRestored
<1>1. SpinInv => FlagRestored
  <2> SUFFICES ASSUME SpinInv, NEW c \in Cpu, At(c, "popcli"), HeldBy(c) = {}
               PROVE  intena[c] = found[c] /\ ncli[c] = 1
    BY DEF FlagRestored
  <2>1. Top(c).pc = "popcli" /\ Top(c).held = {} /\ Cardinality(Top(c).held) = 0
    BY HeldByTop, FS_EmptySet DEF At
  <2>2. Pushed(Top(c)) = 1
    BY <2>1 DEF Pushed
  <2> QED
    BY <2>2, TopFacts DEF FlagOk
<1> QED
  BY <1>1, SpinInvariant, PTL

\* acquire(), release() and popcli() never panic.
THEOREM LocksNeverPanic == ASSUME SpinlockAssumption PROVE Spec => []NoLockPanic
<1>1. SpinInv => NoLockPanic
  BY DEF SpinInv, TypeInv, NoLockPanic
<1> QED
  BY <1>1, SpinInvariant, PTL
=============================================================================
