----------------------------- MODULE LogProofs -----------------------------
(***************************************************************************)
(* What is proved of Log, for any threads and any number of messages: that *)
(* the things made on first use are whole when they are used, as long as   *)
(* no two threads overlap in a first use, and that in the program's own    *)
(* order none do.                                                          *)
(***************************************************************************)
EXTENDS Log, SequenceTheorems, TLAPS

-----------------------------------------------------------------------------
(* The inductive invariant.                                                *)

Messages == [by : Loggers, nr : Nat, timed : BOOLEAN]

Points == (Once \cup {"idle", "push", "count"})
          \X {"test", "set", "make", "render", "return", "load", "store"}

Types ==
    /\ pc \in [Loggers -> Points]
    /\ done \in [Loggers -> Nat] /\ told \in [Loggers -> BOOLEAN]
    /\ flag \subseteq Once /\ made \subseteq Once
    /\ ret \in Loggers \cup {Nil} /\ got \in [Loggers -> Loggers \cup {Nil}]
    /\ lists \in [Loggers -> Seq(Messages)] /\ holds \in [Loggers -> Seq(Messages)]
    /\ file \in Seq(Messages)
    /\ serves \in [Loggers -> Loggers \cup {Nil}]
    /\ at \in [Loggers -> {"open", "wait", "unlink", "load", "store"}]
    /\ early \in BOOLEAN /\ overlapped \in BOOLEAN

\* what a thread that is past the making of something knows to be made
Past ==
    \A t \in Loggers :
        /\ pc[t][1] \in {"object", "queue", "log", "push", "count"} => "start" \in made
        /\ pc[t][1] \in {"queue", "log", "push", "count"} => "object" \in made
        /\ pc[t][1] \in {"log", "push", "count"} => "queue" \in made
        /\ pc[t][1] \in {"push", "count"} => "log" \in made /\ got[t] = ret
        /\ pc[t][2] \in {"render", "return"} => pc[t][1] = "log" /\ "log" \in made
        /\ pc[t][2] = "render" => ret = t

\* one thread makes a thing, after its flag was set and before it is used
Makers ==
    \A t \in Loggers, o \in Once : At(t, o, "make") =>
        /\ o \in flag \ made
        /\ \A u \in Loggers : At(u, o, "make") => u = t

\* there is one log queue
OneQueue ==
    /\ made \subseteq flag
    /\ "log" \in made <=> ret \in Loggers
    /\ "log" \in made => Tables \subseteq made
    /\ \A q \in Loggers : lists[q] # <<>> => q = ret

\* and one thread that renders it: it pops only what is there
OneRender ==
    /\ \A t \in Loggers :
           /\ serves[t] # Nil => t = ret /\ serves[t] = t
           /\ serves[t] = Nil => at[t] = "open"
           /\ at[t] \in {"open", "wait", "unlink"} => holds[t] = <<>>
           /\ at[t] = "unlink" => lists[t] # <<>>
           /\ t = ret /\ at[t] = "open" => file = <<>>
    /\ ret = Nil => file = <<>>

\* every time taken is since the start
AllTimed(s) == \A n \in DOMAIN s : s[n].timed

Timed ==
    /\ \A t \in Loggers : pc[t][1] \in {"object", "queue", "log", "push"} => told[t]
    /\ \A q \in Loggers : AllTimed(lists[q]) /\ AllTimed(holds[q])
    /\ AllTimed(file)

Safe == ~overlapped => Past /\ Makers /\ OneQueue /\ OneRender /\ Timed /\ ~fault

\* When one thread goes first it makes everything before another begins.
InTurn ==
    ~early =>
        /\ ~overlapped
        /\ done[First] = 0 => \A t \in Loggers \ {First} : pc[t] = <<"idle", "test">>
        /\ done[First] > 0 => Once \subseteq made
        /\ \A t \in Loggers :
               pc[t][2] \in {"set", "make", "render", "return"} => t = First /\ done[First] = 0
        /\ \A o \in flag \ made : At(First, o, "make")
        /\ \A o \in Once : At(First, o, "set") => o \notin flag

LogInv == Types /\ Safe /\ InTurn

-----------------------------------------------------------------------------
(* Sequences of messages whose times are since the start.                  *)

LEMMA AppendTimed ==
    ASSUME NEW s \in Seq(Messages), NEW m \in Messages, AllTimed(s), m.timed
    PROVE  AllTimed(Append(s, m))
  BY AppendProperties DEF AllTimed

LEMMA ConcatTimed ==
    ASSUME NEW r \in Seq(Messages), NEW s \in Seq(Messages), AllTimed(r), AllTimed(s)
    PROVE  AllTimed(r \o s)
<1>1. /\ r \o s \in Seq(Messages) /\ Len(r \o s) = Len(r) + Len(s)
      /\ \A i \in 1 .. Len(r) + Len(s) :
             (r \o s)[i] = IF i <= Len(r) THEN r[i] ELSE s[i - Len(r)]
      /\ Len(r) \in Nat /\ Len(s) \in Nat
  BY ConcatProperties, LenProperties
<1>2. /\ DOMAIN r = 1 .. Len(r) /\ DOMAIN s = 1 .. Len(s)
      /\ DOMAIN (r \o s) = 1 .. Len(r) + Len(s)
  BY <1>1, LenProperties
<1>3. ASSUME NEW n \in DOMAIN (r \o s) PROVE (r \o s)[n].timed
  <2>1. CASE n <= Len(r)
    BY <1>1, <1>2, <2>1 DEF AllTimed
  <2>2. CASE ~(n <= Len(r))
    <3>1. n - Len(r) \in DOMAIN s /\ (r \o s)[n] = s[n - Len(r)]
      BY <1>1, <1>2, <2>2
    <3> QED
      BY <3>1 DEF AllTimed
  <2> QED
    BY <2>1, <2>2
<1> QED
  BY <1>3 DEF AllTimed

LEMMA TailTimed ==
    ASSUME NEW s \in Seq(Messages), s # <<>>, AllTimed(s)
    PROVE  AllTimed(Tail(s)) /\ Head(s).timed /\ Head(s) \in Messages /\ Tail(s) \in Seq(Messages)
<1>1. /\ Tail(s) \in Seq(Messages) /\ Head(s) \in Messages /\ Head(s) = s[1]
      /\ Len(Tail(s)) = Len(s) - 1 /\ Len(s) \in Nat \ {0}
      /\ \A n \in 1 .. Len(Tail(s)) : Tail(s)[n] = s[n + 1]
  BY HeadTailProperties, LenProperties
<1>2. DOMAIN s = 1 .. Len(s) /\ DOMAIN Tail(s) = 1 .. Len(Tail(s))
  BY <1>1, LenProperties
<1>3. AllTimed(Tail(s))
  BY <1>1, <1>2 DEF AllTimed
<1>4. Head(s).timed
  BY <1>1, <1>2 DEF AllTimed
<1> QED
  BY <1>1, <1>3, <1>4

\* what comes after each thing that is made
LEMMA AfterThat ==
    /\ After["start"] = "object" /\ After["object"] = "queue"
    /\ After["queue"] = "log" /\ After["log"] = "push"
  BY DEF After

-----------------------------------------------------------------------------
LEMMA InitInv == Init => LogInv
<1> SUFFICES ASSUME Init PROVE LogInv
  OBVIOUS
<1> USE LogAssumption DEF Init
<1>1. Types
  <2>1. FALSE \in BOOLEAN
    OBVIOUS
  <2>2. told \in [Loggers -> BOOLEAN] /\ overlapped \in BOOLEAN /\ early \in BOOLEAN
    BY <2>1, Zenon
  <2>3. pc \in [Loggers -> Points]
    BY DEF Points
  <2>4. /\ lists \in [Loggers -> Seq(Messages)] /\ file \in Seq(Messages)
        /\ holds \in [Loggers -> Seq(Messages)]
        /\ done \in [Loggers -> Nat] /\ got \in [Loggers -> Loggers \cup {Nil}]
        /\ serves \in [Loggers -> Loggers \cup {Nil}]
    BY EmptySeq
  <2> QED
    BY <2>2, <2>3, <2>4 DEF Types
<1>2. Safe
  <2>1. Past /\ Makers /\ OneQueue /\ OneRender
    BY DEF Past, Makers, At, OneQueue, OneRender, Tables
  <2>2. Timed
    BY DEF Timed, AllTimed
  <2> QED
    BY <2>1, <2>2 DEF Safe
<1>3. InTurn
  BY DEF InTurn, At
<1> QED
  BY <1>1, <1>2, <1>3 DEF LogInv

-----------------------------------------------------------------------------
(* The types.                                                              *)

LEMMA TypesStep == Types /\ [Next]_logVars => Types'
<1> SUFFICES ASSUME Types, [Next]_logVars PROVE Types'
  OBVIOUS
<1> USE LogAssumption DEF Types, onceVars, queueVars, renderVars
<1>p. /\ <<"start", "test">> \in Points /\ <<"idle", "test">> \in Points
      /\ <<"push", "test">> \in Points
      /\ <<"count", "load">> \in Points /\ <<"count", "store">> \in Points
      /\ \A o \in Once : <<o, "make">> \in Points
      /\ <<"log", "render">> \in Points /\ <<"log", "return">> \in Points
  BY DEF Points, Once
<1>1. ASSUME NEW t \in Loggers, Begin(t) PROVE Types'
  BY <1>1, <1>p DEF Begin, Goto
<1>2. ASSUME NEW t \in Loggers, NEW o \in Once, TestFlag(t, o) PROVE Types'
  <2>1. told' \in [Loggers -> BOOLEAN]
    <3>1. (o \in made) \in BOOLEAN
      OBVIOUS
    <3>2. told' = [told EXCEPT ![t] = o \in made] \/ told' = told
      BY <1>2, Zenon DEF TestFlag
    <3> QED
      BY <3>1, <3>2, Zenon
  <2>5. overlapped' \in BOOLEAN
    BY <1>2, Zenon DEF TestFlag
  <2>2. After[o] \in Once \cup {"idle", "push"}
    BY AfterThat DEF Once
  <2>3. pc' \in [Loggers -> Points]
    <3>1. pc' = [pc EXCEPT ![t] = <<After[o], "test">>] \/ pc' = [pc EXCEPT ![t] = <<o, "set">>]
      BY <1>2 DEF TestFlag, Goto
    <3>2. <<After[o], "test">> \in Points /\ <<o, "set">> \in Points
      BY <2>2 DEF Points
    <3> QED
      BY <3>1, <3>2
  <2>4. got' \in [Loggers -> Loggers \cup {Nil}]
    BY <1>2 DEF TestFlag
  <2> QED
    BY <1>2, <2>1, <2>3, <2>4, <2>5 DEF TestFlag
<1>3. ASSUME NEW t \in Loggers, NEW o \in Once, SetFlag(t, o) PROVE Types'
  <2>1. overlapped' \in BOOLEAN
    BY <1>3, Zenon DEF SetFlag
  <2> QED
    BY <1>3, <2>1, <1>p DEF SetFlag, Goto
<1>4. ASSUME NEW t \in Loggers, NEW o \in Once, Make(t, o) PROVE Types'
  <2>1. told' \in [Loggers -> BOOLEAN]
    BY <1>4, Zenon DEF Make
  <2>2. After[o] \in Once \cup {"idle", "push"}
    BY AfterThat DEF Once
  <2>3. <<After[o], "test">> \in Points
    BY <2>2 DEF Points
  <2> QED
    BY <1>4, <2>1, <2>3 DEF Make, Goto
<1>5. ASSUME NEW t \in Loggers, MakeQueue(t) PROVE Types'
  BY <1>5, <1>p DEF MakeQueue, Goto, Once
<1>6. ASSUME NEW t \in Loggers, StartRender(t) PROVE Types'
  BY <1>6, <1>p DEF StartRender, Goto
<1>7. ASSUME NEW t \in Loggers, ReturnQueue(t) PROVE Types'
  BY <1>7, <1>p DEF ReturnQueue, Goto
<1>8. ASSUME NEW t \in Loggers, Push(t) PROVE Types'
  <2>1. CASE got[t] = Nil
    BY <1>8, <2>1 DEF Push
  <2>2. CASE got[t] # Nil
    <3>1. Message(t, done[t] + 1) \in Messages
      <4>1. told[t] \in BOOLEAN /\ done[t] + 1 \in Nat
        OBVIOUS
      <4>2. \A b \in BOOLEAN, n \in Nat : [by |-> t, nr |-> n, timed |-> b] \in Messages
        BY DEF Messages
      <4> QED
        BY <4>1, <4>2 DEF Message
    <3>2. lists[got[t]] \in Seq(Messages) /\ got[t] \in Loggers
      BY <2>2
    <3>3. Append(lists[got[t]], Message(t, done[t] + 1)) \in Seq(Messages)
      BY <3>1, <3>2, AppendProperties
    <3>4. lists' \in [Loggers -> Seq(Messages)]
      BY <1>8, <2>2, <3>2, <3>3 DEF Push
    <3>5. pc' = [pc EXCEPT ![t] = <<"count", "load">>]
      BY <1>8, <2>2 DEF Push, Goto
    <3> QED
      BY <1>8, <3>4, <3>5, <1>p DEF Push
  <2> QED
    BY <2>1, <2>2
<1>9. ASSUME NEW t \in Loggers, CountLoad(t) \/ CountStore(t) PROVE Types'
  <2>1. pc' = [pc EXCEPT ![t] = <<"count", "store">>] \/ pc' = [pc EXCEPT ![t] = <<"idle", "test">>]
    BY <1>9 DEF CountLoad, CountStore, Goto
  <2>2. done' = done \/ done' = [done EXCEPT ![t] = @ + 1]
    BY <1>9 DEF CountLoad, CountStore
  <2>3. done[t] + 1 \in Nat
    OBVIOUS
  <2>4. done' \in [Loggers -> Nat]
    BY <2>2, <2>3
  <2>6. pc' \in [Loggers -> Points]
    <3>1. pc \in [Loggers -> Points]
      OBVIOUS
    <3> QED
      BY <2>1, <3>1, <1>p, Zenon
  <2>5. UNCHANGED <<early, onceVars, lists, renderVars>>
    BY <1>9 DEF CountLoad, CountStore
  <2> QED
    BY <2>4, <2>5, <2>6
<1>10. ASSUME NEW r \in Loggers, OpenFile(r) \/ AwaitMessage(r) \/ TakenLoad(r) PROVE Types'
  <2>1. /\ at' = [at EXCEPT ![r] = "wait"] \/ at' = [at EXCEPT ![r] = "unlink"]
                                          \/ at' = [at EXCEPT ![r] = "store"]
        /\ file' = file \/ file' = <<>>
        /\ UNCHANGED <<early, pc, done, onceVars, lists, serves, holds>>
    BY <1>10 DEF OpenFile, AwaitMessage, TakenLoad, RGoto
  <2>2. at' \in [Loggers -> {"open", "wait", "unlink", "load", "store"}]
    BY <2>1
  <2>3. file' \in Seq(Messages)
    <3>1. file \in Seq(Messages) /\ <<>> \in Seq(Messages) /\ (file' = file \/ file' = <<>>)
      BY <2>1, EmptySeq
    <3> QED
      BY <3>1, Zenon
  <2>4. UNCHANGED <<early, pc, done, onceVars, lists, serves, holds>>
    BY <2>1
  <2> QED
    BY <2>2, <2>3, <2>4
<1>11. ASSUME NEW r \in Loggers, Unlink(r) PROVE Types'
  <2>1. serves[r] \in Loggers /\ lists[serves[r]] \in Seq(Messages)
    BY <1>11 DEF Unlink, RGoto
  <2>2. /\ at' = [at EXCEPT ![r] = "load"]
        /\ UNCHANGED <<early, pc, done, onceVars, serves, file>>
    BY <1>11 DEF Unlink, RGoto
  <2>5. at' \in [Loggers -> {"open", "wait", "unlink", "load", "store"}]
    BY <2>2
  <2>3. CASE lists[serves[r]] = <<>>
    BY <1>11, <2>2, <2>3, <2>5 DEF Unlink
  <2>4. CASE lists[serves[r]] # <<>>
    <3>1. /\ Tail(lists[serves[r]]) \in Seq(Messages) /\ Head(lists[serves[r]]) \in Messages
          /\ <<Head(lists[serves[r]])>> \in Seq(Messages)
      BY <2>1, <2>4, HeadTailProperties
    <3>4. /\ lists' = [lists EXCEPT ![serves[r]] = Tail(@)]
          /\ holds' = [holds EXCEPT ![r] = <<Head(lists[serves[r]])>>]
      BY <1>11, <2>4 DEF Unlink
    <3>5. lists' \in [Loggers -> Seq(Messages)]
      BY <2>1, <3>1, <3>4
    <3>6. holds' \in [Loggers -> Seq(Messages)]
      BY <3>1, <3>4
    <3>2. lists' \in [Loggers -> Seq(Messages)] /\ holds' \in [Loggers -> Seq(Messages)]
      BY <3>5, <3>6
    <3>3. UNCHANGED <<early, pc, done, onceVars, serves, file>>
      BY <2>2
    <3> QED
      BY <2>5, <3>2, <3>3
  <2> QED
    BY <2>3, <2>4
<1>12. ASSUME NEW r \in Loggers, TakenStore(r) PROVE Types'
  <2>1. file \o holds[r] \in Seq(Messages)
    BY ConcatProperties
  <2>2. file' \in Seq(Messages) /\ holds' \in [Loggers -> Seq(Messages)]
    BY <1>12, <2>1, EmptySeq DEF TakenStore
  <2> QED
    BY <1>12, <2>2 DEF TakenStore, RGoto
<1>13. CASE UNCHANGED logVars
  BY <1>13 DEF logVars
<1> QED
  BY <1>1, <1>2, <1>3, <1>4, <1>5, <1>6, <1>7, <1>8, <1>9, <1>10, <1>11, <1>12, <1>13
     DEF Next, Logger, Render

-----------------------------------------------------------------------------
(* Without an overlap everything is whole when it is used.                 *)

Whole == Past /\ Makers /\ OneQueue /\ OneRender /\ Timed /\ ~fault

\* how a step moves the thread that takes it
LEMMA Moves ==
    ASSUME Types, NEW t \in Loggers, NEW w, NEW step, Goto(t, w, step)
    PROVE  /\ pc'[t][1] = w /\ pc'[t][2] = step /\ pc'[t] = <<w, step>>
           /\ \A u \in Loggers \ {t} : pc'[u] = pc[u]
  BY DEF Types, Goto

\* Everything but the places of the threads stays: what they know may stay too.
LEMMA BeginWhole ==
    ASSUME Types, Whole, NEW t \in Loggers, Begin(t)
    PROVE  Whole'
<1>1. Goto(t, "start", "test")
  BY DEF Begin
<1>2. /\ pc'[t][1] = "start" /\ pc'[t][2] = "test" /\ pc'[t] = <<"start", "test">>
      /\ \A u \in Loggers \ {t} : pc'[u] = pc[u]
  BY <1>1, Moves
<1>3. UNCHANGED <<told, got, flag, made, ret, lists, serves, at, holds, file, fault>>
  BY DEF Begin, onceVars, queueVars, renderVars
<1>4. Past'
  BY <1>2, <1>3 DEF Whole, Past
<1>5. Makers'
  BY <1>2, <1>3 DEF Whole, Makers, At
<1>6. OneQueue' /\ OneRender'
  BY <1>3 DEF Whole, OneQueue, OneRender
<1>7. Timed'
  BY <1>2, <1>3 DEF Whole, Timed, AllTimed
<1> QED
  BY <1>3, <1>4, <1>5, <1>6, <1>7 DEF Whole

LEMMA TestFlagWhole ==
    ASSUME Types, Whole, NEW t \in Loggers, NEW o \in Once, TestFlag(t, o), ~overlapped'
    PROVE  Whole'
<1>1. /\ UNCHANGED <<flag, made, ret, lists, serves, at, holds, file>>
      /\ At(t, o, "test")
  BY DEF TestFlag, queueVars, renderVars
<1>2. OneQueue' /\ OneRender'
  BY <1>1 DEF Whole, OneQueue, OneRender
<1>3. CASE o \in flag
  <2>1. o \in made
    BY <1>3, Zenon DEF TestFlag
  <2>2. ~fault'
    BY <1>3, <2>1 DEF TestFlag, Outcomes
  <2>3. Goto(t, After[o], "test")
    BY <1>3 DEF TestFlag
  <2>4. /\ pc'[t][1] = After[o] /\ pc'[t][2] = "test" /\ pc'[t] = <<After[o], "test">>
        /\ \A u \in Loggers \ {t} : pc'[u] = pc[u]
    BY <2>3, Moves
  <2>5. pc[t][1] = o /\ pc[t][2] = "test"
    BY <1>1 DEF At
  <2>6. got' = IF o = "log" THEN [got EXCEPT ![t] = ret] ELSE got
    BY <1>3 DEF TestFlag
  <2>7. Past'
    <3>1. ASSUME NEW u \in Loggers
          PROVE  /\ pc'[u][1] \in {"object", "queue", "log", "push", "count"} => "start" \in made
                 /\ pc'[u][1] \in {"queue", "log", "push", "count"} => "object" \in made
                 /\ pc'[u][1] \in {"log", "push", "count"} => "queue" \in made
                 /\ pc'[u][1] \in {"push", "count"} => "log" \in made /\ got'[u] = ret
                 /\ pc'[u][2] \in {"render", "return"} => pc'[u][1] = "log" /\ "log" \in made
                 /\ pc'[u][2] = "render" => ret = u
      <4>1. CASE u = t
        BY <1>1, <2>1, <2>4, <2>5, <2>6, <4>1, AfterThat DEF Whole, Past, Once, Types
      <4>2. CASE u # t
        BY <1>1, <2>4, <2>6, <4>2 DEF Whole, Past, Types
      <4> QED
        BY <4>1, <4>2
    <3> QED
      BY <1>1, <3>1 DEF Past
  <2>8. Makers'
    BY <1>1, <2>4 DEF Whole, Makers, At
  <2>9. Timed'
    <3>1. ASSUME NEW u \in Loggers, pc'[u][1] \in {"object", "queue", "log", "push"}
          PROVE  told'[u]
      <4>1. CASE u = t /\ o = "start"
        <5>1. told' = [told EXCEPT ![t] = o \in made]
          BY <1>3, <4>1 DEF TestFlag
        <5>2. told'[t] = (o \in made)
          BY <5>1 DEF Types
        <5> QED
          BY <2>1, <4>1, <5>2, Zenon
      <4>2. CASE u = t /\ o # "start"
        <5>1. told[t]
          BY <2>5, <4>2 DEF Whole, Timed, Once
        <5>2. told' = told
          BY <1>3, <4>2 DEF TestFlag
        <5> QED
          BY <4>2, <5>1, <5>2
      <4>3. CASE u # t
        <5>1. told[u]
          BY <2>4, <3>1, <4>3 DEF Whole, Timed
        <5>2. told' = told \/ told' = [told EXCEPT ![t] = o \in made]
          BY <1>3, Zenon DEF TestFlag
        <5>3. told'[u] = told[u]
          BY <4>3, <5>2 DEF Types
        <5> QED
          BY <5>1, <5>3
      <4> QED
        BY <4>1, <4>2, <4>3
    <3> QED
      BY <1>1, <3>1 DEF Whole, Timed, AllTimed
  <2> QED
    BY <1>2, <2>2, <2>7, <2>8, <2>9 DEF Whole
<1>4. CASE o \notin flag
  <2>1. Goto(t, o, "set") /\ UNCHANGED <<told, got, overlapped, fault>>
    BY <1>4 DEF TestFlag
  <2>2. /\ pc'[t][1] = o /\ pc'[t][2] = "set" /\ pc'[t] = <<o, "set">>
        /\ \A u \in Loggers \ {t} : pc'[u] = pc[u]
    BY <2>1, Moves
  <2>3. pc[t][1] = o /\ pc[t][2] = "test"
    BY <1>1 DEF At
  <2>4. Past'
    BY <1>1, <2>1, <2>2, <2>3 DEF Whole, Past, Once
  <2>5. Makers'
    BY <1>1, <2>2 DEF Whole, Makers, At
  <2>6. Timed'
    BY <1>1, <2>1, <2>2, <2>3 DEF Whole, Timed, AllTimed
  <2> QED
    BY <1>2, <2>1, <2>4, <2>5, <2>6 DEF Whole
<1> QED
  BY <1>3, <1>4

LEMMA SetFlagWhole ==
    ASSUME Types, Whole, NEW t \in Loggers, NEW o \in Once, SetFlag(t, o), ~overlapped'
    PROVE  Whole'
<1>1. /\ UNCHANGED <<told, got, made, ret, lists, serves, at, holds, file, fault>>
      /\ flag' = flag \cup {o} /\ At(t, o, "set") /\ Goto(t, o, "make")
  BY DEF SetFlag, queueVars, renderVars
<1>2. o \notin flag
  BY Zenon DEF SetFlag
<1>3. /\ pc'[t][1] = o /\ pc'[t][2] = "make" /\ pc'[t] = <<o, "make">>
      /\ \A u \in Loggers \ {t} : pc'[u] = pc[u]
  BY <1>1, Moves
<1>4. pc[t][1] = o /\ pc[t][2] = "set"
  BY <1>1 DEF At
<1>5. Past'
  BY <1>1, <1>3, <1>4 DEF Whole, Past, Once
<1>6. Makers'
  BY <1>1, <1>2, <1>3 DEF Whole, Makers, OneQueue, At
<1>7. OneQueue' /\ OneRender'
  BY <1>1 DEF Whole, OneQueue, OneRender
<1>8. Timed'
  BY <1>1, <1>3, <1>4 DEF Whole, Timed, AllTimed
<1> QED
  BY <1>1, <1>5, <1>6, <1>7, <1>8 DEF Whole

LEMMA MakeWhole ==
    ASSUME Types, Whole, NEW t \in Loggers, NEW o \in Once, Make(t, o)
    PROVE  Whole'
<1>1. /\ UNCHANGED <<got, flag, ret, lists, serves, at, holds, file, fault>>
      /\ made' = made \cup {o} /\ At(t, o, "make") /\ Goto(t, After[o], "test") /\ o # "log"
  BY DEF Make, queueVars, renderVars
<1>2. /\ pc'[t][1] = After[o] /\ pc'[t][2] = "test" /\ pc'[t] = <<After[o], "test">>
      /\ \A u \in Loggers \ {t} : pc'[u] = pc[u]
  BY <1>1, Moves
<1>3. pc[t][1] = o /\ pc[t][2] = "make"
  BY <1>1 DEF At
<1>4. Past'
  BY <1>1, <1>2, <1>3, AfterThat DEF Whole, Past, Once
<1>5. Makers'
  BY <1>1, <1>2 DEF Whole, Makers, At
<1>6. OneQueue' /\ OneRender'
  <2>1. o \in flag
    BY <1>1 DEF Whole, Makers
  <2>2. OneRender'
    BY <1>1 DEF Whole, OneRender
  <2> QED
    BY <1>1, <2>1, <2>2 DEF Whole, OneQueue
<1>7. Timed'
  <2>1. ASSUME NEW u \in Loggers, pc'[u][1] \in {"object", "queue", "log", "push"}
        PROVE  told'[u]
    <3>1. CASE o = "start"
      <4>1. told' = [told EXCEPT ![t] = TRUE]
        BY <3>1 DEF Make
      <4>2. u # t => told[u]
        BY <1>2, <2>1 DEF Whole, Timed
      <4> QED
        BY <4>1, <4>2 DEF Types
    <3>2. CASE o # "start"
      <4>1. told' = told
        BY <3>2 DEF Make
      <4>2. told[u]
        BY <1>2, <1>3, <2>1, <3>2 DEF Whole, Timed, Once
      <4> QED
        BY <4>1, <4>2
    <3> QED
      BY <3>1, <3>2
  <2> QED
    BY <1>1, <2>1 DEF Whole, Timed, AllTimed
<1> QED
  BY <1>1, <1>4, <1>5, <1>6, <1>7 DEF Whole

LEMMA MakeQueueWhole ==
    ASSUME Types, Whole, NEW t \in Loggers, MakeQueue(t)
    PROVE  Whole'
<1> USE LogAssumption
<1>1. /\ UNCHANGED <<told, got, flag, lists, serves, at, holds, file>>
      /\ made' = made \cup {"log"} /\ ret' = t
      /\ At(t, "log", "make") /\ Goto(t, "log", "render")
  BY DEF MakeQueue, queueVars, renderVars
<1>2. /\ pc'[t][1] = "log" /\ pc'[t][2] = "render" /\ pc'[t] = <<"log", "render">>
      /\ \A u \in Loggers \ {t} : pc'[u] = pc[u]
  BY <1>1, Moves
<1>3. pc[t][1] = "log" /\ pc[t][2] = "make"
  BY <1>1 DEF At
<1>4. "log" \in flag /\ "log" \notin made
  BY <1>1 DEF Whole, Makers, Once
<1>5. "object" \in made /\ "queue" \in made
  BY <1>3 DEF Whole, Past
<1>6. /\ ret = Nil /\ file = <<>>
      /\ \A q \in Loggers : lists[q] = <<>> /\ serves[q] = Nil
  <2>1. ret = Nil
    BY <1>4 DEF Whole, OneQueue, Types
  <2> QED
    BY <1>4, <2>1 DEF Whole, OneQueue, OneRender
<1>7. Past'
  <2>1. \A u \in Loggers : pc[u][1] \notin {"push", "count"} /\ pc[u][2] # "render"
    BY <1>4 DEF Whole, Past
  <2> QED
    BY <1>1, <1>2, <1>3, <2>1 DEF Whole, Past
<1>8. Makers'
  <2>1. \A u \in Loggers \ {t} : ~At(u, "log", "make")
    BY <1>1 DEF Whole, Makers, Once
  <2> QED
    BY <1>1, <1>2, <2>1 DEF Whole, Makers, At
<1>9. OneQueue'
  BY <1>1, <1>4, <1>5, <1>6 DEF Whole, OneQueue, Tables
<1>10. OneRender'
  BY <1>1, <1>6 DEF Whole, OneRender
<1>11. Timed'
  BY <1>1, <1>2, <1>3 DEF Whole, Timed, AllTimed
<1>12. ~fault'
  BY <1>5 DEF MakeQueue, Outcomes
<1> QED
  BY <1>7, <1>8, <1>9, <1>10, <1>11, <1>12 DEF Whole

LEMMA StartRenderWhole ==
    ASSUME Types, Whole, NEW t \in Loggers, StartRender(t)
    PROVE  Whole'
<1>1. /\ UNCHANGED <<told, got, flag, made, ret, lists, at, holds, file, fault>>
      /\ serves' = [serves EXCEPT ![t] = ret]
      /\ At(t, "log", "render") /\ Goto(t, "log", "return")
  BY DEF StartRender, queueVars
<1>2. /\ pc'[t][1] = "log" /\ pc'[t][2] = "return" /\ pc'[t] = <<"log", "return">>
      /\ \A u \in Loggers \ {t} : pc'[u] = pc[u]
  BY <1>1, Moves
<1>3. pc[t][1] = "log" /\ pc[t][2] = "render"
  BY <1>1 DEF At
<1>4. Past'
  BY <1>1, <1>2, <1>3 DEF Whole, Past
<1>5. Makers'
  BY <1>1, <1>2 DEF Whole, Makers, At
<1>6. OneQueue' /\ OneRender'
  <2>1. ret = t
    BY <1>3 DEF Whole, Past
  <2>2. \A u \in Loggers : serves'[u] = IF u = t THEN t ELSE serves[u]
    BY <1>1, <2>1 DEF Types
  <2>3. OneRender'
    BY <1>1, <2>1, <2>2, LogAssumption DEF Whole, OneRender
  <2> QED
    BY <1>1, <2>3 DEF Whole, OneQueue
<1>7. Timed'
  BY <1>1, <1>2, <1>3 DEF Whole, Timed, AllTimed
<1> QED
  BY <1>1, <1>4, <1>5, <1>6, <1>7 DEF Whole

LEMMA ReturnQueueWhole ==
    ASSUME Types, Whole, NEW t \in Loggers, ReturnQueue(t)
    PROVE  Whole'
<1>1. /\ UNCHANGED <<told, flag, made, ret, lists, serves, at, holds, file, fault>>
      /\ At(t, "log", "return") /\ Goto(t, "push", "test")
      /\ got' = [got EXCEPT ![t] = ret]
  BY DEF ReturnQueue, queueVars, renderVars
<1>2. /\ pc'[t][1] = "push" /\ pc'[t][2] = "test" /\ pc'[t] = <<"push", "test">>
      /\ \A u \in Loggers \ {t} : pc'[u] = pc[u]
  BY <1>1, Moves
<1>3. pc[t][1] = "log" /\ pc[t][2] = "return"
  BY <1>1 DEF At
<1>4. Past'
  BY <1>1, <1>2, <1>3 DEF Whole, Past, Types
<1>5. Makers'
  BY <1>1, <1>2 DEF Whole, Makers, At
<1>6. OneQueue' /\ OneRender'
  BY <1>1 DEF Whole, OneQueue, OneRender
<1>7. Timed'
  BY <1>1, <1>2, <1>3 DEF Whole, Timed, AllTimed
<1> QED
  BY <1>1, <1>4, <1>5, <1>6, <1>7 DEF Whole

LEMMA PushWhole ==
    ASSUME Types, Whole, NEW t \in Loggers, Push(t)
    PROVE  Whole'
<1> USE LogAssumption
<1>1. At(t, "push", "test") /\ UNCHANGED <<told, got, flag, made, ret, serves, at, holds, file>>
  BY DEF Push, onceVars, renderVars
<1>2. pc[t][1] = "push" /\ pc[t][2] = "test"
  BY <1>1 DEF At
<1>3. got[t] = ret /\ "log" \in made /\ ret \in Loggers /\ ret # Nil
  BY <1>2 DEF Whole, Past, OneQueue
<1>4. /\ Goto(t, "count", "load") /\ fault' = fault
      /\ lists' = [lists EXCEPT ![ret] = Append(@, Message(t, done[t] + 1))]
  BY <1>3 DEF Push
<1>5. /\ pc'[t][1] = "count" /\ pc'[t][2] = "load" /\ pc'[t] = <<"count", "load">>
      /\ \A u \in Loggers \ {t} : pc'[u] = pc[u]
  BY <1>4, Moves
<1>6. Past'
  BY <1>1, <1>2, <1>5 DEF Whole, Past
<1>7. Makers'
  BY <1>1, <1>5 DEF Whole, Makers, At
<1>8. OneQueue'
  BY <1>1, <1>3, <1>4 DEF Whole, OneQueue, Types
<1>10. OneRender'
  <2>1. \A q \in Loggers : lists[q] # <<>> => lists'[q] # <<>>
    <3> SUFFICES ASSUME NEW q \in Loggers, lists[q] # <<>> PROVE lists'[q] # <<>>
      OBVIOUS
    <3>1. lists[ret] \in Seq(Messages)
      BY <1>3 DEF Types
    <3>2. Append(lists[ret], Message(t, done[t] + 1)) # <<>>
      BY <3>1
    <3> QED
      BY <1>3, <1>4, <3>2 DEF Types
  <2> QED
    BY <1>1, <2>1 DEF Whole, OneRender
<1>9. Timed'
  <2>1. told[t] /\ told[t] \in BOOLEAN /\ done[t] + 1 \in Nat
    BY <1>2 DEF Whole, Timed, Types
  <2>2. Message(t, done[t] + 1).timed
    BY <2>1 DEF Message
  <2>3. Message(t, done[t] + 1) \in Messages
    <3>1. \A b \in BOOLEAN, n \in Nat : [by |-> t, nr |-> n, timed |-> b] \in Messages
      BY DEF Messages
    <3> QED
      BY <2>1, <3>1 DEF Message
  <2>4. AllTimed(Append(lists[ret], Message(t, done[t] + 1)))
    <3>1. lists[ret] \in Seq(Messages) /\ AllTimed(lists[ret])
      BY <1>3 DEF Whole, Timed, Types
    <3> QED
      BY <2>2, <2>3, <3>1, AppendTimed
  <2>5. \A q \in Loggers : AllTimed(lists'[q])
    BY <1>3, <1>4, <2>4 DEF Whole, Timed, Types
  <2> QED
    BY <1>1, <1>5, <2>5 DEF Whole, Timed, AllTimed
<1> QED
  BY <1>4, <1>6, <1>7, <1>8, <1>9, <1>10 DEF Whole

LEMMA CountWhole ==
    ASSUME Types, Whole, NEW t \in Loggers, CountLoad(t) \/ CountStore(t)
    PROVE  Whole'
<1>1. /\ UNCHANGED <<told, got, flag, made, ret, lists, serves, at, holds, file, fault>>
      /\ pc[t][1] = "count"
      /\ Goto(t, "count", "store") \/ Goto(t, "idle", "test")
  BY DEF CountLoad, CountStore, At, onceVars, renderVars
<1>2. /\ pc'[t] = <<"count", "store">> \/ pc'[t] = <<"idle", "test">>
      /\ \A u \in Loggers \ {t} : pc'[u] = pc[u]
  BY <1>1, Moves
<1>3. Past'
  BY <1>1, <1>2 DEF Whole, Past
<1>4. Makers'
  BY <1>1, <1>2 DEF Whole, Makers, At
<1>5. OneQueue' /\ OneRender'
  BY <1>1 DEF Whole, OneQueue, OneRender
<1>6. Timed'
  BY <1>1, <1>2 DEF Whole, Timed, AllTimed
<1> QED
  BY <1>1, <1>3, <1>4, <1>5, <1>6 DEF Whole

\* A step of a rendering thread leaves what the loggers look at.
LEMMA RenderKeeps ==
    ASSUME Types, Whole, NEW r \in Loggers, Render(r)
    PROVE  /\ UNCHANGED <<pc, done, early, told, got, flag, made, ret, overlapped, serves>>
           /\ r = ret /\ serves[r] = r /\ ret # Nil
           /\ Past' /\ Makers'
<1>1. /\ UNCHANGED <<pc, done, early, told, got, flag, made, ret, overlapped, serves>>
      /\ serves[r] # Nil
  BY DEF Render, OpenFile, AwaitMessage, Unlink, TakenLoad, TakenStore, RGoto, onceVars
<1>2. r = ret /\ serves[r] = r /\ ret # Nil
  BY <1>1, LogAssumption DEF Whole, OneRender
<1>3. Past' /\ Makers'
  BY <1>1 DEF Whole, Past, Makers, At
<1> QED
  BY <1>1, <1>2, <1>3

LEMMA RenderWhole ==
    ASSUME Types, Whole, NEW r \in Loggers, Render(r)
    PROVE  Whole'
<1>1. /\ UNCHANGED <<pc, told, got, flag, made, ret, serves>>
      /\ r = ret /\ serves[r] = r /\ ret # Nil
      /\ Past' /\ Makers'
  BY RenderKeeps
<1>2. Tables \subseteq made
  BY <1>1 DEF Whole, OneQueue
<1>3. CASE OpenFile(r)
  <2>1. /\ file' = <<>> /\ UNCHANGED <<lists, holds, fault>>
        /\ at[r] = "open" /\ at' = [at EXCEPT ![r] = "wait"]
    BY <1>3 DEF OpenFile, RGoto, queueVars
  <2>2. OneQueue' /\ Timed'
    BY <1>1, <2>1 DEF Whole, OneQueue, Timed, AllTimed
  <2>3. OneRender'
    BY <1>1, <2>1 DEF Whole, OneRender, Types
  <2> QED
    BY <1>1, <2>1, <2>2, <2>3 DEF Whole
<1>4. CASE AwaitMessage(r)
  <2>1. /\ UNCHANGED <<lists, holds, file>> /\ lists[r] # <<>>
        /\ at[r] = "wait" /\ at' = [at EXCEPT ![r] = "unlink"]
        /\ ~fault'
    BY <1>1, <1>2, <1>4 DEF AwaitMessage, RGoto, queueVars, Outcomes
  <2>2. OneQueue' /\ Timed'
    BY <1>1, <2>1 DEF Whole, OneQueue, Timed, AllTimed
  <2>3. OneRender'
    BY <1>1, <2>1 DEF Whole, OneRender, Types
  <2> QED
    BY <1>1, <2>1, <2>2, <2>3 DEF Whole
<1>5. CASE Unlink(r)
  <2>1. at[r] = "unlink" /\ lists[r] # <<>> /\ lists[r] \in Seq(Messages)
    BY <1>5 DEF Unlink, RGoto, Whole, OneRender, Types
  <2>2. /\ at' = [at EXCEPT ![r] = "load"] /\ UNCHANGED <<file, fault>>
        /\ holds' = [holds EXCEPT ![r] = <<Head(lists[r])>>]
        /\ lists' = [lists EXCEPT ![r] = Tail(@)]
    BY <1>1, <1>5, <2>1 DEF Unlink, RGoto
  <2>3. OneQueue'
    BY <1>1, <2>2 DEF Whole, OneQueue, Types
  <2>4. OneRender'
    BY <1>1, <2>1, <2>2 DEF Whole, OneRender, Types
  <2>5. Timed'
    <3>1. AllTimed(Tail(lists[r])) /\ Head(lists[r]).timed
      BY <2>1, TailTimed DEF Whole, Timed
    <3>2. AllTimed(<<Head(lists[r])>>)
      BY <3>1 DEF AllTimed
    <3>3. \A u \in Loggers : AllTimed(lists'[u]) /\ AllTimed(holds'[u])
      BY <2>2, <3>1, <3>2 DEF Whole, Timed, Types
    <3>4. AllTimed(file)' /\ \A u \in Loggers : AllTimed(lists[u])' /\ AllTimed(holds[u])'
      BY <2>2, <3>3 DEF Whole, Timed, AllTimed
    <3> QED
      BY <1>1, <3>4 DEF Whole, Timed
  <2> QED
    BY <1>1, <2>2, <2>3, <2>4, <2>5 DEF Whole
<1>6. CASE TakenLoad(r)
  <2>1. /\ UNCHANGED <<lists, holds, file, fault>>
        /\ at[r] = "load" /\ at' = [at EXCEPT ![r] = "store"]
    BY <1>6 DEF TakenLoad, RGoto, queueVars
  <2>2. OneQueue' /\ Timed'
    BY <1>1, <2>1 DEF Whole, OneQueue, Timed, AllTimed
  <2>3. OneRender'
    BY <1>1, <2>1 DEF Whole, OneRender, Types
  <2> QED
    BY <1>1, <2>1, <2>2, <2>3 DEF Whole
<1>7. CASE TakenStore(r)
  <2>1. /\ UNCHANGED <<lists, fault>> /\ file' = file \o holds[r]
        /\ holds' = [holds EXCEPT ![r] = <<>>]
        /\ at[r] = "store" /\ at' = [at EXCEPT ![r] = "wait"]
    BY <1>7 DEF TakenStore, RGoto
  <2>2. OneQueue'
    BY <1>1, <2>1 DEF Whole, OneQueue
  <2>3. OneRender'
    BY <1>1, <2>1 DEF Whole, OneRender, Types
  <2>4. Timed'
    <3>1. file \in Seq(Messages) /\ holds[r] \in Seq(Messages) /\ AllTimed(file) /\ AllTimed(holds[r])
      BY DEF Whole, Timed, Types
    <3>2. AllTimed(file \o holds[r])
      BY <3>1, ConcatTimed
    <3>3. \A u \in Loggers : AllTimed(holds'[u])
      BY <2>1 DEF Whole, Timed, Types, AllTimed
    <3>4. AllTimed(file)' /\ \A u \in Loggers : AllTimed(lists[u])' /\ AllTimed(holds[u])'
      BY <2>1, <3>2, <3>3 DEF Whole, Timed, AllTimed
    <3> QED
      BY <1>1, <3>4 DEF Whole, Timed
  <2> QED
    BY <1>1, <2>1, <2>2, <2>3, <2>4 DEF Whole
<1> QED
  BY <1>3, <1>4, <1>5, <1>6, <1>7 DEF Render

LEMMA SafeStep == Types /\ Safe /\ [Next]_logVars => Safe'
<1> SUFFICES ASSUME Types, Safe, [Next]_logVars, ~overlapped' PROVE Whole'
  BY DEF Safe, Whole
<1>1. ~overlapped
  <2>1. ASSUME NEW t \in Loggers, NEW o \in Once, TestFlag(t, o) PROVE ~overlapped
    BY <2>1, Zenon DEF TestFlag
  <2>2. ASSUME NEW t \in Loggers, NEW o \in Once, SetFlag(t, o) PROVE ~overlapped
    BY <2>2, Zenon DEF SetFlag
  <2> QED
    BY <2>1, <2>2 DEF Next, Logger, Begin, Make, MakeQueue, StartRender, ReturnQueue, Push, CountLoad,
                      CountStore, Render, OpenFile, AwaitMessage, Unlink, TakenLoad, TakenStore,
                      onceVars, logVars
<1>2. Whole
  BY <1>1 DEF Safe, Whole
<1>3. CASE UNCHANGED logVars
  <2>1. UNCHANGED <<pc, told, got, flag, made, ret, lists, serves, at, holds, file, fault>>
    BY <1>3 DEF logVars, onceVars, queueVars, renderVars
  <2>2. Past' /\ Makers' /\ OneQueue' /\ OneRender'
    BY <1>2, <2>1 DEF Whole, Past, Makers, OneQueue, OneRender, At
  <2>3. Timed'
    BY <1>2, <2>1 DEF Whole, Timed, AllTimed
  <2> QED
    BY <1>2, <2>1, <2>2, <2>3 DEF Whole
<1>4. CASE Next
  BY <1>2, <1>4, BeginWhole, TestFlagWhole, SetFlagWhole, MakeWhole, MakeQueueWhole,
     StartRenderWhole, ReturnQueueWhole, PushWhole, CountWhole, RenderWhole DEF Next, Logger
<1> QED
  BY <1>3, <1>4

-----------------------------------------------------------------------------
(* When one thread goes first nobody overlaps with it.                     *)

\* Before the first message is pushed only First is at work, and only First ever
\* makes anything.
LEMMA OnlyFirst ==
    ASSUME Types, Safe, InTurn, ~early
    PROVE  /\ Whole
           /\ \A t \in Loggers : pc[t][1] # "idle" /\ done[First] = 0 => t = First
           /\ done[First] > 0 => Once \subseteq made /\ Once \subseteq flag
           /\ \A o \in flag \ made : pc[First][1] = o /\ pc[First][2] = "make"
<1>1. Whole
  BY DEF Safe, Whole, InTurn
<1>2. \A t \in Loggers : pc[t][1] # "idle" /\ done[First] = 0 => t = First
  BY DEF InTurn
<1>3. done[First] > 0 => Once \subseteq made /\ Once \subseteq flag
  BY <1>1 DEF InTurn, Whole, OneQueue
<1>4. \A o \in flag \ made : pc[First][1] = o /\ pc[First][2] = "make"
  BY DEF InTurn, At
<1> QED
  BY <1>1, <1>2, <1>3, <1>4

LEMMA InTurnStep == LogInv /\ [Next]_logVars => InTurn'
<1> SUFFICES ASSUME LogInv, [Next]_logVars, ~early' PROVE InTurn'
  BY DEF InTurn
<1> USE LogAssumption
<1>a. ~early /\ early' = early
  BY DEF Next, Logger, Begin, TestFlag, SetFlag, Make, MakeQueue, StartRender, ReturnQueue, Push,
         CountLoad, CountStore, Render, OpenFile, AwaitMessage, Unlink, TakenLoad, TakenStore, logVars
<1>b. Types /\ Safe /\ InTurn /\ ~overlapped
  BY <1>a DEF LogInv, InTurn
<1>c. /\ Whole
      /\ \A t \in Loggers : pc[t][1] # "idle" /\ done[First] = 0 => t = First
      /\ done[First] > 0 => Once \subseteq made /\ Once \subseteq flag
      /\ \A o \in flag \ made : pc[First][1] = o /\ pc[First][2] = "make"
  BY <1>a, <1>b, OnlyFirst
<1>d. done[First] \in Nat /\ First \in Loggers
  BY <1>b DEF Types
<1>1. ASSUME NEW t \in Loggers, Begin(t) PROVE InTurn'
  <2>1. /\ UNCHANGED <<done, flag, made, overlapped>> /\ Goto(t, "start", "test")
        /\ t = First \/ (done[First] > 0 /\ At(t, "idle", "test"))
    BY <1>1, <1>a DEF Begin, onceVars
  <2>2. /\ pc'[t][1] = "start" /\ pc'[t][2] = "test" /\ pc'[t] = <<"start", "test">>
        /\ \A u \in Loggers \ {t} : pc'[u] = pc[u]
    BY <1>b, <2>1, Moves
  <2>3. pc[t][2] = "test" /\ pc[t][1] = "idle"
    BY <1>1 DEF Begin, At
  <2>4. \A o \in flag \ made : First # t
    BY <1>c, <2>3
  <2> QED
    BY <1>a, <1>b, <1>d, <2>1, <2>2, <2>3, <2>4 DEF InTurn, At
<1>2. ASSUME NEW t \in Loggers, NEW o \in Once, TestFlag(t, o) PROVE InTurn'
  <2>1. UNCHANGED <<done, flag, made>> /\ pc[t][1] = o /\ pc[t][2] = "test"
    BY <1>2 DEF TestFlag, At
  <2>2. o # "idle" /\ (done[First] = 0 => t = First)
    BY <1>c, <2>1 DEF Once
  <2>3. CASE o \in flag
    <3>1. o \in made
      BY <1>c, <1>d, <2>1, <2>2, <2>3
    <3>2. ~overlapped'
      BY <1>2, <1>b, <2>3, <3>1, Zenon DEF TestFlag
    <3>3. Goto(t, After[o], "test")
      BY <1>2, <2>3 DEF TestFlag
    <3>4. /\ pc'[t][1] = After[o] /\ pc'[t][2] = "test" /\ pc'[t] = <<After[o], "test">>
          /\ \A u \in Loggers \ {t} : pc'[u] = pc[u]
      BY <1>b, <3>3, Moves
    <3>5. \A p \in flag \ made : First # t
      BY <1>c, <2>1
    <3> QED
      BY <1>b, <1>d, <1>a, <2>1, <2>2, <3>2, <3>4, <3>5 DEF InTurn, At
  <2>4. CASE o \notin flag
    <3>1. Goto(t, o, "set") /\ UNCHANGED overlapped
      BY <1>2, <2>4 DEF TestFlag
    <3>2. /\ pc'[t][1] = o /\ pc'[t][2] = "set" /\ pc'[t] = <<o, "set">>
          /\ \A u \in Loggers \ {t} : pc'[u] = pc[u]
      BY <1>b, <3>1, Moves
    <3>3. done[First] = 0 /\ t = First /\ flag \ made = {}
      BY <1>c, <1>d, <2>1, <2>2, <2>4
    <3> QED
      BY <1>b, <1>d, <1>a, <2>1, <2>4, <3>1, <3>2, <3>3 DEF InTurn, At
  <2> QED
    BY <2>3, <2>4
<1>3. ASSUME NEW t \in Loggers, NEW o \in Once, SetFlag(t, o) PROVE InTurn'
  <2>1. /\ UNCHANGED <<done, made>> /\ pc[t][1] = o /\ pc[t][2] = "set"
        /\ flag' = flag \cup {o} /\ Goto(t, o, "make") /\ At(t, o, "set")
    BY <1>3 DEF SetFlag, At
  <2>2. done[First] = 0 /\ t = First
    BY <1>a, <1>b, <2>1 DEF InTurn
  <2>3. o \notin flag /\ flag \ made = {}
    BY <1>a, <1>b, <1>c, <2>1, <2>2 DEF InTurn
  <2>4. ~overlapped'
    BY <1>3, <1>b, <2>3, Zenon DEF SetFlag
  <2>5. /\ pc'[t][1] = o /\ pc'[t][2] = "make" /\ pc'[t] = <<o, "make">>
        /\ \A u \in Loggers \ {t} : pc'[u] = pc[u]
    BY <1>b, <2>1, Moves
  <2> QED
    BY <1>a, <1>b, <1>d, <2>1, <2>2, <2>3, <2>4, <2>5 DEF InTurn, At
<1>4. ASSUME NEW t \in Loggers, NEW o \in Once, Make(t, o) PROVE InTurn'
  <2>1. /\ UNCHANGED <<done, flag, overlapped>> /\ pc[t][1] = o /\ pc[t][2] = "make"
        /\ made' = made \cup {o} /\ Goto(t, After[o], "test")
    BY <1>4 DEF Make, At
  <2>2. done[First] = 0 /\ t = First
    BY <1>a, <1>b, <2>1 DEF InTurn
  <2>3. flag \ made' = {}
    BY <1>c, <2>1, <2>2
  <2>4. /\ pc'[t][1] = After[o] /\ pc'[t][2] = "test" /\ pc'[t] = <<After[o], "test">>
        /\ \A u \in Loggers \ {t} : pc'[u] = pc[u]
    BY <1>b, <2>1, Moves
  <2> QED
    BY <1>a, <1>b, <1>d, <2>1, <2>2, <2>3, <2>4 DEF InTurn, At
<1>5. ASSUME NEW t \in Loggers, MakeQueue(t) PROVE InTurn'
  <2>1. /\ UNCHANGED <<done, flag, overlapped>> /\ pc[t][1] = "log" /\ pc[t][2] = "make"
        /\ made' = made \cup {"log"} /\ Goto(t, "log", "render")
    BY <1>5 DEF MakeQueue, At
  <2>2. done[First] = 0 /\ t = First
    BY <1>a, <1>b, <2>1 DEF InTurn
  <2>3. flag \ made' = {}
    BY <1>c, <2>1, <2>2
  <2>4. /\ pc'[t][1] = "log" /\ pc'[t][2] = "render" /\ pc'[t] = <<"log", "render">>
        /\ \A u \in Loggers \ {t} : pc'[u] = pc[u]
    BY <1>b, <2>1, Moves
  <2> QED
    BY <1>a, <1>b, <1>d, <2>1, <2>2, <2>3, <2>4 DEF InTurn, At
<1>6. ASSUME NEW t \in Loggers, StartRender(t) \/ ReturnQueue(t) PROVE InTurn'
  <2>1. /\ UNCHANGED <<done, flag, made, overlapped>> /\ pc[t][2] \in {"render", "return"}
        /\ Goto(t, "log", "return") \/ Goto(t, "push", "test")
    BY <1>6 DEF StartRender, ReturnQueue, At
  <2>2. done[First] = 0 /\ t = First /\ flag \ made = {}
    BY <1>a, <1>b, <1>c, <2>1 DEF InTurn
  <2>3. /\ pc'[t][2] \in {"return", "test"} /\ pc'[t] \in {<<"log", "return">>, <<"push", "test">>}
        /\ \A u \in Loggers \ {t} : pc'[u] = pc[u]
    BY <1>b, <2>1, Moves
  <2> QED
    BY <1>a, <1>b, <1>d, <2>1, <2>2, <2>3 DEF InTurn, At
<1>7. ASSUME NEW t \in Loggers, Push(t) \/ CountLoad(t) PROVE InTurn'
  <2>1. /\ UNCHANGED <<flag, made, overlapped, done>> /\ pc[t][1] \in {"push", "count"}
    BY <1>7 DEF Push, CountLoad, At, onceVars
  <2>2. got[t] # Nil /\ Once \subseteq made
    BY <1>c, <2>1 DEF Whole, Past, OneQueue, Once
  <2>3. Goto(t, "count", "load") \/ Goto(t, "count", "store")
    BY <1>7, <2>2 DEF Push, CountLoad
  <2>4. /\ pc'[t] = <<"count", "load">> \/ pc'[t] = <<"count", "store">>
        /\ \A u \in Loggers \ {t} : pc'[u] = pc[u]
    BY <1>b, <2>3, Moves
  <2>5. flag \ made = {}
    BY <1>b, <2>2 DEF Types
  <2>6. done[First] = 0 => t = First
    BY <1>c, <2>1
  <2> QED
    BY <1>a, <1>b, <1>d, <2>1, <2>4, <2>5, <2>6 DEF InTurn, At
<1>8. ASSUME NEW t \in Loggers, CountStore(t) PROVE InTurn'
  <2>1. /\ UNCHANGED <<flag, made, overlapped>> /\ pc[t][1] = "count"
        /\ Goto(t, "idle", "test") /\ done' = [done EXCEPT ![t] = @ + 1]
    BY <1>8 DEF CountStore, At, onceVars
  <2>2. Once \subseteq made
    BY <1>c, <2>1 DEF Whole, Past, Once
  <2>4. /\ pc'[t][1] = "idle" /\ pc'[t][2] = "test" /\ pc'[t] = <<"idle", "test">>
        /\ \A u \in Loggers \ {t} : pc'[u] = pc[u]
    BY <1>b, <2>1, Moves
  <2>5. flag \ made = {}
    BY <1>b, <2>2 DEF Types
  <2>6. \A u \in Loggers : pc'[u][2] \notin {"set", "make", "render", "return"}
    <3>1. \A u \in Loggers \ {t} : pc[u][2] \notin {"set", "make", "render", "return"}
      BY <1>a, <1>b, <1>c, <2>1 DEF InTurn
    <3> QED
      BY <2>4, <3>1
  <2>7. done'[First] > 0
    BY <1>b, <1>c, <1>d, <2>1 DEF Types
  <2> QED
    BY <1>b, <2>1, <2>2, <2>5, <2>6, <2>7 DEF InTurn, At
<1>9. ASSUME NEW r \in Loggers, Render(r) PROVE InTurn'
  <2>1. UNCHANGED <<early, pc, done, flag, made, overlapped>>
    BY <1>9, <1>b, <1>c, RenderKeeps
  <2> QED
    BY <2>1, <1>a, <1>b DEF InTurn, At
<1>10. CASE UNCHANGED logVars
  BY <1>10, <1>a, <1>b DEF logVars, onceVars, InTurn, At
<1> QED
  BY <1>1, <1>2, <1>3, <1>4, <1>5, <1>6, <1>7, <1>8, <1>9, <1>10 DEF Next, Logger

-----------------------------------------------------------------------------
LEMMA LogInvHolds == Spec => []LogInv
<1>1. LogInv /\ [Next]_logVars => LogInv'
  BY TypesStep, SafeStep, InTurnStep DEF LogInv
<1> QED
  BY <1>1, InitInv, PTL DEF Spec

\* Nothing is used half made without an overlap, and there is none when one
\* thread logs before the others begin: for any threads and messages.
THEOREM FirstUseIsSafe == Spec => []FirstUseSafe
<1>1. LogInv => FirstUseSafe
  <2> SUFFICES ASSUME LogInv PROVE FirstUseSafe
    OBVIOUS
  <2>1. overlapped => early
    BY DEF LogInv, InTurn
  <2> QED
    BY <2>1 DEF LogInv, Safe, OneQueue, OneRender, Timed, AllTimed, FirstUseSafe
<1> QED
  BY <1>1, LogInvHolds, PTL

-----------------------------------------------------------------------------
(* The messages of a thread are written in the order it logged them.       *)

Increasing(s) == \A i, j \in DOMAIN s : i < j /\ s[i].by = s[j].by => s[i].nr < s[j].nr
Numbers(t, s) == {s[i].nr : i \in {k \in DOMAIN s : s[k].by = t}}

\* One more message of a thread, with the number that follows.
LEMMA OneMore ==
    ASSUME NEW s \in Seq(Messages), NEW m \in Messages, NEW t \in Loggers, NEW n \in Nat,
           Increasing(s), Numbers(t, s) = 1 .. n, m.by = t, m.nr = n + 1
    PROVE  /\ Increasing(Append(s, m)) /\ Numbers(t, Append(s, m)) = 1 .. n + 1
           /\ \A u \in Loggers \ {t} : Numbers(u, Append(s, m)) = Numbers(u, s)
<1> DEFINE a == Append(s, m)
<1>1. /\ Len(s) \in Nat /\ DOMAIN s = 1 .. Len(s) /\ DOMAIN a = 1 .. Len(s) + 1
      /\ \A i \in 1 .. Len(s) : a[i] = s[i]
      /\ a[Len(s) + 1] = m
  BY AppendProperties, LenProperties
<1> HIDE DEF a
<1>2. \A i \in DOMAIN s : s[i] \in Messages /\ s[i].nr \in Nat
  <2>1. \A i \in DOMAIN s : s[i] \in Messages
    BY <1>1, ElementOfSeq
  <2> QED
    BY <2>1 DEF Messages
<1>3. \A i \in DOMAIN s : s[i].by = t => s[i].nr \in 1 .. n
  BY DEF Numbers
<1>4. Increasing(a)
  <2> SUFFICES ASSUME NEW i \in DOMAIN a, NEW j \in DOMAIN a, i < j, a[i].by = a[j].by
               PROVE  a[i].nr < a[j].nr
    BY DEF Increasing
  <2>1. i \in DOMAIN s /\ a[i] = s[i]
    BY <1>1
  <2>2. CASE j \in DOMAIN s
    <3>1. a[j] = s[j]
      BY <1>1, <2>2
    <3> QED
      BY <2>1, <2>2, <3>1 DEF Increasing
  <2>3. CASE j = Len(s) + 1
    <3>1. a[j] = m
      BY <1>1, <2>3
    <3>2. s[i].nr \in 1 .. n
      BY <1>3, <2>1, <3>1
    <3> QED
      BY <2>1, <3>1, <3>2
  <2> QED
    BY <1>1, <2>2, <2>3
<1>5. Numbers(t, a) = 1 .. n + 1
  <2>1. Numbers(t, a) = Numbers(t, s) \cup {n + 1}
    <3>1. ASSUME NEW x \in Numbers(t, a) PROVE x \in Numbers(t, s) \cup {n + 1}
      <4>1. PICK i \in DOMAIN a : a[i].by = t /\ x = a[i].nr
        BY <3>1 DEF Numbers
      <4>2. CASE i \in DOMAIN s
        BY <1>1, <4>1, <4>2 DEF Numbers
      <4>3. CASE i = Len(s) + 1
        BY <1>1, <4>1, <4>3
      <4> QED
        BY <1>1, <4>2, <4>3
    <3>2. ASSUME NEW x \in Numbers(t, s) PROVE x \in Numbers(t, a)
      <4>1. PICK i \in DOMAIN s : s[i].by = t /\ x = s[i].nr
        BY <3>2 DEF Numbers
      <4>2. i \in DOMAIN a /\ a[i] = s[i]
        BY <1>1, <4>1
      <4> QED
        BY <4>1, <4>2 DEF Numbers
    <3>3. n + 1 \in Numbers(t, a)
      <4>1. Len(s) + 1 \in DOMAIN a
        BY <1>1
      <4> QED
        BY <1>1, <4>1 DEF Numbers
    <3> QED
      BY <3>1, <3>2, <3>3
  <2> QED
    BY <2>1
<1>6. ASSUME NEW u \in Loggers \ {t} PROVE Numbers(u, a) = Numbers(u, s)
  <2>1. ASSUME NEW x \in Numbers(u, a) PROVE x \in Numbers(u, s)
    <3>1. PICK i \in DOMAIN a : a[i].by = u /\ x = a[i].nr
      BY <2>1 DEF Numbers
    <3>2. i \in DOMAIN s
      BY <1>1, <3>1
    <3> QED
      BY <1>1, <3>1, <3>2 DEF Numbers
  <2>2. ASSUME NEW x \in Numbers(u, s) PROVE x \in Numbers(u, a)
    <3>1. PICK i \in DOMAIN s : s[i].by = u /\ x = s[i].nr
      BY <2>2 DEF Numbers
    <3>2. i \in DOMAIN a /\ a[i] = s[i]
      BY <1>1, <3>1
    <3> QED
      BY <3>1, <3>2 DEF Numbers
  <2> QED
    BY <2>1, <2>2
<1> QED
  BY <1>4, <1>5, <1>6 DEF a

\* A sequence is its first element and the others.
LEMMA HeadFirst ==
    ASSUME NEW s \in Seq(Messages), s # <<>>
    PROVE  <<Head(s)>> \o Tail(s) = s
<1>1. Head(s) \in Messages /\ Tail(s) \in Seq(Messages) /\ <<Head(s)>> \in Seq(Messages)
  BY HeadTailProperties
<1> DEFINE c == <<Head(s)>> \o Tail(s)
<1>2. /\ c \in Seq(Messages) /\ Len(<<Head(s)>>) = 1 /\ <<Head(s)>>[1] = Head(s)
      /\ Len(c) = 1 + Len(Tail(s))
      /\ \A i \in 1 .. 1 + Len(Tail(s)) :
             c[i] = IF i <= 1 THEN <<Head(s)>>[i] ELSE Tail(s)[i - 1]
  BY <1>1, ConcatProperties
<1>3. /\ Len(s) \in Nat \ {0} /\ Len(Tail(s)) = Len(s) - 1 /\ Head(s) = s[1]
      /\ \A i \in 1 .. Len(Tail(s)) : Tail(s)[i] = s[i + 1]
  BY HeadTailProperties, LenProperties, EmptySeq
<1> HIDE DEF c
<1>4. Len(c) = Len(s)
  BY <1>2, <1>3
<1>5. \A i \in 1 .. Len(s) : c[i] = s[i]
  BY <1>2, <1>3
<1> QED
  BY <1>2, <1>4, <1>5, SeqEqual DEF c

LEMMA Associative ==
    \A s, t, u \in Seq(Messages) : (s \o t) \o u = s \o (t \o u)
  BY ConcatAssociative

LEMMA LastMoves ==
    ASSUME NEW r \in Seq(Messages), NEW s \in Seq(Messages), NEW m \in Messages
    PROVE  r \o Append(s, m) = Append(r \o s, m)
<1>1. <<m>> \in Seq(Messages) /\ r \o s \in Seq(Messages)
  BY ConcatProperties
<1>2. Append(s, m) = s \o <<m>>
  BY AppendIsConcat
<1>3. Append(r \o s, m) = (r \o s) \o <<m>>
  BY <1>1, AppendIsConcat
<1>4. (r \o s) \o <<m>> = r \o (s \o <<m>>)
  BY <1>1, ConcatAssociative
<1> QED
  BY <1>2, <1>3, <1>4

LEMMA LoggedSeq == Types => Logged \in Seq(Messages)
<1> SUFFICES ASSUME Types PROVE Logged \in Seq(Messages)
  OBVIOUS
<1>1. file \in Seq(Messages) /\ <<>> \in Seq(Messages)
  BY EmptySeq DEF Types
<1>2. \A r \in Loggers : holds[r] \in Seq(Messages) /\ lists[r] \in Seq(Messages)
  BY DEF Types
<1>3. \A r \in Loggers : holds[r] \o lists[r] \in Seq(Messages)
  BY <1>2, ConcatProperties
<1>4. ret \in Loggers \/ ret = Nil
  BY DEF Types
<1> QED
  BY <1>1, <1>3, <1>4, ConcatProperties DEF Logged

InOrder == Increasing(Logged) /\ \A t \in Loggers : Numbers(t, Logged) = 1 .. Sent(t)

LEMMA OrderInit == Init => InOrder
<1> SUFFICES ASSUME Init PROVE InOrder
  OBVIOUS
<1>1. Logged = <<>> /\ DOMAIN Logged = {}
  BY DEF Init, Logged
<1>2. \A t \in Loggers : Sent(t) = 0
  BY DEF Init, Sent
<1> QED
  BY <1>1, <1>2 DEF InOrder, Increasing, Numbers

LEMMA OrderKept ==
    ASSUME InOrder, Logged' = Logged, \A t \in Loggers : Sent(t)' = Sent(t)
    PROVE  InOrder'
  BY DEF InOrder, Increasing, Numbers

LEMMA OrderPush ==
    ASSUME Types, Whole, InOrder, NEW t \in Loggers, Push(t)
    PROVE  InOrder'
<1> DEFINE m == Message(t, done[t] + 1)
<1>1. pc[t][1] = "push"
  BY DEF Push, At
<1>2. got[t] = ret /\ ret \in Loggers /\ ret # Nil
  BY <1>1, LogAssumption DEF Whole, Past, OneQueue
<1>3. /\ ret' = ret /\ file' = file /\ holds' = holds /\ done' = done
      /\ lists' = [lists EXCEPT ![ret] = Append(@, m)]
      /\ Goto(t, "count", "load")
  BY <1>2 DEF Push, onceVars, renderVars
<1>4. /\ lists[ret] \in Seq(Messages) /\ file \in Seq(Messages) /\ holds[ret] \in Seq(Messages)
      /\ done[t] \in Nat /\ told[t] \in BOOLEAN
  BY <1>2 DEF Types
<1>5. m \in Messages /\ m.by = t /\ m.nr = done[t] + 1
  <2>1. \A b \in BOOLEAN, n \in Nat : [by |-> t, nr |-> n, timed |-> b] \in Messages
    BY DEF Messages
  <2>2. done[t] + 1 \in Nat
    BY <1>4
  <2> QED
    BY <1>4, <2>1, <2>2 DEF Message
<1> HIDE DEF m
<1>6. Logged = file \o (holds[ret] \o lists[ret]) /\ Logged \in Seq(Messages)
  BY <1>2, LoggedSeq DEF Logged
<1>7. Logged' = Append(Logged, m)
  <2>1. Logged' = file \o (holds[ret] \o Append(lists[ret], m))
    BY <1>2, <1>3 DEF Logged, Types
  <2>2. holds[ret] \o Append(lists[ret], m) = Append(holds[ret] \o lists[ret], m)
    BY <1>4, <1>5, LastMoves
  <2>3. holds[ret] \o lists[ret] \in Seq(Messages)
    BY <1>4, ConcatProperties
  <2>4. file \o Append(holds[ret] \o lists[ret], m) = Append(file \o (holds[ret] \o lists[ret]), m)
    BY <1>4, <1>5, <2>3, LastMoves
  <2> QED
    BY <1>6, <2>1, <2>2, <2>4
<1>8. /\ Increasing(Append(Logged, m)) /\ Numbers(t, Append(Logged, m)) = 1 .. done[t] + 1
      /\ \A u \in Loggers \ {t} : Numbers(u, Append(Logged, m)) = Numbers(u, Logged)
  <2> DEFINE n == done[t]
  <2>1. Increasing(Logged) /\ Numbers(t, Logged) = 1 .. n
    BY <1>1 DEF InOrder, Sent
  <2>2. n \in Nat /\ m.nr = n + 1
    BY <1>4, <1>5
  <2> HIDE DEF n
  <2>3. /\ Increasing(Append(Logged, m)) /\ Numbers(t, Append(Logged, m)) = 1 .. n + 1
        /\ \A u \in Loggers \ {t} : Numbers(u, Append(Logged, m)) = Numbers(u, Logged)
    <3>1. m \in Messages /\ m.by = t /\ Logged \in Seq(Messages)
      BY <1>5, <1>6
    <3> QED
      BY <2>1, <2>2, <3>1, OneMore
  <2> QED
    BY <2>3 DEF n
<1>9. /\ Sent(t)' = done[t] + 1 /\ \A u \in Loggers \ {t} : Sent(u)' = Sent(u)
  <2>1. /\ pc'[t][1] = "count" /\ \A u \in Loggers \ {t} : pc'[u] = pc[u]
    BY <1>3, Moves
  <2> QED
    BY <1>3, <2>1 DEF Sent
<1>10. Increasing(Logged')
  BY <1>7, <1>8
<1>11. \A u \in Loggers : Numbers(u, Logged') = 1 .. Sent(u)'
  BY <1>7, <1>8, <1>9 DEF InOrder
<1> QED
  BY <1>10, <1>11 DEF InOrder, Increasing, Numbers

\* What a rendering thread moves stays in its place of what was logged.
LEMMA RenderKeepsLogged ==
    ASSUME Types, Whole, NEW r \in Loggers, Render(r)
    PROVE  Logged' = Logged
<1>1. r = ret /\ serves[r] = r /\ ret # Nil /\ ret' = ret
  BY RenderKeeps
<1>2. /\ lists[r] \in Seq(Messages) /\ holds[r] \in Seq(Messages) /\ file \in Seq(Messages)
      /\ \A s \in Seq(Messages) : <<>> \o s = s
  BY ConcatEmptySeq DEF Types
<1>3. Logged = file \o (holds[r] \o lists[r]) /\ Logged' = file' \o (holds'[r] \o lists'[r])
  BY <1>1 DEF Logged
<1>4. CASE OpenFile(r)
  <2>1. file' = <<>> /\ file = <<>> /\ UNCHANGED <<lists, holds>>
    BY <1>1, <1>4 DEF OpenFile, RGoto, queueVars, Whole, OneRender
  <2> QED
    BY <1>3, <2>1
<1>5. CASE AwaitMessage(r) \/ TakenLoad(r)
  <2>1. UNCHANGED <<file, lists, holds>>
    BY <1>5 DEF AwaitMessage, TakenLoad, queueVars
  <2> QED
    BY <1>3, <2>1
<1>6. CASE Unlink(r)
  <2>1. lists[r] # <<>> /\ holds[r] = <<>>
    BY <1>6 DEF Unlink, RGoto, Whole, OneRender
  <2>2. file' = file /\ holds'[r] = <<Head(lists[r])>> /\ lists'[r] = Tail(lists[r])
    BY <1>1, <1>6, <2>1 DEF Unlink, Types
  <2>3. holds'[r] \o lists'[r] = holds[r] \o lists[r]
    BY <1>2, <2>1, <2>2, HeadFirst
  <2> QED
    BY <1>3, <2>2, <2>3
<1>7. CASE TakenStore(r)
  <2>1. file' = file \o holds[r] /\ holds'[r] = <<>> /\ lists' = lists
    BY <1>7 DEF TakenStore, Types
  <2>2. (file \o holds[r]) \o lists[r] = file \o (holds[r] \o lists[r])
    <3>1. lists[r] \in Seq(Messages) /\ holds[r] \in Seq(Messages) /\ file \in Seq(Messages)
      BY <1>2
    <3> QED
      BY <3>1, Associative, Zenon
  <2>3. holds'[r] \o lists'[r] = lists[r]
    BY <1>2, <2>1
  <2> QED
    BY <1>3, <2>1, <2>2, <2>3
<1> QED
  BY <1>4, <1>5, <1>6, <1>7 DEF Render

LEMMA OrderStep == Types /\ Safe /\ (~overlapped => InOrder) /\ [Next]_logVars
                     => (~overlapped => InOrder)'
<1> SUFFICES ASSUME Types, Safe, ~overlapped => InOrder, [Next]_logVars, ~overlapped'
             PROVE  InOrder'
  OBVIOUS
<1>1. ~overlapped
  <2>1. ASSUME NEW t \in Loggers, NEW o \in Once, TestFlag(t, o) PROVE ~overlapped
    BY <2>1, Zenon DEF TestFlag
  <2>2. ASSUME NEW t \in Loggers, NEW o \in Once, SetFlag(t, o) PROVE ~overlapped
    BY <2>2, Zenon DEF SetFlag
  <2> QED
    BY <2>1, <2>2 DEF Next, Logger, Begin, Make, MakeQueue, StartRender, ReturnQueue, Push, CountLoad,
                      CountStore, Render, OpenFile, AwaitMessage, Unlink, TakenLoad, TakenStore,
                      onceVars, logVars
<1>2. Whole /\ InOrder
  BY <1>1 DEF Safe, Whole
<1>3. ASSUME UNCHANGED <<lists, holds, file, done>>, ret' = ret,
             NEW t \in Loggers, NEW w, NEW step, Goto(t, w, step), pc[t][1] # "count", w # "count"
      PROVE  InOrder'
  <2>1. pc'[t][1] = w /\ \A u \in Loggers \ {t} : pc'[u] = pc[u]
    BY <1>3, Moves
  <2>2. \A u \in Loggers : Sent(u)' = Sent(u)
    BY <1>3, <2>1 DEF Sent
  <2>3. Logged' = Logged
    BY <1>3 DEF Logged
  <2> QED
    BY <1>2, <2>2, <2>3, OrderKept
<1>4. ASSUME NEW t \in Loggers, MakeQueue(t) PROVE InOrder'
  <2>1. /\ ret' = t /\ UNCHANGED <<lists, holds, file, done>> /\ Goto(t, "log", "render")
        /\ "log" \notin made /\ pc[t][1] = "log"
    BY <1>2, <1>4 DEF MakeQueue, Whole, Makers, At, Once, queueVars, renderVars
  <2>2. t # Nil /\ ret = Nil
    BY <1>2, <2>1, LogAssumption DEF Whole, OneQueue, Types
  <2>3. lists[t] = <<>> /\ holds[t] = <<>>
    BY <1>2, <2>2 DEF Whole, OneQueue, OneRender
  <2>4. Logged' = Logged
    <3>1. <<>> \o <<>> = <<>>
      BY EmptySeq, ConcatEmptySeq
    <3> QED
      BY <2>1, <2>2, <2>3, <3>1 DEF Logged
  <2>5. pc'[t][1] = "log" /\ \A u \in Loggers \ {t} : pc'[u] = pc[u]
    BY <2>1, Moves
  <2>6. \A u \in Loggers : Sent(u)' = Sent(u)
    BY <2>1, <2>5 DEF Sent
  <2> QED
    BY <1>2, <2>4, <2>6, OrderKept
<1>5. ASSUME NEW r \in Loggers, Render(r) PROVE InOrder'
  <2>1. UNCHANGED <<pc, done>> /\ Logged' = Logged
    BY <1>2, <1>5, RenderKeeps, RenderKeepsLogged
  <2>2. \A u \in Loggers : Sent(u)' = Sent(u)
    BY <2>1 DEF Sent
  <2> QED
    BY <1>2, <2>1, <2>2, OrderKept
<1>6. CASE UNCHANGED logVars
  <2>1. UNCHANGED <<pc, done, lists, holds, file, ret>>
    BY <1>6 DEF logVars, onceVars, queueVars, renderVars
  <2>2. Logged' = Logged /\ \A u \in Loggers : Sent(u)' = Sent(u)
    BY <2>1 DEF Logged, Sent
  <2> QED
    BY <1>2, <2>2, OrderKept
<1>7. ASSUME NEW t \in Loggers,
             Begin(t) \/ (\E o \in Once : TestFlag(t, o) \/ SetFlag(t, o) \/ Make(t, o))
                \/ StartRender(t) \/ ReturnQueue(t)
      PROVE  InOrder'
  <2>1. UNCHANGED <<lists, holds, file, done, ret>>
    BY <1>7 DEF Begin, TestFlag, SetFlag, Make, StartRender, ReturnQueue, onceVars, queueVars, renderVars
  <2>2. PICK w, step : Goto(t, w, step) /\ w # "count"
    BY <1>7, AfterThat DEF Begin, TestFlag, SetFlag, Make, StartRender, ReturnQueue, Once
  <2>3. pc[t][1] # "count"
    BY <1>7 DEF Begin, TestFlag, SetFlag, Make, StartRender, ReturnQueue, At, Once
  <2> QED
    BY <1>3, <2>1, <2>2, <2>3
<1>8. ASSUME NEW t \in Loggers, Push(t) PROVE InOrder'
  BY <1>2, <1>8, OrderPush
<1>9. ASSUME NEW t \in Loggers, CountLoad(t) \/ CountStore(t) PROVE InOrder'
  <2>1. /\ UNCHANGED <<lists, holds, file, ret>> /\ pc[t][1] = "count"
        /\ \/ Goto(t, "count", "store") /\ done' = done
           \/ Goto(t, "idle", "test") /\ done' = [done EXCEPT ![t] = @ + 1]
    BY <1>9 DEF CountLoad, CountStore, At, onceVars, renderVars
  <2>2. Logged' = Logged
    BY <2>1 DEF Logged
  <2>3. \A u \in Loggers : Sent(u)' = Sent(u)
    <3>1. CASE Goto(t, "count", "store") /\ done' = done
      <4>1. pc'[t][1] = "count" /\ \A u \in Loggers \ {t} : pc'[u] = pc[u]
        BY <3>1, Moves
      <4> QED
        BY <2>1, <3>1, <4>1 DEF Sent
    <3>2. CASE Goto(t, "idle", "test") /\ done' = [done EXCEPT ![t] = @ + 1]
      <4>1. pc'[t][1] = "idle" /\ \A u \in Loggers \ {t} : pc'[u] = pc[u]
        BY <3>2, Moves
      <4>2. done'[t] = done[t] + 1 /\ \A u \in Loggers \ {t} : done'[u] = done[u]
        BY <3>2 DEF Types
      <4> QED
        BY <2>1, <4>1, <4>2 DEF Sent
    <3> QED
      BY <2>1, <3>1, <3>2
  <2> QED
    BY <1>2, <2>2, <2>3, OrderKept
<1> QED
  BY <1>4, <1>5, <1>6, <1>7, <1>8, <1>9 DEF Next, Logger

\* Unless first uses overlap, what is written, and after it what waits in the
\* queue, has the messages of every thread in the order it logged them, each
\* once and none left out, whatever its count says (log.cpp:70, :75-127, :184).
THEOREM WrittenInOrder == Spec => []LogInOrder
<1>1. Init => (~overlapped => InOrder)
  BY OrderInit
<1>2. LogInv => Types /\ Safe
  BY DEF LogInv
<1>3. (~overlapped => InOrder) => LogInOrder
  BY DEF InOrder, Increasing, Numbers, LogInOrder
<1> QED
  BY <1>1, <1>2, <1>3, LogInvHolds, OrderStep, PTL DEF Spec
=============================================================================
