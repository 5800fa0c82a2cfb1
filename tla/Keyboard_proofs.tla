---------------------------- MODULE Keyboard_proofs ----------------------------
(***************************************************************************)
(* The keyboard for any keys, any number of attempts and any interleaving  *)
(* with the user's typing.  KBD_init reports success only for a keyboard   *)
(* that scans with set 2 behind a controller set up for it; and what is    *)
(* typed from then on arrives.                                             *)
(***************************************************************************)
EXTENDS Keyboard, SequenceTheorems, TLAPS

USE KeyboardAssumption

Answers == {ACK, RESEND}

NoAnswer == obf \notin Answers /\ \A n \in 1..Len(out) : out[n] \notin Answers

OneAnswer ==
    /\ obf \in Answers => \A n \in 1..Len(out) : out[n] \notin Answers
    /\ \A m, n \in 1..Len(out) : out[m] \in Answers /\ out[n] \in Answers => m = n

Acknowledged == obf = ACK \/ \E n \in 1..Len(out) : out[n] = ACK

(* The dialogue: one command at a time, and one answer for each.  Nothing  *)
(* that could be taken for an answer is under way when the driver does not *)
(* wait for one, however many keys are pressed meanwhile.                  *)
Dialogue ==
    /\ pc \notin {"read", "failed"} => ibf = None /\ NoAnswer
    /\ pc = "read" => \/ ibf = Commands[cmd] /\ NoAnswer
                      \/ ibf = None /\ OneAnswer

(* An acknowledged command has been obeyed. *)
Obeyed ==
    /\ cmd > 1 /\ pc # "failed" => set = 2
    /\ pc = "read" /\ Acknowledged => set = 2 /\ (cmd = 4 => scanning)
    /\ pc \in {"set_handler", "clear_mask", "ready"} => cmd = 4 /\ scanning

Configured ==
    /\ pc \notin {"configure", "failed"} => "INT1" \in config /\ "TRANS" \notin config
    /\ pc \notin {"configure", "self_test", "port_test", "failed"} => "CLK1" \notin config

IInv ==
    /\ TypeOK
    /\ Dialogue
    /\ Obeyed
    /\ Configured

-----------------------------------------------------------------------------
LEMMA CommandFacts ==
  /\ Len(Commands) = 4
  /\ \A n \in 1..4 : Commands[n] \in Range(Commands) /\ Commands[n] # None
  /\ Commands[1] = "RST_KEYBOARD" /\ Commands[2] = "SCANCODE"
  /\ Commands[3] = "SET_SCANCODE_2" /\ Commands[4] = "ENABLE_SCAN"
  /\ \A n \in 1..4 : Commands[n] = "RST_KEYBOARD" => n = 1
  /\ \A n \in 1..4 : Commands[n] = "ENABLE_SCAN" => n = 4
<1>1. Len(Commands) = 4 /\ DOMAIN Commands = 1..4
  BY DEF Commands
<1>2. /\ Commands[1] = "RST_KEYBOARD" /\ Commands[2] = "SCANCODE"
      /\ Commands[3] = "SET_SCANCODE_2" /\ Commands[4] = "ENABLE_SCAN"
  BY DEF Commands
<1>3. \A n \in 1..4 : n = 1 \/ n = 2 \/ n = 3 \/ n = 4
  OBVIOUS
<1>4. \A n \in 1..4 : Commands[n] \in Range(Commands)
  BY <1>1 DEF Range
<1> QED
  BY <1>1, <1>2, <1>3, <1>4 DEF None

LEMMA ByteFacts ==
  /\ Keys \subseteq Bytes /\ {ACK, RESEND, SELF_TEST, BREAK, E0} \subseteq Bytes
  /\ \A k \in Keys : k \notin Answers
  /\ SELF_TEST \notin Answers /\ BREAK \notin Answers /\ E0 \notin Answers /\ None \notin Answers
  /\ None \notin Bytes /\ ACK # RESEND
  /\ CharKeys \subseteq Keys
BY DEF Bytes, Answers, ACK, RESEND, SELF_TEST, BREAK, E0, None, Keys

Quiet(s) == \A n \in 1..Len(s) : s[n] \notin Answers

LEMMA QuietConcat ==
  ASSUME NEW s \in Seq(Bytes), NEW t \in Seq(Bytes)
  PROVE  /\ s \o t \in Seq(Bytes)
         /\ Quiet(s) /\ Quiet(t) => Quiet(s \o t)
<1> DEFINE st == s \o t
<1>1. /\ st \in Seq(Bytes) /\ Len(st) = Len(s) + Len(t) /\ Len(s) \in Nat /\ Len(t) \in Nat
      /\ \A n \in 1..(Len(s) + Len(t)) : st[n] = IF n <= Len(s) THEN s[n] ELSE t[n - Len(s)]
  BY ConcatProperties, LenProperties
<1> HIDE DEF st
<1>2. ASSUME Quiet(s), Quiet(t), NEW n \in 1..Len(st) PROVE st[n] \notin Answers
  <2>1. n \in Nat /\ n \in 1..(Len(s) + Len(t))
    BY <1>1, <1>2
  <2>2. CASE n <= Len(s)
    BY <1>1, <1>2, <2>1, <2>2 DEF Quiet
  <2>3. CASE ~(n <= Len(s))
    <3>1. n - Len(s) \in 1..Len(t)
      BY <1>1, <2>1, <2>3
    <3> QED
      BY <1>1, <1>2, <2>1, <2>3, <3>1 DEF Quiet
  <2> QED
    BY <2>2, <2>3
<1>3. Quiet(s) /\ Quiet(t) => Quiet(st)
  BY <1>2 DEF Quiet
<1> QED
  BY <1>1, <1>3 DEF st

LEMMA SingleFacts ==
  ASSUME NEW b \in Bytes
  PROVE  <<b>> \in Seq(Bytes) /\ Len(<<b>>) = 1 /\ <<b>>[1] = b /\ (b \notin Answers => Quiet(<<b>>))
BY DEF Quiet

LEMMA EmptyQuiet == << >> \in Seq(Bytes) /\ Quiet(<< >>)
BY DEF Quiet

(* What the user's hands add to the keyboard's bytes answers nothing. *)
LEMMA KeyBytes ==
  ASSUME NEW k \in Keys
  PROVE  /\ Prefix(k) \in Seq(Bytes) /\ Quiet(Prefix(k))
         /\ <<k>> \in Seq(Bytes) /\ Quiet(<<k>>)
         /\ <<BREAK, k>> \in Seq(Bytes) /\ Quiet(<<BREAK, k>>)
<1> USE ByteFacts
<1>1. Prefix(k) \in Seq(Bytes) /\ Quiet(Prefix(k))
  BY SingleFacts, EmptyQuiet DEF Prefix
<1>2. <<k>> \in Seq(Bytes) /\ Quiet(<<k>>)
  BY SingleFacts
<1>3. <<BREAK, k>> \in Seq(Bytes)
  OBVIOUS
<1>4. Quiet(<<BREAK, k>>)
  <2>1. \A n \in 1..2 : n = 1 \/ n = 2
    OBVIOUS
  <2>2. Len(<<BREAK, k>>) = 2 /\ <<BREAK, k>>[1] = BREAK /\ <<BREAK, k>>[2] = k
    OBVIOUS
  <2> QED
    BY <2>1, <2>2 DEF Quiet
<1> QED
  BY <1>1, <1>2, <1>3, <1>4

(* What the keyboard answers to a command: one answer in a row of quiet    *)
(* bytes.                                                                  *)
LEMMA AnswerBytes ==
  ASSUME NEW s \in Seq(Bytes), NEW t \in Seq(Bytes), Quiet(s), Quiet(t), NEW r \in Answers
  PROVE  LET b == s \o <<r>> \o t
         IN /\ b \in Seq(Bytes)
            /\ \A n \in 1..Len(b) : b[n] \in Answers => n = Len(s) + 1 /\ b[n] = r
<1> DEFINE a == s \o <<r>>
           b == a \o t
<1>1. r \in Bytes
  BY ByteFacts DEF Answers
<1>2. <<r>> \in Seq(Bytes) /\ Len(<<r>>) = 1 /\ <<r>>[1] = r
  BY <1>1, SingleFacts
<1>3. /\ a \in Seq(Bytes) /\ Len(a) = Len(s) + 1 /\ Len(s) \in Nat /\ Len(t) \in Nat
      /\ \A n \in 1..(Len(s) + 1) : a[n] = IF n <= Len(s) THEN s[n] ELSE <<r>>[n - Len(s)]
  BY <1>2, ConcatProperties, LenProperties
<1> HIDE DEF a
<1>4. /\ b \in Seq(Bytes) /\ Len(b) = Len(a) + Len(t)
      /\ \A n \in 1..(Len(a) + Len(t)) : b[n] = IF n <= Len(a) THEN a[n] ELSE t[n - Len(a)]
  <2>1. a \in Seq(Bytes)
    BY <1>3
  <2> QED
    BY <2>1, ConcatProperties
<1> HIDE DEF b
<1>5. ASSUME NEW n \in 1..Len(b), b[n] \in Answers PROVE n = Len(s) + 1 /\ b[n] = r
  <2>1. n \in Nat /\ n \in 1..(Len(a) + Len(t))
    BY <1>3, <1>4, <1>5
  <2>2. CASE n <= Len(s)
    <3>1. b[n] = s[n]
      BY <1>3, <1>4, <2>1, <2>2
    <3> QED
      BY <1>5, <2>1, <2>2, <3>1 DEF Quiet
  <2>3. CASE n = Len(s) + 1
    <3>1. n - Len(s) = 1
      BY <1>3, <2>3
    <3> QED
      BY <1>2, <1>3, <1>4, <2>1, <2>3, <3>1
  <2>4. CASE n > Len(s) + 1
    <3>1. n - Len(a) \in 1..Len(t) /\ b[n] = t[n - Len(a)]
      BY <1>3, <1>4, <2>1, <2>4
    <3> QED
      BY <1>5, <3>1 DEF Quiet
  <2> QED
    BY <1>3, <2>1, <2>2, <2>3, <2>4
<1> QED
  BY <1>4, <1>5 DEF a, b

-----------------------------------------------------------------------------
(* Types, one group of variables at a time. *)
TypeDriver ==
    /\ pc \in {"configure", "self_test", "port_test", "write", "read",
               "set_handler", "clear_mask", "ready", "failed"}
    /\ cmd \in 1..4 /\ tries \in 0..N_TRIES /\ res \in (-6)..1
TypeController ==
    /\ obf \in Bytes \cup {None}
    /\ ibf \in Range(Commands) \cup {None}
    /\ config \subseteq ConfigBits
TypeDevice ==
    /\ out \in Seq(Bytes)
    /\ scanning \in BOOLEAN /\ wants_set \in BOOLEAN
    /\ set \in {1, 2} /\ resends \in 0..MaxResend
TypePic == masked \in BOOLEAN /\ in_service \in BOOLEAN /\ table \in BOOLEAN /\ halted \in BOOLEAN
TypeHandler ==
    /\ release \in BOOLEAN /\ mod_state \subseteq {"shift"}
    /\ buffered \in 0..BufCap
    /\ reader \in {"away", "asleep", "awake"}
TypeUser ==
    /\ held \subseteq Keys /\ events \in 0..MaxEvents
    /\ typed \in Seq(Characters) /\ ups \in Nat /\ both \in BOOLEAN
TypeHistory == chars \in Seq(Characters) /\ lost_to_full \in Nat

LEMMA TypeSplit ==
  TypeOK <=> /\ TypeDriver /\ TypeController /\ TypeDevice /\ TypePic
             /\ TypeHandler /\ TypeUser /\ TypeHistory
BY CommandFacts, Zenon DEF TypeOK, TypeDriver, TypeController, TypeDevice, TypePic,
   TypeHandler, TypeUser, TypeHistory

LEMMA TypeSplitNext ==
  TypeOK' <=> /\ TypeDriver' /\ TypeController' /\ TypeDevice' /\ TypePic'
              /\ TypeHandler' /\ TypeUser' /\ TypeHistory'
BY CommandFacts, Zenon DEF TypeOK, TypeDriver, TypeController, TypeDevice, TypePic,
   TypeHandler, TypeUser, TypeHistory

LEMMA InitType == Init => TypeOK
<1> SUFFICES ASSUME Init PROVE TypeOK
  OBVIOUS
<1>1. TypeDriver
  BY DEF Init, TypeDriver
<1>2. TypeController
  BY ByteFacts DEF Init, TypeController, ConfigBits
<1>3. TypeDevice
  <2>1. out \in Seq(Bytes) /\ resends \in 0..MaxResend
    BY EmptyQuiet DEF Init
  <2>2. scanning \in BOOLEAN /\ wants_set \in BOOLEAN /\ set \in {1, 2}
    BY Zenon DEF Init
  <2> QED
    BY <2>1, <2>2, Zenon DEF TypeDevice
<1>4. TypePic
  BY Zenon DEF Init, TypePic
<1>5. TypeHandler
  <2>1. release \in BOOLEAN /\ mod_state \subseteq {"shift"} /\ reader \in {"away", "asleep", "awake"}
    BY Zenon DEF Init
  <2>2. buffered \in 0..BufCap
    BY DEF Init
  <2> QED
    BY <2>1, <2>2, Zenon DEF TypeHandler
<1>6. TypeUser /\ TypeHistory
  <2>1. held \subseteq Keys /\ both \in BOOLEAN
    BY Zenon DEF Init
  <2>2. events \in 0..MaxEvents /\ ups \in Nat /\ lost_to_full \in Nat
    BY DEF Init
  <2>3. typed \in Seq(Characters) /\ chars \in Seq(Characters)
    BY DEF Init
  <2> QED
    BY <2>1, <2>2, <2>3, Zenon DEF TypeUser, TypeHistory
<1> QED
  BY <1>1, <1>2, <1>3, <1>4, <1>5, <1>6, TypeSplit

(* What an action leaves alone keeps its type. *)
LEMMA TypeKept ==
  ASSUME TypeOK
  PROVE  /\ UNCHANGED driver => TypeDriver'
         /\ UNCHANGED controller => TypeController'
         /\ UNCHANGED device => TypeDevice'
         /\ UNCHANGED pic => TypePic'
         /\ UNCHANGED handler => TypeHandler'
         /\ UNCHANGED user => TypeUser'
         /\ UNCHANGED <<chars, lost_to_full>> => TypeHistory'
<1> USE TypeSplit
<1>1. UNCHANGED driver => TypeDriver'
  BY Zenon DEF driver, TypeDriver
<1>2. UNCHANGED controller => TypeController'
  BY Zenon DEF controller, TypeController
<1>3. UNCHANGED device => TypeDevice'
  BY Zenon DEF device, TypeDevice
<1>4. UNCHANGED pic => TypePic'
  BY Zenon DEF pic, TypePic
<1>5. UNCHANGED handler => TypeHandler'
  BY Zenon DEF handler, TypeHandler
<1>6. UNCHANGED user => TypeUser'
  BY Zenon DEF user, TypeUser
<1>7. UNCHANGED <<chars, lost_to_full>> => TypeHistory'
  BY Zenon DEF TypeHistory
<1> QED
  BY <1>1, <1>2, <1>3, <1>4, <1>5, <1>6, <1>7, Zenon

LEMMA AnsweredType ==
  ASSUME TypeOK, NEW resp, Answered(resp)
  PROVE  TypeDriver'
<1>1. TypeDriver /\ Len(Commands) = 4
  BY TypeSplit, CommandFacts
<1>2. -(cmd + 2) \in (-6)..1 /\ (cmd # 4 => cmd + 1 \in 1..4) /\ 0 \in 0..N_TRIES
  BY <1>1 DEF TypeDriver
<1> QED
  BY <1>1, <1>2 DEF Answered, Fail, TypeDriver

LEMMA TypeInit ==
  ASSUME TypeOK, KBD_init
  PROVE  TypeOK'
<1> USE TypeSplit, TypeSplitNext, TypeKept
<1>1. CASE configure
  <2>1. TypeDriver'
    BY <1>1 DEF configure, TypeDriver
  <2>2. TypeController'
    BY <1>1, Zenon DEF configure, TypeController, ConfigBits
  <2> QED
    BY <1>1, <2>1, <2>2 DEF configure
<1>2. CASE \E passed \in BOOLEAN : self_test(passed) \/ port_test(passed)
  <2>1. PICK passed \in BOOLEAN : self_test(passed) \/ port_test(passed)
    BY <1>2
  <2>2. TypeDriver'
    BY <2>1 DEF self_test, port_test, Fail, TypeDriver
  <2>3. TypeController'
    BY <2>1 DEF self_test, port_test, controller, TypeController
  <2> QED
    BY <2>1, <2>2, <2>3 DEF self_test, port_test
<1>3. CASE write_keyboard
  <2>1. TypeDriver'
    <3>1. CASE tries + 1 < N_TRIES
      BY <1>3, <3>1 DEF write_keyboard, TypeDriver
    <3>2. CASE ~(tries + 1 < N_TRIES)
      BY <1>3, <3>2, AnsweredType DEF write_keyboard
    <3> QED
      BY <3>1, <3>2
  <2>2. TypeController'
    <3>1. cmd \in 1..4
      BY DEF TypeDriver
    <3> QED
      BY <1>3, <3>1, CommandFacts DEF write_keyboard, TypeController
  <2> QED
    BY <1>3, <2>1, <2>2 DEF write_keyboard
<1>4. CASE read_data
  <2>1. TypeDriver'
    <3>1. CASE obf = RESEND
      BY <1>4, <3>1 DEF read_data, TypeDriver
    <3>2. CASE obf # RESEND
      BY <1>4, <3>2, AnsweredType DEF read_data
    <3> QED
      BY <3>1, <3>2
  <2>2. TypeController'
    BY <1>4 DEF read_data, TypeController
  <2> QED
    BY <1>4, <2>1, <2>2 DEF read_data
<1>5. CASE IRQ_set_handler
  <2>1. TypeDriver'
    BY <1>5 DEF IRQ_set_handler, TypeDriver
  <2>2. TypePic'
    BY <1>5, Zenon DEF IRQ_set_handler, TypePic
  <2> QED
    BY <1>5, <2>1, <2>2 DEF IRQ_set_handler
<1>6. CASE IRQ_clear_mask
  <2>1. TypeDriver'
    BY <1>6 DEF IRQ_clear_mask, TypeDriver
  <2>2. TypePic'
    BY <1>6, Zenon DEF IRQ_clear_mask, TypePic
  <2> QED
    BY <1>6, <2>1, <2>2 DEF IRQ_clear_mask
<1> QED
  BY <1>1, <1>2, <1>3, <1>4, <1>5, <1>6 DEF KBD_init

LEMMA TypeCommand ==
  ASSUME TypeOK, NEW resp \in {ACK, RESEND}, NEW forget \in BOOLEAN,
         device_command(resp, forget)
  PROVE  TypeOK'
<1> USE TypeSplit, TypeSplitNext, TypeKept
<1>1. TypeController'
  BY Zenon DEF device_command, TypeController
<1>2. out' \in Seq(Bytes)
  <2> DEFINE before == IF forget THEN << >> ELSE out
             after == IF ibf = "RST_KEYBOARD" /\ resp = ACK THEN <<SELF_TEST>> ELSE << >>
  <2>1. before \in Seq(Bytes) /\ after \in Seq(Bytes) /\ <<resp>> \in Seq(Bytes)
    BY ByteFacts, SingleFacts, EmptyQuiet DEF TypeDevice
  <2>2. out' = before \o <<resp>> \o after
    BY DEF device_command
  <2> HIDE DEF before, after
  <2>3. before \o <<resp>> \in Seq(Bytes)
    BY <2>1, QuietConcat
  <2> QED
    BY <2>1, <2>2, <2>3, QuietConcat
<1>3. scanning' \in BOOLEAN /\ wants_set' \in BOOLEAN /\ set' \in {1, 2}
  <2>1. scanning' \in BOOLEAN
    BY Zenon DEF device_command, TypeDevice
  <2>2. wants_set' \in BOOLEAN
    BY Zenon DEF device_command, TypeDevice
  <2>3. set' \in {1, 2}
    BY DEF device_command, TypeDevice
  <2> QED
    BY <2>1, <2>2, <2>3
<1>4. resends' \in 0..MaxResend
  BY DEF device_command, TypeDevice
<1>5. TypeDevice'
  BY <1>2, <1>3, <1>4, Zenon DEF TypeDevice
<1>6. TypeUser'
  <2>1. CASE forget
    <3>1. held' \subseteq Keys /\ both' \in BOOLEAN /\ events' = events
      BY <2>1, Zenon DEF device_command
    <3>2. typed' \in Seq(Characters) /\ ups' \in Nat
      BY <2>1 DEF device_command
    <3> QED
      BY <3>1, <3>2, Zenon DEF TypeUser
  <2>2. CASE ~forget
    BY <2>2, Zenon DEF device_command, TypeUser
  <2> QED
    BY <2>1, <2>2
<1> QED
  BY <1>1, <1>5, <1>6, Zenon DEF device_command

LEMMA TypeSend ==
  ASSUME TypeOK, device_send
  PROVE  TypeOK'
<1> USE TypeSplit, TypeSplitNext, TypeKept
<1>1. Head(out) \in Bytes /\ Tail(out) \in Seq(Bytes)
  BY HeadTailProperties DEF TypeDevice, device_send
<1>2. TypeController'
  BY <1>1, Zenon DEF device_send, TypeController
<1>3. TypeDevice'
  BY <1>1, Zenon DEF device_send, TypeDevice
<1> QED
  BY <1>2, <1>3, Zenon DEF device_send

(* What the keyboard queues for a key. *)
LEMMA KeyQueued ==
  ASSUME NEW s \in Seq(Bytes), NEW k \in Keys
  PROVE  /\ s \o Prefix(k) \in Seq(Bytes)
         /\ s \o Prefix(k) \o <<k>> \in Seq(Bytes)
         /\ s \o Prefix(k) \o <<BREAK, k>> \in Seq(Bytes)
<1>1. s \o Prefix(k) \in Seq(Bytes)
  BY KeyBytes, QuietConcat
<1> DEFINE p == s \o Prefix(k)
<1> HIDE DEF p
<1>2. p \in Seq(Bytes)
  BY <1>1 DEF p
<1>3. p \o <<k>> \in Seq(Bytes) /\ p \o <<BREAK, k>> \in Seq(Bytes)
  BY <1>2, KeyBytes, QuietConcat
<1> QED
  BY <1>1, <1>3 DEF p

LEMMA TypePress ==
  ASSUME TypeOK, NEW k \in Keys, press(k)
  PROVE  TypeOK'
<1> USE TypeSplit, TypeSplitNext, TypeKept
<1>1. TypeDevice'
  <2>1. out' \in Seq(Bytes)
    BY KeyQueued DEF TypeDevice, press
  <2> QED
    BY <2>1, Zenon DEF TypeDevice, press
<1>2. events' \in 0..MaxEvents
  BY DEF press, TypeUser
<1>3. typed' \in Seq(Characters)
  <2>1. ASSUME k \in CharKeys PROVE <<k, held \cap ShiftKeys # {}>> \in Characters
    BY <2>1, Zenon DEF Characters
  <2>2. typed \in Seq(Characters)
    BY DEF TypeUser
  <2> DEFINE c == <<k, held \cap ShiftKeys # {}>>
  <2>3. typed' = IF k \in CharKeys THEN Append(typed, c) ELSE typed
    BY DEF press
  <2>4. k \in CharKeys => c \in Characters
    BY <2>1
  <2> HIDE DEF c
  <2> QED
    BY <2>2, <2>3, <2>4, AppendProperties
<1>4. held' \subseteq Keys /\ both' \in BOOLEAN /\ ups' \in Nat
  <2>1. held' \subseteq Keys
    BY Zenon DEF press, TypeUser
  <2>2. both' \in BOOLEAN
    BY Zenon DEF press, TypeUser
  <2> QED
    BY <2>1, <2>2, Zenon DEF press, TypeUser
<1>5. TypeUser'
  BY <1>2, <1>3, <1>4, Zenon DEF TypeUser
<1> QED
  BY <1>1, <1>5, Zenon DEF press

LEMMA TypeLetGo ==
  ASSUME TypeOK, NEW k \in Keys, let_go(k)
  PROVE  TypeOK'
<1> USE TypeSplit, TypeSplitNext, TypeKept
<1>1. TypeDevice'
  <2>1. out' \in Seq(Bytes)
    BY KeyQueued DEF TypeDevice, let_go
  <2> QED
    BY <2>1, Zenon DEF TypeDevice, let_go
<1>2. TypeUser'
  <2>1. ups' \in Nat
    BY DEF let_go, TypeUser
  <2> QED
    BY <2>1, Zenon DEF TypeUser, let_go
<1> QED
  BY <1>1, <1>2, Zenon DEF let_go

LEMMA TypeHandlers ==
  ASSUME TypeOK, irq_handler \/ keyboard_handler \/ getc_sys_call
  PROVE  TypeOK'
<1> USE TypeSplit, TypeSplitNext, TypeKept
<1>1. CASE irq_handler
  <2>1. TypePic'
    BY <1>1, Zenon DEF irq_handler, TypePic
  <2> QED
    BY <1>1, <2>1, Zenon DEF irq_handler
<1>2. CASE keyboard_handler
  <2>1. TypeController'
    BY <1>2, Zenon DEF keyboard_handler, TypeController
  <2>2. TypePic'
    BY <1>2, Zenon DEF keyboard_handler, IRQ_end_of_interrupt, TypePic
  <2>3. release' \in BOOLEAN /\ mod_state' \subseteq {"shift"}
    BY <1>2, Zenon DEF keyboard_handler, decode, TypeHandler
  <2>4. CASE obf \in CharKeys /\ ~release
    <3> DEFINE c == <<obf, "shift" \in mod_state>>
    <3>1. c \in Characters
      <4>1. ("shift" \in mod_state) \in BOOLEAN
        OBVIOUS
      <4>2. \A x \in CharKeys, y \in BOOLEAN : <<x, y>> \in Characters
        BY Zenon DEF Characters
      <4> QED
        BY <2>4, <4>1, <4>2, Zenon
    <3>2. deliver(c)
      BY <1>2, <2>4, Zenon DEF keyboard_handler
    <3> HIDE DEF c
    <3>3. buffered' \in 0..BufCap
      BY <3>2 DEF deliver, is_buffer_full, TypeHandler
    <3>4. reader' \in {"away", "asleep", "awake"}
      BY <3>2 DEF deliver, TypeHandler
    <3>5. TypeHistory'
      <4>1. chars \in Seq(Characters) /\ Append(chars, c) \in Seq(Characters)
        BY <3>1, AppendProperties DEF TypeHistory
      <4> QED
        BY <3>2, <4>1 DEF deliver, TypeHistory
    <3>6. TypeHandler'
      BY <2>3, <3>3, <3>4, Zenon DEF TypeHandler
    <3> QED
      BY <1>2, <2>1, <2>2, <3>5, <3>6, Zenon DEF keyboard_handler
  <2>5. CASE ~(obf \in CharKeys /\ ~release)
    <3>1. TypeHandler' /\ UNCHANGED <<chars, lost_to_full>>
      BY <1>2, <2>3, <2>5, Zenon DEF keyboard_handler, TypeHandler
    <3> QED
      BY <1>2, <2>1, <2>2, <3>1, Zenon DEF keyboard_handler
  <2> QED
    BY <2>4, <2>5
<1>3. CASE getc_sys_call
  <2>1. buffered' \in 0..BufCap /\ reader' \in {"away", "asleep", "awake"}
    BY <1>3 DEF getc_sys_call, TypeHandler
  <2>2. TypeHandler'
    BY <1>3, <2>1, Zenon DEF getc_sys_call, TypeHandler
  <2> QED
    BY <1>3, <2>2, Zenon DEF getc_sys_call
<1> QED
  BY <1>1, <1>2, <1>3

LEMMA TypeStep == TypeOK /\ [Next]_vars => TypeOK'
<1> SUFFICES ASSUME TypeOK, [Next]_vars PROVE TypeOK'
  OBVIOUS
<1>1. CASE KBD_init
  BY <1>1, TypeInit
<1>2. CASE Device
  BY <1>2, TypeCommand, TypeSend, Zenon DEF Device
<1>3. CASE User
  BY <1>3, TypePress, TypeLetGo, Zenon DEF User
<1>4. CASE irq_handler \/ keyboard_handler \/ getc_sys_call
  BY <1>4, TypeHandlers
<1>5. CASE UNCHANGED vars
  BY <1>5, TypeKept, TypeSplitNext, Zenon DEF vars
<1> QED
  BY <1>1, <1>2, <1>3, <1>4, <1>5, Zenon DEF Next

(* The keyboard driver keeps its types: KBD_init's result stays in the     *)
(* range of codes it documents, the buffer within its capacity, and every  *)
(* byte under way is one that the keyboard sends.                          *)
THEOREM TypeCorrect == Spec => []TypeOK
<1>1. Init => TypeOK
  BY InitType
<1>2. TypeOK /\ [Next]_vars => TypeOK'
  BY TypeStep
<1> QED
  BY <1>1, <1>2, PTL DEF Spec

-----------------------------------------------------------------------------
(* The keyboard's bytes grow by ones that answer nothing. *)
LEMMA QuietAppended ==
  ASSUME NEW s \in Seq(Bytes), NEW t \in Seq(Bytes), Quiet(t)
  PROVE  \A n \in 1..Len(s \o t) :
            (s \o t)[n] \in Answers => n \in 1..Len(s) /\ (s \o t)[n] = s[n]
<1> DEFINE st == s \o t
<1>1. /\ Len(st) = Len(s) + Len(t) /\ Len(s) \in Nat /\ Len(t) \in Nat
      /\ \A n \in 1..(Len(s) + Len(t)) : st[n] = IF n <= Len(s) THEN s[n] ELSE t[n - Len(s)]
  BY ConcatProperties, LenProperties
<1> HIDE DEF st
<1>2. ASSUME NEW n \in 1..Len(st), st[n] \in Answers
      PROVE  n \in 1..Len(s) /\ st[n] = s[n]
  <2>1. n \in Nat /\ n \in 1..(Len(s) + Len(t))
    BY <1>1, <1>2
  <2>2. CASE n <= Len(s)
    BY <1>1, <2>1, <2>2
  <2>3. CASE ~(n <= Len(s))
    <3>1. n - Len(s) \in 1..Len(t) /\ st[n] = t[n - Len(s)]
      BY <1>1, <2>1, <2>3
    <3> QED
      BY <1>2, <3>1 DEF Quiet
  <2> QED
    BY <2>2, <2>3
<1> QED
  BY <1>2 DEF st

(* Bytes of keys do not disturb the dialogue. *)
LEMMA TypingHarmless ==
  ASSUME IInv, NEW t \in Seq(Bytes), Quiet(t), out' = out \o t,
         UNCHANGED <<driver, controller, scanning, set>>
  PROVE  Dialogue' /\ Obeyed' /\ Configured'
<1>1. out \in Seq(Bytes)
  BY TypeSplit DEF IInv, TypeDevice
<1>2. \A n \in 1..Len(out') : out'[n] \in Answers => n \in 1..Len(out) /\ out'[n] = out[n]
  BY <1>1, QuietAppended
<1>3. UNCHANGED <<pc, cmd, obf, ibf, config>>
  BY DEF driver, controller
<1>4. NoAnswer => NoAnswer'
  BY <1>2, <1>3, Zenon DEF NoAnswer
<1>5. OneAnswer => OneAnswer'
  BY <1>2, <1>3, Zenon DEF OneAnswer
<1>6. Acknowledged' => Acknowledged
  BY <1>2, <1>3, Zenon DEF Acknowledged, Answers
<1>7. Dialogue'
  BY <1>3, <1>4, <1>5, Zenon DEF IInv, Dialogue
<1>8. Obeyed'
  BY <1>3, <1>6 DEF IInv, Obeyed
<1>9. Configured'
  BY <1>3, Zenon DEF IInv, Configured
<1> QED
  BY <1>7, <1>8, <1>9

LEMMA HonestUser ==
  ASSUME IInv, User
  PROVE  Dialogue' /\ Obeyed' /\ Configured'
<1>1. PICK k \in Keys : press(k) \/ let_go(k)
  BY DEF User
<1>2. out \in Seq(Bytes)
  BY TypeSplit DEF IInv, TypeDevice
<1>3. PICK t \in Seq(Bytes) : Quiet(t) /\ out' = out \o t
  <2>1. CASE press(k)
    <3>1. Prefix(k) \o <<k>> \in Seq(Bytes) /\ Quiet(Prefix(k) \o <<k>>)
      BY KeyBytes, QuietConcat
    <3>2. out \o Prefix(k) \o <<k>> = out \o (Prefix(k) \o <<k>>)
      BY <1>2, KeyBytes, ConcatAssociative
    <3> QED
      BY <2>1, <3>1, <3>2 DEF press
  <2>2. CASE let_go(k)
    <3>1. Prefix(k) \o <<BREAK, k>> \in Seq(Bytes) /\ Quiet(Prefix(k) \o <<BREAK, k>>)
      BY KeyBytes, QuietConcat
    <3>2. out \o Prefix(k) \o <<BREAK, k>> = out \o (Prefix(k) \o <<BREAK, k>>)
      BY <1>2, KeyBytes, ConcatAssociative
    <3> QED
      BY <2>2, <3>1, <3>2 DEF let_go
  <2> QED
    BY <1>1, <2>1, <2>2
<1>4. UNCHANGED <<driver, controller, scanning, set>>
  BY <1>1, Zenon DEF press, let_go
<1> QED
  BY <1>3, <1>4, TypingHarmless

(* The keyboard takes the command the driver waits for, and answers once.  *)
LEMMA HonestCommand ==
  ASSUME IInv, NEW resp \in {ACK, RESEND}, NEW forget \in BOOLEAN,
         device_command(resp, forget)
  PROVE  Dialogue' /\ Obeyed' /\ Configured'
<1>1. UNCHANGED <<pc, cmd, obf, config>> /\ ibf # None /\ ibf' = None
  BY Zenon DEF device_command, driver
<1>2. cmd \in 1..4 /\ out \in Seq(Bytes) /\ set \in {1, 2}
  BY TypeSplit DEF IInv, TypeDriver, TypeDevice
<1>3. Configured'
  BY <1>1, Zenon DEF IInv, Configured
<1>4. CASE pc = "failed"
  BY <1>1, <1>4 DEF Dialogue, Obeyed, Configured, IInv
<1>5. CASE pc # "failed"
  <2>1. pc = "read" /\ ibf = Commands[cmd] /\ NoAnswer
    BY <1>1, <1>5 DEF IInv, Dialogue
  <2> DEFINE before == IF forget THEN << >> ELSE out
             after == IF ibf = "RST_KEYBOARD" /\ resp = ACK THEN <<SELF_TEST>> ELSE << >>
  <2>2. /\ before \in Seq(Bytes) /\ Quiet(before)
        /\ after \in Seq(Bytes) /\ Quiet(after)
    BY <1>2, <2>1, ByteFacts, SingleFacts, EmptyQuiet DEF NoAnswer, Quiet
  <2>3. out' = before \o <<resp>> \o after
    BY DEF device_command
  <2> HIDE DEF before, after
  <2>4. \A n \in 1..Len(out') : out'[n] \in Answers => n = Len(before) + 1 /\ out'[n] = resp
    BY <2>2, <2>3, AnswerBytes DEF Answers
  <2>5. obf' \notin Answers
    BY <1>1, <2>1 DEF NoAnswer
  <2>6. OneAnswer'
    BY <2>4, <2>5 DEF OneAnswer
  <2>7. Acknowledged' => resp = ACK
    BY <2>4, <2>5 DEF Acknowledged, Answers
  <2>8. Dialogue'
    BY <1>1, <2>1, <2>6 DEF Dialogue
  <2>9. cmd > 1 => set' = 2
    BY <1>5 DEF IInv, Obeyed, device_command
  <2>10. resp = ACK => set' = 2
    <3>1. CASE cmd = 1
      BY <2>1, <3>1, CommandFacts DEF device_command
    <3>2. CASE cmd # 1
      BY <1>2, <2>9, <3>2
    <3> QED
      BY <3>1, <3>2
  <2>11. resp = ACK /\ cmd = 4 => scanning'
    <3> SUFFICES ASSUME resp = ACK, cmd = 4 PROVE scanning'
      OBVIOUS
    <3>1. ibf = "ENABLE_SCAN" /\ ibf # "RST_KEYBOARD"
      BY <2>1, CommandFacts
    <3>2. scanning' = (scanning \/ (ibf = "ENABLE_SCAN" /\ resp = ACK))
      BY <3>1, Zenon DEF device_command
    <3> QED
      BY <3>1, <3>2, Zenon
  <2>12. Obeyed'
    BY <1>1, <2>1, <2>7, <2>9, <2>10, <2>11 DEF Obeyed
  <2> QED
    BY <1>3, <2>8, <2>12
<1> QED
  BY <1>4, <1>5

(* A byte moves from the keyboard to the controller. *)
LEMMA HonestSend ==
  ASSUME IInv, device_send
  PROVE  Dialogue' /\ Obeyed' /\ Configured'
<1>1. UNCHANGED <<pc, cmd, ibf, config, scanning, set>> /\ obf = None
  BY Zenon DEF device_send, driver
<1>2. /\ out \in Seq(Bytes) /\ out # << >> /\ obf' = Head(out) /\ out' = Tail(out)
  BY TypeSplit DEF IInv, TypeDevice, device_send
<1>3. /\ Len(out) \in Nat /\ Len(out) >= 1 /\ obf' = out[1]
      /\ Len(out') = Len(out) - 1
      /\ \A n \in 1..(Len(out) - 1) : out'[n] = out[n + 1]
  <2>1. Len(out) \in Nat /\ Len(out) # 0
    BY <1>2, LenProperties, EmptySeq
  <2>2. Head(out) = out[1]
    BY <1>2
  <2>3. Len(Tail(out)) = Len(out) - 1 /\ \A n \in 1..(Len(out) - 1) : Tail(out)[n] = out[n + 1]
    BY <1>2, HeadTailProperties
  <2> QED
    BY <1>2, <2>1, <2>2, <2>3
<1>4. 1 \in 1..Len(out) /\ \A n \in 1..Len(out') : n + 1 \in 1..Len(out) /\ out'[n] = out[n + 1]
  BY <1>3
<1>5. NoAnswer => NoAnswer'
  BY <1>3, <1>4, Zenon DEF NoAnswer
<1>6. OneAnswer => OneAnswer'
  <2> SUFFICES ASSUME OneAnswer PROVE OneAnswer'
    OBVIOUS
  <2>1. ASSUME obf' \in Answers, NEW n \in 1..Len(out'), out'[n] \in Answers PROVE FALSE
    <3>1. 1 = n + 1
      BY <1>3, <1>4, <2>1, Zenon DEF OneAnswer
    <3> QED
      BY <1>3, <3>1
  <2>2. ASSUME NEW m \in 1..Len(out'), NEW n \in 1..Len(out'),
               out'[m] \in Answers, out'[n] \in Answers
        PROVE  m = n
    <3>1. m + 1 = n + 1
      BY <1>4, <2>2, Zenon DEF OneAnswer
    <3> QED
      BY <1>3, <3>1
  <2> QED
    BY <2>1, <2>2, Zenon DEF OneAnswer
<1>7. Acknowledged' => Acknowledged
  BY <1>3, <1>4, Zenon DEF Acknowledged
<1>8. Dialogue'
  BY <1>1, <1>5, <1>6, Zenon DEF IInv, Dialogue
<1>9. Obeyed'
  BY <1>1, <1>7 DEF IInv, Obeyed
<1>10. Configured'
  BY <1>1, Zenon DEF IInv, Configured
<1> QED
  BY <1>8, <1>9, <1>10

(* The handlers at most take a byte out of the output buffer. *)
LEMMA HonestHandlers ==
  ASSUME IInv, irq_handler \/ keyboard_handler \/ getc_sys_call \/ UNCHANGED vars
  PROVE  Dialogue' /\ Obeyed' /\ Configured'
<1>1. UNCHANGED <<pc, cmd, ibf, config, out, scanning, set>>
  BY Zenon DEF irq_handler, keyboard_handler, getc_sys_call, vars, driver, controller, device
<1>2. obf' = obf \/ obf' = None
  BY Zenon DEF irq_handler, keyboard_handler, getc_sys_call, vars, controller
<1>3. None \notin Answers /\ None # ACK
  BY DEF Answers, None, ACK, RESEND
<1>4. NoAnswer => NoAnswer'
  BY <1>1, <1>2, <1>3, Zenon DEF NoAnswer
<1>5. OneAnswer => OneAnswer'
  BY <1>1, <1>2, <1>3, Zenon DEF OneAnswer
<1>6. Acknowledged' => Acknowledged
  BY <1>1, <1>2, <1>3, Zenon DEF Acknowledged
<1>7. Dialogue'
  BY <1>1, <1>4, <1>5, Zenon DEF IInv, Dialogue
<1>8. Obeyed'
  BY <1>1, <1>6 DEF IInv, Obeyed
<1>9. Configured'
  BY <1>1, Zenon DEF IInv, Configured
<1> QED
  BY <1>7, <1>8, <1>9

LEMMA HonestInit ==
  ASSUME IInv, KBD_init
  PROVE  Dialogue' /\ Obeyed' /\ Configured'
<1>1. cmd \in 1..4 /\ Len(Commands) = 4
  BY TypeSplit, CommandFacts DEF IInv, TypeDriver
<1>2. CASE configure
  <2>1. Dialogue'
    <3>1. NoAnswer /\ ibf = None
      BY <1>2 DEF configure, IInv, Dialogue
    <3>2. NoAnswer'
      BY <1>2, <3>1 DEF configure, NoAnswer, device, Answers, None, ACK, RESEND
    <3> QED
      BY <1>2, <3>1, <3>2 DEF configure, Dialogue
  <2>2. Obeyed'
    BY <1>2 DEF configure, IInv, Obeyed, device
  <2>3. Configured'
    BY <1>2 DEF configure, Configured
  <2> QED
    BY <2>1, <2>2, <2>3
<1>3. CASE \E passed \in BOOLEAN : self_test(passed) \/ port_test(passed)
  <2>1. /\ pc \in {"self_test", "port_test"} /\ pc' \in {"port_test", "write", "failed"}
        /\ UNCHANGED <<cmd, obf, ibf, out, scanning, set>>
    BY <1>3 DEF self_test, port_test, Fail, controller, device
  <2>2. Dialogue'
    BY <2>1 DEF IInv, Dialogue, NoAnswer
  <2>3. Obeyed'
    BY <2>1 DEF IInv, Obeyed
  <2>4. Configured'
    BY <1>3 DEF self_test, port_test, Fail, controller, IInv, Configured
  <2> QED
    BY <2>2, <2>3, <2>4
<1>4. CASE write_keyboard
  <2>1. /\ pc = "write" /\ NoAnswer /\ ibf' = Commands[cmd]
        /\ UNCHANGED <<obf, config, out, scanning, set>>
    BY <1>4 DEF write_keyboard, device, IInv, Dialogue
  <2>2. NoAnswer' /\ ~Acknowledged'
    BY <2>1 DEF NoAnswer, Acknowledged, Answers
  <2>3. \/ pc' = "failed"
        \/ pc' = "read" /\ cmd' = cmd
    BY <1>4 DEF write_keyboard, Answered, Fail, ACK, RESEND
  <2>4. Dialogue'
    BY <2>1, <2>2, <2>3 DEF Dialogue
  <2>5. Obeyed'
    BY <2>1, <2>2, <2>3 DEF IInv, Obeyed
  <2>6. Configured'
    BY <2>1, <2>3 DEF IInv, Configured
  <2> QED
    BY <2>4, <2>5, <2>6
<1>5. CASE read_data
  <2>1. /\ pc = "read" /\ obf # None /\ obf' = None
        /\ UNCHANGED <<ibf, config, out, scanning, set>>
    BY <1>5 DEF read_data, device
  <2>2. CASE obf \notin Answers
    <3>1. pc' = "failed"
      BY <1>5, <2>2 DEF read_data, Answered, Fail, Answers
    <3> QED
      BY <3>1 DEF Dialogue, Obeyed, Configured
  <2>3. CASE obf \in Answers
    <3>1. ibf = None /\ OneAnswer
      BY <2>1, <2>3 DEF IInv, Dialogue, NoAnswer
    <3>2. NoAnswer'
      BY <2>1, <2>3, <3>1 DEF OneAnswer, NoAnswer, Answers, None, ACK, RESEND
    <3>3. \/ obf = RESEND /\ pc' = "write" /\ cmd' = cmd
          \/ obf = ACK /\ cmd = 4 /\ pc' = "set_handler" /\ cmd' = cmd
          \/ obf = ACK /\ cmd # 4 /\ pc' = "write" /\ cmd' = cmd + 1
      BY <1>1, <1>5, <2>3 DEF read_data, Answered, Answers, ACK, RESEND
    <3>4. obf = ACK => set = 2 /\ (cmd = 4 => scanning)
      BY <2>1 DEF IInv, Obeyed, Acknowledged
    <3>5. Dialogue'
      BY <2>1, <3>1, <3>2, <3>3 DEF Dialogue
    <3>6. Obeyed'
      BY <1>1, <2>1, <3>3, <3>4 DEF IInv, Obeyed
    <3>7. Configured'
      BY <2>1, <3>3 DEF IInv, Configured
    <3> QED
      BY <3>5, <3>6, <3>7
  <2> QED
    BY <2>2, <2>3
<1>6. CASE IRQ_set_handler \/ IRQ_clear_mask
  <2>1. /\ pc \in {"set_handler", "clear_mask"} /\ pc' \in {"clear_mask", "ready"}
        /\ UNCHANGED <<cmd, obf, ibf, config, out, scanning, set>>
    BY <1>6 DEF IRQ_set_handler, IRQ_clear_mask, controller, device
  <2> QED
    BY <2>1 DEF IInv, Dialogue, NoAnswer, Obeyed, Configured
<1> QED
  BY <1>2, <1>3, <1>4, <1>5, <1>6 DEF KBD_init

LEMMA IInvInit == Init => IInv
<1> SUFFICES ASSUME Init PROVE IInv
  OBVIOUS
<1>1. Dialogue
  <2>1. obf \notin Answers
    BY DEF Init, Answers, None, SELF_TEST, ACK, RESEND
  <2>2. \A n \in 1..Len(out) : out[n] \notin Answers
    BY EmptyQuiet DEF Init, Quiet
  <2> QED
    BY <2>1, <2>2 DEF Init, Dialogue, NoAnswer
<1>2. Obeyed /\ Configured
  BY DEF Init, Obeyed, Configured
<1> QED
  BY <1>1, <1>2, InitType DEF IInv

LEMMA IInvStep == IInv /\ [Next]_vars => IInv'
<1> SUFFICES ASSUME IInv, [Next]_vars PROVE IInv'
  OBVIOUS
<1>1. TypeOK'
  BY TypeStep DEF IInv
<1>2. Dialogue' /\ Obeyed' /\ Configured'
  <2>1. CASE Device
    BY <2>1, HonestCommand, HonestSend, Zenon DEF Device
  <2> QED
    BY <2>1, HonestInit, HonestUser, HonestHandlers, Zenon DEF Next
<1> QED
  BY <1>1, <1>2 DEF IInv

(* KBD_init reports success only for a keyboard that scans with set 2 on   *)
(* an enabled port, whose bytes the controller passes on unchanged: for    *)
(* any keys pressed while it runs and any commands sent again.             *)
THEOREM InitIsHonest == Spec => []InitHonest
<1>1. Init => IInv
  BY IInvInit
<1>2. IInv /\ [Next]_vars => IInv'
  BY IInvStep
<1>3. IInv => InitHonest
  <2> SUFFICES ASSUME IInv, pc \in {"set_handler", "clear_mask", "ready"}
               PROVE  scanning /\ set = 2 /\ config \cap {"CLK1", "TRANS", "INT1"} = {"INT1"}
    BY DEF InitHonest
  <2>1. scanning /\ set = 2
    BY DEF IInv, Obeyed
  <2>2. "INT1" \in config /\ "TRANS" \notin config /\ "CLK1" \notin config
    BY DEF IInv, Configured
  <2> QED
    BY <2>1, <2>2
<1> QED
  BY <1>1, <1>2, <1>3, PTL DEF Spec
-----------------------------------------------------------------------------
(* What is typed arrives.  The bytes on their way to the handler, oldest   *)
(* first.                                                                  *)
Stream == IF obf = None THEN out ELSE <<obf>> \o out

(* How bytes are meant to be read: a break code ends with its key, whether *)
(* the driver knows the key or not.  typed are the characters read, ups    *)
(* the keys unknown to the driver that were let go.                        *)
Decoded == [brk : BOOLEAN, shift : BOOLEAN, typed : Seq(Characters), ups : Nat]

Meant(s, byte) ==
    [brk |-> byte = BREAK \/ (byte \notin Keys /\ s.brk),
     shift |-> IF byte \in ShiftKeys THEN ~s.brk ELSE s.shift,
     typed |-> IF byte \in CharKeys /\ ~s.brk THEN Append(s.typed, <<byte, s.shift>>) ELSE s.typed,
     ups |-> IF byte \in OtherKeys /\ s.brk THEN s.ups + 1 ELSE s.ups]

Starts(s, t) == Len(s) <= Len(t) /\ \A n \in 1..Len(s) : s[n] = t[n]

(* Reading w leads from s to e. *)
Leads(w, s, e) ==
    \E a \in [1..(Len(w) + 1) -> Decoded] :
        /\ a[1] = s /\ a[Len(w) + 1] = e
        /\ \A n \in 1..Len(w) : a[n + 1] = Meant(a[n], w[n])
        /\ \A n \in 1..(Len(w) + 1) : Starts(a[n].typed, e.typed) /\ a[n].ups <= e.ups

(* e is what the user did: the case of a character is known only as long   *)
(* as the two shift keys were not down together.                           *)
Done(e) ==
    /\ ~e.brk /\ e.ups = ups
    /\ Len(e.typed) = Len(typed)
    /\ \A n \in 1..Len(typed) : e.typed[n][1] = typed[n][1]
    /\ ~both => /\ e.typed = typed
                /\ e.shift <=> held \cap ShiftKeys # {}
                /\ \A j, k \in held \cap ShiftKeys : j = k

(* The characters cs are among ts, in order, without regard to shift. *)
Placed(cs, ts) ==
    \E place \in [1..Len(cs) -> 1..Len(ts)] :
        /\ \A m, n \in 1..Len(cs) : m < n => place[m] < place[n]
        /\ \A n \in 1..Len(cs) : cs[n][1] = ts[place[n]][1]

(* A character is lost to a full buffer or to a key let go that the driver *)
(* does not know; a release that belongs to no break code will lose one.   *)
Excused(s) ==
    /\ Len(s.typed) <= Len(chars) + lost_to_full + s.ups
    /\ release /\ ~s.brk => Len(s.typed) < Len(chars) + lost_to_full + s.ups

Exact(s) ==
    s.ups = 0 /\ lost_to_full = 0 => /\ release => s.brk
                                     /\ chars = s.typed
                                     /\ s.shift <=> "shift" \in mod_state

(* The driver has read what led to s. *)
Heard(s) ==
    /\ s.brk => release
    /\ Placed(chars, s.typed)
    /\ Excused(s)
    /\ Exact(s)

Accounted == \E s, e \in Decoded : Heard(s) /\ Leads(Stream, s, e) /\ Done(e)

(* The driver's next answer is none: it fails when it reads it. *)
Doomed == \/ obf \notin Answers \cup {None}
          \/ obf = None /\ out # << >> /\ out[1] \notin Answers

(* Keys pressed before the keyboard has reset, and flushed by configure,   *)
(* are not accounted for.  The self test's byte behind the answer to the   *)
(* reset must have been forgotten for the next command to succeed, and the *)
(* account starts there.                                                   *)
BootOrder == pc \in {"configure", "self_test", "port_test"} => cmd = 1
ResetAnswer ==
    pc = "read" /\ cmd = 1 => /\ obf = ACK => out # << >>
                              /\ \A n \in 1..Len(out) : out[n] = ACK => n < Len(out)
Settling == pc \in {"write", "read"} /\ cmd > 1 => Accounted \/ Doomed
Listening == pc \in {"set_handler", "clear_mask", "ready"} => Accounted

Arriving == BootOrder /\ ResetAnswer /\ Settling /\ Listening

(* The handler does not run before the line is unmasked. *)
Unheard ==
    pc # "ready" => /\ masked /\ ~in_service
                    /\ ~release /\ mod_state = {} /\ chars = << >> /\ lost_to_full = 0

-----------------------------------------------------------------------------
LEMMA CharacterMade ==
  ASSUME NEW k \in CharKeys, NEW c
  PROVE  c \in BOOLEAN => <<k, c>> \in Characters
BY Zenon DEF Characters

LEMMA DecodedFields ==
  ASSUME NEW s \in Decoded
  PROVE  /\ s.brk \in BOOLEAN /\ s.shift \in BOOLEAN
         /\ s.typed \in Seq(Characters) /\ s.ups \in Nat
BY DEF Decoded

LEMMA DecodedMade ==
  ASSUME NEW b \in BOOLEAN, NEW h \in BOOLEAN, NEW t \in Seq(Characters), NEW u \in Nat
  PROVE  [brk |-> b, shift |-> h, typed |-> t, ups |-> u] \in Decoded
BY Zenon DEF Decoded

LEMMA StartsFacts ==
  ASSUME NEW s \in Seq(Characters)
  PROVE  /\ Starts(s, s)
         /\ \A c \in Characters : /\ Append(s, c) \in Seq(Characters)
                                  /\ Len(Append(s, c)) = Len(s) + 1
                                  /\ Append(s, c)[Len(s) + 1] = c
                                  /\ \A n \in 1..Len(s) : Append(s, c)[n] = s[n]
                                  /\ Starts(s, Append(s, c))
         /\ \A t, v \in Seq(Characters) : Starts(s, t) /\ Starts(t, v) => Starts(s, v)
<1>1. Len(s) \in Nat
  OBVIOUS
<1>2. Starts(s, s)
  BY <1>1 DEF Starts
<1>3. ASSUME NEW c \in Characters
      PROVE  /\ Append(s, c) \in Seq(Characters)
             /\ Len(Append(s, c)) = Len(s) + 1
             /\ Append(s, c)[Len(s) + 1] = c
             /\ \A n \in 1..Len(s) : Append(s, c)[n] = s[n]
             /\ Starts(s, Append(s, c))
  <2>1. /\ Append(s, c) \in Seq(Characters)
        /\ Len(Append(s, c)) = Len(s) + 1
        /\ Append(s, c)[Len(s) + 1] = c
        /\ \A n \in 1..Len(s) : Append(s, c)[n] = s[n]
    BY AppendProperties
  <2> QED
    BY <1>1, <2>1 DEF Starts
<1>4. ASSUME NEW t \in Seq(Characters), NEW v \in Seq(Characters), Starts(s, t), Starts(t, v)
      PROVE  Starts(s, v)
  <2>1. Len(s) \in Nat /\ Len(t) \in Nat /\ Len(v) \in Nat
    OBVIOUS
  <2>2. \A n \in 1..Len(s) : n \in 1..Len(t)
    BY <1>4, <2>1 DEF Starts
  <2> QED
    BY <1>4, <2>1, <2>2 DEF Starts
<1> QED
  BY <1>2, <1>3, <1>4, Zenon

(* A byte read adds at most to what was read. *)
LEMMA MeantFacts ==
  ASSUME NEW s \in Decoded, NEW byte
  PROVE  /\ Meant(s, byte) \in Decoded
         /\ Starts(s.typed, Meant(s, byte).typed)
         /\ s.ups <= Meant(s, byte).ups
<1> DEFINE b == byte = BREAK \/ (byte \notin Keys /\ s.brk)
           h == IF byte \in ShiftKeys THEN ~s.brk ELSE s.shift
           t == IF byte \in CharKeys /\ ~s.brk THEN Append(s.typed, <<byte, s.shift>>) ELSE s.typed
           u == IF byte \in OtherKeys /\ s.brk THEN s.ups + 1 ELSE s.ups
<1>1. s.brk \in BOOLEAN /\ s.shift \in BOOLEAN /\ s.typed \in Seq(Characters) /\ s.ups \in Nat
  BY DecodedFields
<1>2. b \in BOOLEAN
  BY <1>1, Zenon
<1>3. h \in BOOLEAN
  BY <1>1, Zenon
<1>4. t \in Seq(Characters) /\ Starts(s.typed, t)
  <2>1. CASE byte \in CharKeys /\ ~s.brk
    <3>1. <<byte, s.shift>> \in Characters
      BY <1>1, <2>1, CharacterMade, Zenon
    <3> QED
      BY <1>1, <2>1, <3>1, StartsFacts, Zenon
  <2>2. CASE ~(byte \in CharKeys /\ ~s.brk)
    BY <1>1, <2>2, StartsFacts, Zenon
  <2> QED
    BY <2>1, <2>2
<1>5. u \in Nat /\ s.ups <= u
  BY <1>1
<1>6. Meant(s, byte) = [brk |-> b, shift |-> h, typed |-> t, ups |-> u]
  BY Zenon DEF Meant
<1> HIDE DEF b, h, t, u
<1>7. Meant(s, byte) \in Decoded
  BY <1>2, <1>3, <1>4, <1>5, <1>6, DecodedMade, Zenon
<1>8. Meant(s, byte).typed = t /\ Meant(s, byte).ups = u
  BY <1>6
<1> QED
  BY <1>4, <1>5, <1>7, <1>8

LEMMA MeantFields ==
  ASSUME NEW s, NEW byte
  PROVE  /\ Meant(s, byte).brk = (byte = BREAK \/ (byte \notin Keys /\ s.brk))
         /\ Meant(s, byte).shift = IF byte \in ShiftKeys THEN ~s.brk ELSE s.shift
         /\ Meant(s, byte).typed = IF byte \in CharKeys /\ ~s.brk
                                     THEN Append(s.typed, <<byte, s.shift>>) ELSE s.typed
         /\ Meant(s, byte).ups = IF byte \in OtherKeys /\ s.brk THEN s.ups + 1 ELSE s.ups
BY DEF Meant

LEMMA LeadsEnds ==
  ASSUME NEW w \in Seq(Bytes), NEW s, NEW e, Leads(w, s, e)
  PROVE  s \in Decoded /\ e \in Decoded /\ Starts(s.typed, e.typed) /\ s.ups <= e.ups
<1>1. Len(w) \in Nat
  OBVIOUS
<1>2. PICK a \in [1..(Len(w) + 1) -> Decoded] :
        /\ a[1] = s /\ a[Len(w) + 1] = e
        /\ \A n \in 1..(Len(w) + 1) : Starts(a[n].typed, e.typed) /\ a[n].ups <= e.ups
  BY DEF Leads
<1>3. 1 \in 1..(Len(w) + 1) /\ Len(w) + 1 \in 1..(Len(w) + 1)
  BY <1>1
<1> QED
  BY <1>2, <1>3

LEMMA LeadsNowhere ==
  ASSUME NEW s \in Decoded
  PROVE  Leads(<< >>, s, s)
<1> DEFINE a == [n \in 1..(Len(<< >>) + 1) |-> s]
<1>1. Len(<< >>) = 0
  OBVIOUS
<1>2. a \in [1..(Len(<< >>) + 1) -> Decoded] /\ a[1] = s /\ a[Len(<< >>) + 1] = s
  BY <1>1
<1>3. \A n \in 1..Len(<< >>) : FALSE
  BY <1>1
<1>4. \A n \in 1..(Len(<< >>) + 1) : a[n] = s
  OBVIOUS
<1>5. Starts(s.typed, s.typed) /\ s.ups <= s.ups
  BY DecodedFields, StartsFacts
<1> HIDE DEF a
<1> QED
  BY <1>2, <1>3, <1>4, <1>5, Zenon DEF Leads

LEMMA LeadsEmpty ==
  ASSUME NEW s, NEW e, Leads(<< >>, s, e)
  PROVE  s = e
<1>1. Len(<< >>) = 0
  OBVIOUS
<1> QED
  BY <1>1 DEF Leads

(* One byte more at the end ... *)
LEMMA LeadsFurther ==
  ASSUME NEW w \in Seq(Bytes), NEW byte \in Bytes, NEW s, NEW e, Leads(w, s, e)
  PROVE  Leads(w \o <<byte>>, s, Meant(e, byte))
<1> DEFINE v == w \o <<byte>>
           f == Meant(e, byte)
<1>1. Len(w) \in Nat /\ Len(v) = Len(w) + 1 /\ v[Len(w) + 1] = byte
      /\ \A n \in 1..Len(w) : v[n] = w[n]
  BY SingleFacts, ConcatProperties
<1>2. PICK a \in [1..(Len(w) + 1) -> Decoded] :
        /\ a[1] = s /\ a[Len(w) + 1] = e
        /\ \A n \in 1..Len(w) : a[n + 1] = Meant(a[n], w[n])
        /\ \A n \in 1..(Len(w) + 1) : Starts(a[n].typed, e.typed) /\ a[n].ups <= e.ups
  BY DEF Leads
<1>3. e \in Decoded /\ f \in Decoded /\ Starts(e.typed, f.typed) /\ e.ups <= f.ups
  BY LeadsEnds, MeantFacts
<1> DEFINE c == [n \in 1..(Len(v) + 1) |-> IF n <= Len(w) + 1 THEN a[n] ELSE f]
<1> HIDE DEF v, f
<1>4. c \in [1..(Len(v) + 1) -> Decoded]
  BY <1>1, <1>2, <1>3
<1>5. /\ \A n \in 1..(Len(w) + 1) : c[n] = a[n]
      /\ c[Len(v) + 1] = f
  BY <1>1
<1> HIDE DEF c
<1>6. c[1] = s
  BY <1>1, <1>2, <1>5
<1>7. ASSUME NEW n \in 1..Len(v) PROVE c[n + 1] = Meant(c[n], v[n])
  <2>1. CASE n \in 1..Len(w)
    <3>1. n \in 1..(Len(w) + 1) /\ n + 1 \in 1..(Len(w) + 1)
      BY <1>1, <2>1
    <3> QED
      BY <1>1, <1>2, <1>5, <2>1, <3>1, Zenon
  <2>2. CASE n = Len(w) + 1
    <3>1. n + 1 = Len(v) + 1 /\ n \in 1..(Len(w) + 1) /\ v[n] = byte /\ c[n] = e
      BY <1>1, <1>2, <1>5, <2>2
    <3> QED
      BY <1>5, <3>1, Zenon DEF f
  <2> QED
    BY <1>1, <2>1, <2>2
<1>8. ASSUME NEW n \in 1..(Len(v) + 1) PROVE Starts(c[n].typed, f.typed) /\ c[n].ups <= f.ups
  <2>1. CASE n \in 1..(Len(w) + 1)
    <3>1. a[n] \in Decoded /\ Starts(a[n].typed, e.typed) /\ a[n].ups <= e.ups /\ c[n] = a[n]
      BY <1>2, <1>5, <2>1
    <3>2. Starts(a[n].typed, f.typed)
      <4>1. a[n].typed \in Seq(Characters) /\ e.typed \in Seq(Characters) /\ f.typed \in Seq(Characters)
        BY <1>3, <3>1, DecodedFields
      <4> QED
        BY <1>3, <3>1, <4>1, StartsFacts
    <3>3. a[n].ups \in Nat /\ e.ups \in Nat /\ f.ups \in Nat
      BY <1>3, <3>1, DecodedFields
    <3> QED
      BY <1>3, <3>1, <3>2, <3>3
  <2>2. CASE n = Len(v) + 1
    <3>1. Starts(f.typed, f.typed) /\ f.ups <= f.ups
      BY <1>3, DecodedFields, StartsFacts
    <3> QED
      BY <1>5, <2>2, <3>1
  <2> QED
    BY <1>1, <2>1, <2>2
<1>9. Leads(v, s, f)
  BY <1>4, <1>5, <1>6, <1>7, <1>8, Zenon DEF Leads
<1> QED
  BY <1>9 DEF v, f

(* ... and one less at the front. *)
LEMMA LeadsRest ==
  ASSUME NEW w \in Seq(Bytes), NEW byte \in Bytes, NEW s, NEW e, Leads(<<byte>> \o w, s, e)
  PROVE  Leads(w, Meant(s, byte), e)
<1> DEFINE v == <<byte>> \o w
<1>1. Len(w) \in Nat /\ Len(v) = Len(w) + 1 /\ v[1] = byte
      /\ \A n \in 1..Len(w) : v[n + 1] = w[n]
  <2>1. /\ Len(<<byte>>) = 1 /\ <<byte>>[1] = byte /\ <<byte>> \in Seq(Bytes)
        /\ Len(w) \in Nat /\ Len(v) = Len(<<byte>>) + Len(w)
        /\ \A n \in 1..(Len(<<byte>>) + Len(w)) :
              v[n] = IF n <= Len(<<byte>>) THEN <<byte>>[n] ELSE w[n - Len(<<byte>>)]
    BY SingleFacts, ConcatProperties
  <2> HIDE DEF v
  <2>2. ASSUME NEW n \in 1..Len(w) PROVE v[n + 1] = w[n]
    <3>1. n + 1 \in 1..(1 + Len(w)) /\ ~(n + 1 <= 1) /\ (n + 1) - 1 = n
      BY <2>1
    <3> QED
      BY <2>1, <3>1
  <2> QED
    BY <2>1, <2>2
<1>2. Leads(v, s, e)
  OBVIOUS
<1> HIDE DEF v
<1>3. PICK a \in [1..(Len(v) + 1) -> Decoded] :
        /\ a[1] = s /\ a[Len(v) + 1] = e
        /\ \A n \in 1..Len(v) : a[n + 1] = Meant(a[n], v[n])
        /\ \A n \in 1..(Len(v) + 1) : Starts(a[n].typed, e.typed) /\ a[n].ups <= e.ups
  BY <1>2 DEF Leads
<1> DEFINE c == [n \in 1..(Len(w) + 1) |-> a[n + 1]]
<1>4. \A n \in 1..(Len(w) + 1) : c[n] = a[n + 1] /\ n + 1 \in 1..(Len(v) + 1)
  BY <1>1
<1>5. c \in [1..(Len(w) + 1) -> Decoded]
  BY <1>3, <1>4
<1> HIDE DEF c
<1>6. c[1] = Meant(s, byte) /\ c[Len(w) + 1] = e
  BY <1>1, <1>3, <1>4
<1>7. ASSUME NEW n \in 1..Len(w) PROVE c[n + 1] = Meant(c[n], w[n])
  <2>1. n \in 1..(Len(w) + 1) /\ n + 1 \in 1..(Len(w) + 1) /\ n + 1 \in 1..Len(v)
    BY <1>1
  <2> QED
    BY <1>1, <1>3, <1>4, <2>1, Zenon
<1>8. \A n \in 1..(Len(w) + 1) : Starts(c[n].typed, e.typed) /\ c[n].ups <= e.ups
  BY <1>3, <1>4
<1> QED
  BY <1>5, <1>6, <1>7, <1>8, Zenon DEF Leads

-----------------------------------------------------------------------------
LEMMA ByteClasses ==
  /\ BREAK \notin Keys /\ E0 \notin Keys /\ E0 # BREAK
  /\ \A r \in Answers : r \notin Keys /\ r # BREAK /\ r \in Bytes
  /\ CharKeys \subseteq Keys /\ ShiftKeys \subseteq Keys /\ OtherKeys \subseteq Keys
  /\ \A k \in CharKeys : k \notin ShiftKeys /\ k \notin OtherKeys
  /\ \A k \in ShiftKeys : k \notin OtherKeys
  /\ \A k \in Keys : k \in CharKeys \/ k \in ShiftKeys \/ k \in OtherKeys
BY DEF Keys, Answers, Bytes, BREAK, E0, ACK, RESEND, SELF_TEST, None

LEMMA StreamType ==
  ASSUME TypeOK
  PROVE  Stream \in Seq(Bytes) /\ out \in Seq(Bytes) /\ obf \in Bytes \cup {None}
<1>1. out \in Seq(Bytes) /\ obf \in Bytes \cup {None}
  BY TypeSplit DEF TypeDevice, TypeController
<1>2. obf # None => <<obf>> \in Seq(Bytes)
  BY <1>1, SingleFacts
<1> QED
  BY <1>1, <1>2, QuietConcat DEF Stream

LEMMA StreamGrows ==
  ASSUME TypeOK, NEW t \in Seq(Bytes), out' = out \o t, obf' = obf
  PROVE  Stream' = Stream \o t
<1>1. out \in Seq(Bytes) /\ (obf # None => <<obf>> \in Seq(Bytes))
  BY StreamType, SingleFacts
<1>2. CASE obf = None
  BY <1>2 DEF Stream
<1>3. CASE obf # None
  <2>1. (<<obf>> \o out) \o t = <<obf>> \o (out \o t)
    BY <1>1, <1>3, ConcatAssociative
  <2> QED
    BY <1>3, <2>1 DEF Stream
<1> QED
  BY <1>2, <1>3

LEMMA StreamTaken ==
  ASSUME TypeOK, obf # None, obf' = None, out' = out
  PROVE  Stream = <<obf>> \o Stream' /\ Stream' \in Seq(Bytes) /\ obf \in Bytes
BY StreamType DEF Stream

LEMMA StreamMoves ==
  ASSUME TypeOK, device_send
  PROVE  Stream' = Stream
<1>1. out \in Seq(Bytes) /\ out # << >> /\ obf = None /\ obf' = Head(out) /\ out' = Tail(out)
  BY StreamType DEF device_send
<1>2. Head(out) \in Bytes /\ Head(out) # None
  BY <1>1, HeadTailProperties, ByteFacts
<1>3. <<Head(out)>> \o Tail(out) = out
  <2> DEFINE h == <<Head(out)>>
             v == h \o Tail(out)
  <2>1. /\ h \in Seq(Bytes) /\ Len(h) = 1 /\ h[1] = Head(out)
        /\ Tail(out) \in Seq(Bytes) /\ Len(Tail(out)) = Len(out) - 1
        /\ \A n \in 1..Len(Tail(out)) : Tail(out)[n] = out[n + 1]
        /\ Len(out) \in Nat \ {0} /\ Head(out) = out[1]
    BY <1>1, <1>2, SingleFacts, HeadTailProperties, EmptySeq
  <2> HIDE DEF h
  <2>2. /\ v \in Seq(Bytes) /\ Len(v) = Len(h) + Len(Tail(out))
        /\ \A n \in 1..(Len(h) + Len(Tail(out))) :
              v[n] = IF n <= Len(h) THEN h[n] ELSE Tail(out)[n - Len(h)]
    <3>1. h \in Seq(Bytes) /\ Tail(out) \in Seq(Bytes)
      BY <2>1
    <3> QED
      BY <3>1, ConcatProperties
  <2> HIDE DEF v
  <2>3. Len(v) = Len(out)
    BY <2>1, <2>2
  <2>4. ASSUME NEW n \in 1..Len(v) PROVE v[n] = out[n]
    <3>1. CASE n = 1
      BY <2>1, <2>2, <3>1
    <3>2. CASE n # 1
      <4>1. n - 1 \in 1..Len(Tail(out)) /\ ~(n <= 1) /\ (n - 1) + 1 = n
        BY <2>1, <2>2, <3>2
      <4> QED
        BY <2>1, <2>2, <4>1
    <3> QED
      BY <3>1, <3>2
  <2>5. v = out
    BY <1>1, <2>2, <2>3, <2>4, SeqEqual
  <2> QED
    BY <2>5 DEF v, h
<1> QED
  BY <1>1, <1>2, <1>3 DEF Stream

-----------------------------------------------------------------------------
Same(d, e) == d.brk = e.brk /\ d.shift = e.shift /\ d.typed = e.typed /\ d.ups = e.ups

(* Answers and E0 mean nothing. *)
LEMMA MeantNothing ==
  ASSUME NEW e, NEW byte, byte \notin Keys, byte # BREAK, e.brk \in BOOLEAN
  PROVE  Same(Meant(e, byte), e)
<1>1. byte \notin ShiftKeys /\ byte \notin CharKeys /\ byte \notin OtherKeys
  BY ByteClasses
<1>2. Meant(e, byte).brk = e.brk
  <2>1. Meant(e, byte).brk = (byte = BREAK \/ (byte \notin Keys /\ e.brk))
    BY MeantFields
  <2>2. CASE e.brk = TRUE
    BY <2>1, <2>2, Zenon
  <2>3. CASE e.brk = FALSE
    BY <2>1, <2>3, Zenon
  <2> QED
    BY <2>2, <2>3, Zenon
<1>3. /\ Meant(e, byte).shift = e.shift /\ Meant(e, byte).typed = e.typed
      /\ Meant(e, byte).ups = e.ups
  BY <1>1, MeantFields
<1> QED
  BY <1>2, <1>3 DEF Same

LEMMA SameDone ==
  ASSUME NEW d, NEW e, Same(d, e), Done(e)
  PROVE  Done(d)
BY DEF Same, Done

LEMMA SameHeard ==
  ASSUME NEW d, NEW e, Same(d, e), Heard(e)
  PROVE  Heard(d)
<1>1. d.brk = e.brk /\ d.shift = e.shift /\ d.typed = e.typed /\ d.ups = e.ups
  BY DEF Same
<1>2. (d.brk => release) /\ Placed(chars, d.typed)
  BY <1>1, Zenon DEF Heard
<1>3. Excused(d)
  BY <1>1, Zenon DEF Heard, Excused
<1>4. Exact(d)
  BY <1>1, Zenon DEF Heard, Exact
<1> QED
  BY <1>2, <1>3, <1>4, Zenon DEF Heard

LEMMA LeadsPrefix ==
  ASSUME NEW w \in Seq(Bytes), NEW s, NEW e, Leads(w, s, e), NEW k \in Keys
  PROVE  \E d \in Decoded : Same(d, e) /\ Leads(w \o Prefix(k), s, d)
<1>1. e \in Decoded /\ e.brk \in BOOLEAN
  BY LeadsEnds, DecodedFields
<1>2. CASE k \in Extended
  <2>1. Leads(w \o <<E0>>, s, Meant(e, E0))
    BY LeadsFurther, ByteFacts
  <2>2. Same(Meant(e, E0), e) /\ Meant(e, E0) \in Decoded
    BY <1>1, MeantNothing, MeantFacts, ByteClasses
  <2> QED
    BY <1>2, <2>1, <2>2 DEF Prefix
<1>3. CASE k \notin Extended
  <2>1. w \o << >> = w
    BY ConcatEmptySeq
  <2> QED
    BY <1>1, <1>3, <2>1 DEF Prefix, Same
<1> QED
  BY <1>2, <1>3

-----------------------------------------------------------------------------
(* What a key pressed adds to the account. *)
LEMMA PressDone ==
  ASSUME TypeOK, NEW k \in Keys, press(k), NEW e \in Decoded, Done(e)
  PROVE  Done(Meant(e, k))'
<1> DEFINE d == Meant(e, k)
<1>1. /\ e.brk = FALSE /\ e.shift \in BOOLEAN /\ e.typed \in Seq(Characters)
      /\ typed \in Seq(Characters) /\ ups' = ups /\ both \in BOOLEAN
  <2>1. e.brk = FALSE
    BY DecodedFields, Zenon DEF Done
  <2>2. typed \in Seq(Characters) /\ both \in BOOLEAN
    BY TypeSplit, Zenon DEF TypeUser
  <2> QED
    BY <2>1, <2>2, DecodedFields, Zenon DEF press
<1>2. k # BREAK
  BY ByteClasses
<1>3. /\ ~d.brk /\ d.ups = e.ups
      /\ d.shift = IF k \in ShiftKeys THEN TRUE ELSE e.shift
      /\ d.typed = IF k \in CharKeys THEN Append(e.typed, <<k, e.shift>>) ELSE e.typed
  <2>1. ~d.brk
    BY <1>1, <1>2, MeantFields
  <2>2. d.shift = IF k \in ShiftKeys THEN TRUE ELSE e.shift
    BY <1>1, MeantFields, Zenon
  <2>3. d.ups = e.ups /\ d.typed = IF k \in CharKeys THEN Append(e.typed, <<k, e.shift>>) ELSE e.typed
    BY <1>1, MeantFields, Zenon
  <2> QED
    BY <2>1, <2>2, <2>3
<1> DEFINE case == held \cap ShiftKeys # {}
<1>4. typed' = IF k \in CharKeys THEN Append(typed, <<k, case>>) ELSE typed
  BY DEF press
<1>5. case \in BOOLEAN
  BY Zenon
<1>6. ~both' => ~both /\ \A j, l \in held' \cap ShiftKeys : j = l
  BY Zenon DEF press
<1>7. held' = held \cup {k}
  BY DEF press
<1>8. ~both => e.typed = typed /\ e.shift = case
  BY <1>1, <1>5, Zenon DEF Done
<1>9. (k \in ShiftKeys => held' \cap ShiftKeys # {}) /\ (k \notin ShiftKeys => held' \cap ShiftKeys = held \cap ShiftKeys)
  BY <1>7, Zenon
<1>10. ~both' => (d.shift <=> held' \cap ShiftKeys # {})
  BY <1>3, <1>6, <1>8, <1>9, Zenon
<1> HIDE DEF d, case
<1>11. ~both' => d.typed = typed'
  BY <1>3, <1>4, <1>6, <1>8, Zenon
<1>12. Len(d.typed) = Len(typed') /\ \A n \in 1..Len(typed') : d.typed[n][1] = typed'[n][1]
  <2>1. Len(e.typed) = Len(typed) /\ (\A n \in 1..Len(typed) : e.typed[n][1] = typed[n][1]) /\ Len(typed) \in Nat
    BY <1>1 DEF Done
  <2>2. CASE k \in CharKeys
    <3>1. <<k, e.shift>> \in Characters /\ <<k, case>> \in Characters
      BY <1>1, <1>5, <2>2, CharacterMade, Zenon
    <3>2. /\ Len(d.typed) = Len(e.typed) + 1 /\ d.typed[Len(e.typed) + 1] = <<k, e.shift>>
          /\ \A n \in 1..Len(e.typed) : d.typed[n] = e.typed[n]
      <4>1. d.typed = Append(e.typed, <<k, e.shift>>)
        BY <1>3, <2>2, Zenon
      <4> QED
        BY <1>1, <3>1, <4>1, StartsFacts
    <3>3. /\ Len(typed') = Len(typed) + 1 /\ typed'[Len(typed) + 1] = <<k, case>>
          /\ \A n \in 1..Len(typed) : typed'[n] = typed[n]
      <4>1. typed' = Append(typed, <<k, case>>)
        BY <1>4, <2>2, Zenon
      <4> QED
        BY <1>1, <3>1, <4>1, StartsFacts
    <3>4. <<k, e.shift>>[1] = k /\ <<k, case>>[1] = k
      OBVIOUS
    <3>5. \A n \in 1..Len(typed') : n \in 1..Len(typed) \/ n = Len(typed) + 1
      BY <2>1, <3>3
    <3> QED
      BY <2>1, <3>2, <3>3, <3>4, <3>5
  <2>3. CASE k \notin CharKeys
    BY <1>3, <1>4, <2>1, <2>3
  <2> QED
    BY <2>2, <2>3
<1>13. d.ups = ups'
  BY <1>1, <1>3 DEF Done
<1>14. Done(d)'
  BY <1>3, <1>6, <1>10, <1>11, <1>12, <1>13, Zenon DEF Done
<1> QED
  BY <1>14 DEF d

LEMMA LetGoDone ==
  ASSUME TypeOK, NEW k \in Keys, let_go(k), NEW e \in Decoded, Done(e)
  PROVE  Done(Meant(Meant(e, BREAK), k))'
<1> DEFINE c == Meant(e, BREAK)
           d == Meant(c, k)
<1>1. c.brk = TRUE /\ c.shift = e.shift /\ c.typed = e.typed /\ c.ups = e.ups
  <2>1. BREAK \notin ShiftKeys /\ BREAK \notin CharKeys /\ BREAK \notin OtherKeys
    BY ByteClasses
  <2>2. c.brk = TRUE
    BY MeantFields, Zenon
  <2> QED
    BY <2>1, <2>2, MeantFields
<1> HIDE DEF c
<1>2. k # BREAK
  BY ByteClasses
<1>a. /\ d.brk = (k = BREAK \/ (k \notin Keys /\ c.brk))
      /\ d.shift = IF k \in ShiftKeys THEN ~c.brk ELSE c.shift
      /\ d.typed = IF k \in CharKeys /\ ~c.brk THEN Append(c.typed, <<k, c.shift>>) ELSE c.typed
      /\ d.ups = IF k \in OtherKeys /\ c.brk THEN c.ups + 1 ELSE c.ups
  BY MeantFields
<1>3. ~d.brk
  BY <1>2, <1>a, Zenon
<1>4. d.shift = (IF k \in ShiftKeys THEN FALSE ELSE e.shift)
  BY <1>1, <1>a, Zenon
<1>5. d.typed = e.typed /\ d.ups = (IF k \in OtherKeys THEN e.ups + 1 ELSE e.ups)
  BY <1>1, <1>a, Zenon
<1> HIDE DEF d
<1>6. /\ typed' = typed /\ both' = both /\ held' = held \ {k} /\ k \in held
      /\ ups' = ups + IF k \in OtherKeys THEN 1 ELSE 0
  BY DEF let_go
<1>7. d.ups = ups'
  BY <1>5, <1>6, TypeSplit DEF Done, TypeUser
<1>8. ASSUME ~both' PROVE d.shift <=> held' \cap ShiftKeys # {}
  <2>1. e.shift <=> held \cap ShiftKeys # {}
    BY <1>6, <1>8, Zenon DEF Done
  <2>2. \A j, l \in held \cap ShiftKeys : j = l
    BY <1>6, <1>8, Zenon DEF Done
  <2>3. CASE k \in ShiftKeys
    <3>1. held' \cap ShiftKeys = {}
      <4>1. ASSUME NEW j \in held' \cap ShiftKeys PROVE FALSE
        BY <1>6, <2>2, <2>3, <4>1
      <4> QED
        BY <4>1, Zenon
    <3> QED
      BY <1>4, <2>3, <3>1, Zenon
  <2>4. CASE k \notin ShiftKeys
    <3>1. held' \cap ShiftKeys = held \cap ShiftKeys
      BY <1>6, <2>4, Zenon
    <3> QED
      BY <1>4, <2>1, <2>4, <3>1, Zenon
  <2> QED
    BY <2>3, <2>4
<1>9. ~both' => \A j, l \in held' \cap ShiftKeys : j = l
  BY <1>6, Zenon DEF Done
<1>10. ~both' => d.typed = typed'
  BY <1>5, <1>6, Zenon DEF Done
<1>11. Len(d.typed) = Len(typed') /\ \A n \in 1..Len(typed') : d.typed[n][1] = typed'[n][1]
  BY <1>5, <1>6, Zenon DEF Done
<1>12. Done(d)'
  BY <1>3, <1>7, <1>8, <1>9, <1>10, <1>11, Zenon DEF Done
<1> QED
  BY <1>12 DEF c, d

-----------------------------------------------------------------------------
AccountVars == <<release, mod_state, chars, lost_to_full, held, typed, ups, both>>

LEMMA HeardKept ==
  ASSUME NEW s, Heard(s), UNCHANGED <<release, mod_state, chars, lost_to_full>>
  PROVE  Heard(s)'
<1>1. Placed(chars, s.typed)' /\ Excused(s)' /\ Exact(s)'
  BY Zenon DEF Heard, Placed, Excused, Exact
<1> QED
  BY <1>1, Zenon DEF Heard

LEMMA DoneKept ==
  ASSUME NEW e, Done(e), UNCHANGED <<held, typed, ups, both>>
  PROVE  Done(e)'
BY Zenon DEF Done

LEMMA AccountKept ==
  ASSUME Accounted, Stream' = Stream, UNCHANGED AccountVars
  PROVE  Accounted'
<1>1. PICK s, e \in Decoded : Heard(s) /\ Leads(Stream, s, e) /\ Done(e)
  BY DEF Accounted
<1>2. Heard(s)'
  BY <1>1, HeardKept, Zenon DEF AccountVars
<1>3. Done(e)'
  BY <1>1, DoneKept, Zenon DEF AccountVars
<1>4. Leads(Stream', s, e)
  BY <1>1
<1> QED
  BY <1>2, <1>3, <1>4, Zenon DEF Accounted

LEMMA AccountPress ==
  ASSUME TypeOK, NEW k \in Keys, press(k), Accounted
  PROVE  Accounted'
<1>1. PICK s, e \in Decoded : Heard(s) /\ Leads(Stream, s, e) /\ Done(e)
  BY DEF Accounted
<1>2. Stream \in Seq(Bytes) /\ out \in Seq(Bytes) /\ Prefix(k) \in Seq(Bytes) /\ <<k>> \in Seq(Bytes)
  BY StreamType, KeyBytes
<1>3. Stream' = (Stream \o Prefix(k)) \o <<k>>
  <2>1. Prefix(k) \o <<k>> \in Seq(Bytes)
    BY <1>2, QuietConcat
  <2>2. out' = out \o (Prefix(k) \o <<k>>) /\ obf' = obf
    <3>1. out' = (out \o Prefix(k)) \o <<k>> /\ obf' = obf
      BY DEF press, controller
    <3> QED
      BY <1>2, <3>1, ConcatAssociative
  <2>3. Stream' = Stream \o (Prefix(k) \o <<k>>)
    BY <2>1, <2>2, StreamGrows
  <2> QED
    BY <1>2, <2>3, ConcatAssociative
<1>4. PICK d \in Decoded : Same(d, e) /\ Leads(Stream \o Prefix(k), s, d)
  BY <1>1, <1>2, LeadsPrefix
<1>5. Leads(Stream', s, Meant(d, k))
  BY <1>2, <1>3, <1>4, LeadsFurther, QuietConcat, ByteFacts
<1>6. Done(Meant(d, k))'
  BY <1>1, <1>4, SameDone, PressDone
<1>7. Heard(s)'
  BY <1>1, HeardKept DEF press, handler
<1>8. Meant(d, k) \in Decoded
  BY <1>4, MeantFacts
<1> QED
  BY <1>5, <1>6, <1>7, <1>8, Zenon DEF Accounted

LEMMA AccountLetGo ==
  ASSUME TypeOK, NEW k \in Keys, let_go(k), Accounted
  PROVE  Accounted'
<1>1. PICK s, e \in Decoded : Heard(s) /\ Leads(Stream, s, e) /\ Done(e)
  BY DEF Accounted
<1>2. /\ Stream \in Seq(Bytes) /\ out \in Seq(Bytes) /\ Prefix(k) \in Seq(Bytes)
      /\ <<k>> \in Seq(Bytes) /\ <<BREAK>> \in Seq(Bytes) /\ BREAK \in Bytes /\ k \in Bytes
      /\ <<BREAK, k>> \in Seq(Bytes)
  BY StreamType, KeyBytes, ByteFacts, SingleFacts
<1> DEFINE w == Stream \o Prefix(k)
<1>3. w \in Seq(Bytes) /\ w \o <<BREAK>> \in Seq(Bytes)
  BY <1>2, QuietConcat
<1>4. Stream' = (w \o <<BREAK>>) \o <<k>>
  <2>1. Prefix(k) \o <<BREAK, k>> \in Seq(Bytes)
    BY <1>2, QuietConcat
  <2>2. out' = out \o (Prefix(k) \o <<BREAK, k>>) /\ obf' = obf
    <3>1. out' = (out \o Prefix(k)) \o <<BREAK, k>> /\ obf' = obf
      BY DEF let_go, controller
    <3>2. (out \o Prefix(k)) \o <<BREAK, k>> = out \o (Prefix(k) \o <<BREAK, k>>)
      BY <1>2, ConcatAssociative
    <3> QED
      BY <3>1, <3>2
  <2>3. Stream' = Stream \o (Prefix(k) \o <<BREAK, k>>)
    BY <2>1, <2>2, StreamGrows
  <2>4. Stream' = w \o <<BREAK, k>>
    BY <1>2, <2>3, ConcatAssociative
  <2>5. <<BREAK, k>> = <<BREAK>> \o <<k>>
    OBVIOUS
  <2> HIDE DEF w
  <2> QED
    BY <1>2, <1>3, <2>4, <2>5, ConcatAssociative
<1>5. PICK d \in Decoded : Same(d, e) /\ Leads(w, s, d)
  BY <1>1, <1>2, LeadsPrefix
<1> HIDE DEF w
<1>6. Leads(w \o <<BREAK>>, s, Meant(d, BREAK))
  BY <1>2, <1>3, <1>5, LeadsFurther
<1>7. Leads(Stream', s, Meant(Meant(d, BREAK), k))
  BY <1>2, <1>3, <1>4, <1>6, LeadsFurther
<1>8. Done(Meant(Meant(d, BREAK), k))'
  BY <1>1, <1>5, SameDone, LetGoDone
<1>9. Heard(s)'
  BY <1>1, HeardKept DEF let_go, handler
<1>10. Meant(Meant(d, BREAK), k) \in Decoded
  BY <1>5, MeantFacts
<1> QED
  BY <1>7, <1>8, <1>9, <1>10, Zenon DEF Accounted

(* An answer queued, and an answer read, mean nothing. *)
LEMMA AccountAnswer ==
  ASSUME TypeOK, Accounted, NEW r \in Answers, out' = out \o <<r>>, obf' = obf,
         UNCHANGED AccountVars
  PROVE  Accounted'
<1>1. PICK s, e \in Decoded : Heard(s) /\ Leads(Stream, s, e) /\ Done(e)
  BY DEF Accounted
<1>2. r \in Bytes /\ <<r>> \in Seq(Bytes) /\ Stream \in Seq(Bytes)
  BY StreamType, SingleFacts, ByteClasses
<1>3. Stream' = Stream \o <<r>>
  BY <1>2, StreamGrows
<1>4. Leads(Stream', s, Meant(e, r))
  BY <1>1, <1>2, <1>3, LeadsFurther
<1>5. Same(Meant(e, r), e) /\ Meant(e, r) \in Decoded
  BY MeantNothing, MeantFacts, ByteClasses, DecodedFields
<1>6. Done(Meant(e, r))
  BY <1>1, <1>5, SameDone
<1>7. Done(Meant(e, r))'
  BY <1>6, DoneKept DEF AccountVars
<1>8. Heard(s)'
  BY <1>1, HeardKept DEF AccountVars
<1> QED
  BY <1>4, <1>5, <1>7, <1>8, Zenon DEF Accounted

LEMMA AccountRead ==
  ASSUME TypeOK, Accounted, obf \in Answers, obf' = None, out' = out, UNCHANGED AccountVars
  PROVE  Accounted'
<1>1. PICK s, e \in Decoded : Heard(s) /\ Leads(Stream, s, e) /\ Done(e)
  BY DEF Accounted
<1>2. Stream = <<obf>> \o Stream' /\ Stream' \in Seq(Bytes) /\ obf \in Bytes
  BY StreamTaken, ByteFacts
<1>3. Leads(Stream', Meant(s, obf), e)
  BY <1>1, <1>2, LeadsRest
<1>4. Same(Meant(s, obf), s) /\ Meant(s, obf) \in Decoded
  BY MeantNothing, MeantFacts, ByteClasses, DecodedFields
<1> DEFINE d == Meant(s, obf)
<1>a. PICK c \in Decoded : c = d
  BY <1>4
<1>5. Heard(c)
  BY <1>1, <1>4, <1>a, SameHeard
<1>6. Heard(c)'
  BY <1>5, HeardKept DEF AccountVars
<1>7. Done(e)'
  BY <1>1, DoneKept DEF AccountVars
<1>8. Leads(Stream', c, e)
  BY <1>3, <1>a
<1> QED
  BY <1>6, <1>7, <1>8, Zenon DEF Accounted

(* After the keyboard has forgotten everything nothing is under way. *)
LEMMA AccountStarts ==
  ASSUME NEW r \in Answers, out' = <<r>>, obf' = None,
         typed' = << >>, ups' = 0, both' = FALSE, held' = {},
         release' = FALSE, mod_state' = {}, chars' = << >>, lost_to_full' = 0
  PROVE  Accounted'
<1> DEFINE s == [brk |-> FALSE, shift |-> FALSE, typed |-> << >>, ups |-> 0]
<1>1. s \in Decoded
  <2>1. << >> \in Seq(Characters) /\ 0 \in Nat /\ FALSE \in BOOLEAN
    OBVIOUS
  <2> QED
    BY <2>1, DecodedMade, Zenon
<1>2. s.brk = FALSE /\ s.shift = FALSE /\ s.typed = << >> /\ s.ups = 0
  OBVIOUS
<1> HIDE DEF s
<1>3. Leads(<< >>, s, s)
  BY <1>1, LeadsNowhere
<1>4. r \in Bytes /\ << >> \in Seq(Bytes) /\ << >> \o <<r>> = <<r>>
  BY ByteClasses, ConcatEmptySeq, SingleFacts
<1>5. Leads(<<r>>, s, Meant(s, r))
  BY <1>3, <1>4, LeadsFurther
<1>6. Same(Meant(s, r), s) /\ Meant(s, r) \in Decoded
  BY <1>1, MeantNothing, MeantFacts, ByteClasses, DecodedFields
<1>7. Stream' = <<r>>
  BY DEF Stream
<1>8. PICK e \in Decoded : e = Meant(s, r)
  BY <1>6
<1>9. e.brk = FALSE /\ e.shift = FALSE /\ e.typed = << >> /\ e.ups = 0
  BY <1>2, <1>6, <1>8 DEF Same
<1>10. Done(e)'
  <2>1. Len(e.typed) = Len(typed') /\ \A n \in 1..Len(typed') : FALSE
    BY <1>9
  <2> QED
    BY <1>9, <2>1, Zenon DEF Done
<1>11. Heard(s)'
  <2>1. /\ \A n \in 1..Len(chars') : FALSE
        /\ [n \in 1..Len(chars') |-> n] \in [1..Len(chars') -> 1..Len(s.typed)]
    BY <1>2
  <2>2. Placed(chars, s.typed)'
    BY <2>1, Zenon DEF Placed
  <2>3. Excused(s)'
    BY <1>2 DEF Excused
  <2>4. Exact(s)'
    BY <1>2, Zenon DEF Exact
  <2> QED
    BY <1>2, <2>2, <2>3, <2>4, Zenon DEF Heard
<1>12. Leads(Stream', s, e)
  BY <1>5, <1>7, <1>8
<1> QED
  BY <1>1, <1>10, <1>11, <1>12, Zenon DEF Accounted

-----------------------------------------------------------------------------
(* The handler reads a byte. *)
LEMMA PlacedMissed ==
  ASSUME NEW cs \in Seq(Characters), NEW ts \in Seq(Characters), Placed(cs, ts),
         NEW t \in Characters
  PROVE  Placed(cs, Append(ts, t))
<1> DEFINE tt == Append(ts, t)
<1>1. /\ Len(cs) \in Nat /\ Len(ts) \in Nat /\ Len(tt) = Len(ts) + 1
      /\ \A n \in 1..Len(ts) : tt[n] = ts[n]
  BY StartsFacts
<1> HIDE DEF tt
<1>2. PICK place \in [1..Len(cs) -> 1..Len(ts)] :
        /\ \A m, n \in 1..Len(cs) : m < n => place[m] < place[n]
        /\ \A n \in 1..Len(cs) : cs[n][1] = ts[place[n]][1]
  BY DEF Placed
<1>3. place \in [1..Len(cs) -> 1..Len(tt)]
  <2>1. 1..Len(ts) \subseteq 1..Len(tt)
    BY <1>1
  <2> QED
    BY <2>1
<1>4. \A n \in 1..Len(cs) : cs[n][1] = tt[place[n]][1]
  BY <1>1, <1>2
<1>5. Placed(cs, tt)
  BY <1>2, <1>3, <1>4, Zenon DEF Placed
<1> QED
  BY <1>5 DEF tt

LEMMA PlacedHeard ==
  ASSUME NEW cs \in Seq(Characters), NEW ts \in Seq(Characters), Placed(cs, ts),
         NEW c \in Characters, NEW t \in Characters, c[1] = t[1]
  PROVE  Placed(Append(cs, c), Append(ts, t))
<1> DEFINE tt == Append(ts, t)
           cc == Append(cs, c)
<1>1. /\ Len(cs) \in Nat /\ Len(ts) \in Nat
      /\ Len(tt) = Len(ts) + 1 /\ tt[Len(ts) + 1] = t
      /\ \A n \in 1..Len(ts) : tt[n] = ts[n]
      /\ Len(cc) = Len(cs) + 1 /\ cc[Len(cs) + 1] = c
      /\ \A n \in 1..Len(cs) : cc[n] = cs[n]
  BY StartsFacts
<1> HIDE DEF tt, cc
<1>2. PICK place \in [1..Len(cs) -> 1..Len(ts)] :
        /\ \A m, n \in 1..Len(cs) : m < n => place[m] < place[n]
        /\ \A n \in 1..Len(cs) : cs[n][1] = ts[place[n]][1]
  BY DEF Placed
<1> DEFINE pp == [n \in 1..Len(cc) |-> IF n <= Len(cs) THEN place[n] ELSE Len(ts) + 1]
<1>3. pp \in [1..Len(cc) -> 1..Len(tt)]
  <2>1. ASSUME NEW n \in 1..Len(cc) PROVE (IF n <= Len(cs) THEN place[n] ELSE Len(ts) + 1) \in 1..Len(tt)
    <3>1. CASE n <= Len(cs)
      <4>1. n \in 1..Len(cs)
        BY <1>1, <3>1
      <4>2. place[n] \in 1..Len(ts)
        BY <4>1
      <4> QED
        BY <1>1, <3>1, <4>2
    <3>2. CASE ~(n <= Len(cs))
      BY <1>1, <3>2
    <3> QED
      BY <3>1, <3>2
  <2> QED
    BY <2>1
<1>4. (\A n \in 1..Len(cs) : pp[n] = place[n]) /\ pp[Len(cs) + 1] = Len(ts) + 1
  BY <1>1
<1>5. \A n \in 1..Len(cc) : n \in 1..Len(cs) \/ n = Len(cs) + 1
  BY <1>1
<1>6. \A n \in 1..Len(cs) : place[n] \in 1..Len(ts)
  OBVIOUS
<1> HIDE DEF pp
<1>7. ASSUME NEW m \in 1..Len(cc), NEW n \in 1..Len(cc), m < n PROVE pp[m] < pp[n]
  <2>1. m \in 1..Len(cs)
    BY <1>1, <1>5, <1>7
  <2>2. CASE n \in 1..Len(cs)
    BY <1>2, <1>4, <1>7, <2>1, <2>2
  <2>3. CASE n = Len(cs) + 1
    BY <1>1, <1>4, <1>6, <2>1, <2>3
  <2> QED
    BY <1>5, <2>2, <2>3
<1>8. ASSUME NEW n \in 1..Len(cc) PROVE cc[n][1] = tt[pp[n]][1]
  <2>1. CASE n \in 1..Len(cs)
    BY <1>1, <1>2, <1>4, <1>6, <2>1
  <2>2. CASE n = Len(cs) + 1
    BY <1>1, <1>4, <2>2
  <2> QED
    BY <1>5, <2>1, <2>2
<1>9. Placed(cc, tt)
  BY <1>3, <1>7, <1>8, Zenon DEF Placed
<1> QED
  BY <1>9 DEF cc, tt

(* All that the handler does with a byte that is no character pressed. *)
LEMMA HeardOther ==
  ASSUME TypeOK, keyboard_handler, NEW s \in Decoded, Heard(s), ~(obf \in CharKeys /\ ~release),
         NEW d, d = Meant(s, obf)
  PROVE  Heard(d)'
<1>a. PICK byte \in Bytes : byte = obf
  BY StreamType DEF keyboard_handler
<1>b. d = Meant(s, byte)
  BY <1>a
<1>1. /\ d.brk = (byte = BREAK \/ (byte \notin Keys /\ s.brk))
      /\ d.shift = IF byte \in ShiftKeys THEN ~s.brk ELSE s.shift
      /\ d.typed = IF byte \in CharKeys /\ ~s.brk THEN Append(s.typed, <<byte, s.shift>>) ELSE s.typed
      /\ d.ups = IF byte \in OtherKeys /\ s.brk THEN s.ups + 1 ELSE s.ups
  BY <1>b, MeantFields
<1>2. /\ release' = IF byte = BREAK THEN TRUE
                    ELSE IF byte \in CharKeys \cup ShiftKeys THEN FALSE
                    ELSE release
      /\ mod_state' = IF byte \in ShiftKeys
                        THEN (IF release THEN mod_state \ {"shift"} ELSE mod_state \cup {"shift"})
                        ELSE mod_state
      /\ UNCHANGED <<chars, lost_to_full>>
      /\ byte \in CharKeys => release
  BY <1>a, Zenon DEF keyboard_handler, decode
<1>3. /\ s.brk \in BOOLEAN /\ s.shift \in BOOLEAN /\ s.typed \in Seq(Characters) /\ s.ups \in Nat
      /\ release \in BOOLEAN /\ chars \in Seq(Characters) /\ lost_to_full \in Nat
  BY TypeSplit, DecodedFields, Zenon DEF TypeHandler, TypeHistory
<1>4. (s.brk => release) /\ Placed(chars, s.typed) /\ Excused(s) /\ Exact(s)
  BY DEF Heard
<1>5. d.brk => release'
  BY <1>1, <1>2, <1>4, ByteClasses, Zenon
<1>6. CASE byte \in CharKeys
  <2>1. release /\ ~release' /\ ~d.brk /\ d.shift = s.shift /\ d.ups = s.ups /\ mod_state' = mod_state
    BY <1>1, <1>2, <1>6, ByteClasses
  <2>2. CASE s.brk
    <3>1. d.typed = s.typed
      BY <1>1, <2>2
    <3>2. Excused(d)'
      BY <1>2, <1>3, <1>4, <2>1, <2>2, <3>1 DEF Excused
    <3>3. Exact(d)'
      BY <1>2, <1>4, <2>1, <3>1, Zenon DEF Exact
    <3> QED
      BY <1>2, <1>4, <1>5, <1>a, <1>b, <3>1, <3>2, <3>3, Zenon DEF Heard
  <2>3. CASE ~s.brk
    <3> DEFINE t == <<byte, s.shift>>
    <3>1. d.typed = Append(s.typed, t) /\ t \in Characters
      BY <1>1, <1>3, <1>6, <2>3, CharacterMade
    <3> HIDE DEF t
    <3>2. Placed(chars, d.typed)
      BY <1>3, <1>4, <3>1, PlacedMissed
    <3>3. Len(d.typed) = Len(s.typed) + 1 /\ Len(s.typed) \in Nat /\ Len(chars) \in Nat
      BY <1>3, <3>1, StartsFacts
    <3>4. Excused(d)'
      BY <1>2, <1>3, <1>4, <2>1, <2>3, <3>3 DEF Excused
    <3>5. Exact(d)'
      BY <1>2, <1>4, <2>1, <2>3, Zenon DEF Exact
    <3> QED
      BY <1>2, <1>5, <1>a, <1>b, <3>2, <3>4, <3>5, Zenon DEF Heard
  <2> QED
    BY <2>2, <2>3
<1>7. CASE byte \notin CharKeys
  <2>1. d.typed = s.typed
    BY <1>1, <1>7
  <2>2. Excused(d)' /\ Exact(d)'
    <3>1. CASE byte = BREAK
      <4>1. d.brk /\ release' /\ d.ups = s.ups /\ d.shift = s.shift /\ mod_state' = mod_state
        BY <1>1, <1>2, <3>1, ByteClasses
      <4>2. Excused(d)'
        BY <1>2, <1>3, <1>4, <2>1, <4>1 DEF Excused
      <4> QED
        BY <1>2, <1>4, <2>1, <4>1, <4>2, Zenon DEF Exact
    <3>2. CASE byte \in ShiftKeys
      <4>1. ~d.brk /\ ~release' /\ d.ups = s.ups
        BY <1>1, <1>2, <3>2, ByteClasses
      <4>2. Excused(d)'
        BY <1>2, <1>3, <1>4, <2>1, <4>1 DEF Excused
      <4>3. d.shift = ~s.brk
        BY <1>1, <3>2
      <4>4. "shift" \in mod_state' <=> ~release
        BY <1>2, <3>2, ByteClasses
      <4> QED
        BY <1>2, <1>4, <2>1, <4>1, <4>2, <4>3, <4>4, Zenon DEF Exact
    <3>3. CASE byte \in OtherKeys
      <4>1. /\ ~d.brk /\ (release' <=> release) /\ d.shift = s.shift /\ mod_state' = mod_state
            /\ d.ups = IF s.brk THEN s.ups + 1 ELSE s.ups
        BY <1>1, <1>2, <1>7, <3>3, ByteClasses
      <4>2. Excused(d)'
        <5>1. CASE s.brk
          BY <1>2, <1>3, <1>4, <2>1, <4>1, <5>1 DEF Excused
        <5>2. CASE ~s.brk
          BY <1>2, <1>3, <1>4, <2>1, <4>1, <5>2 DEF Excused
        <5> QED
          BY <5>1, <5>2
      <4>3. d.ups = 0 => ~s.brk /\ d.ups = s.ups
        BY <1>3, <4>1
      <4> QED
        BY <1>2, <1>4, <2>1, <4>1, <4>2, <4>3, Zenon DEF Exact
    <3>4. CASE byte \notin Keys /\ byte # BREAK
      <4>1. d.brk = s.brk /\ d.shift = s.shift /\ d.typed = s.typed /\ d.ups = s.ups
        BY <1>b, <1>3, <3>4, MeantNothing DEF Same
      <4>2. (release' <=> release) /\ mod_state' = mod_state
        BY <1>2, <3>4, ByteClasses
      <4>3. Excused(d)'
        BY <1>2, <1>4, <4>1, <4>2, Zenon DEF Excused
      <4> QED
        BY <1>2, <1>4, <4>1, <4>2, <4>3, Zenon DEF Exact
    <3> QED
      BY <1>7, <3>1, <3>2, <3>3, <3>4, ByteClasses
  <2> QED
    BY <1>2, <1>4, <1>5, <1>a, <1>b, <2>1, <2>2, Zenon DEF Heard
<1> QED
  BY <1>6, <1>7

(* A character pressed. *)
LEMMA HeardCharacter ==
  ASSUME TypeOK, keyboard_handler, NEW s \in Decoded, Heard(s), obf \in CharKeys, ~release,
         NEW d, d = Meant(s, obf)
  PROVE  Heard(d)'
<1>a. PICK byte \in CharKeys : byte = obf
  OBVIOUS
<1>b. d = Meant(s, byte)
  BY <1>a
<1>1. (s.brk => release) /\ Placed(chars, s.typed) /\ Excused(s) /\ Exact(s)
  BY DEF Heard
<1>2. /\ s.brk = FALSE /\ s.shift \in BOOLEAN /\ s.typed \in Seq(Characters) /\ s.ups \in Nat
      /\ release = FALSE /\ chars \in Seq(Characters) /\ lost_to_full \in Nat
  <2>1. s.brk = FALSE
    BY <1>1, DecodedFields, Zenon
  <2>2. release = FALSE /\ chars \in Seq(Characters) /\ lost_to_full \in Nat
    BY TypeSplit, Zenon DEF TypeHandler, TypeHistory
  <2> QED
    BY <2>1, <2>2, DecodedFields, Zenon
<1> DEFINE t == <<byte, s.shift>>
           c == <<byte, "shift" \in mod_state>>
<1>3. /\ ~d.brk /\ d.shift = s.shift /\ d.ups = s.ups
      /\ d.typed = Append(s.typed, t)
  <2>1. /\ d.brk = (byte = BREAK \/ (byte \notin Keys /\ s.brk))
        /\ d.shift = IF byte \in ShiftKeys THEN ~s.brk ELSE s.shift
        /\ d.typed = IF byte \in CharKeys /\ ~s.brk THEN Append(s.typed, <<byte, s.shift>>) ELSE s.typed
        /\ d.ups = IF byte \in OtherKeys /\ s.brk THEN s.ups + 1 ELSE s.ups
    BY <1>b, MeantFields
  <2>2. byte # BREAK /\ byte \in Keys /\ byte \notin ShiftKeys /\ byte \notin OtherKeys
    BY ByteClasses
  <2> QED
    BY <1>2, <2>1, <2>2, Zenon
<1>4. ~release' /\ mod_state' = mod_state /\ deliver(c)
  <2>1. decode(byte) /\ deliver(c)
    BY <1>a, Zenon DEF keyboard_handler
  <2>2. byte # BREAK /\ byte \notin ShiftKeys
    BY ByteClasses
  <2> QED
    BY <2>1, <2>2, Zenon DEF decode
<1>5. ("shift" \in mod_state) \in BOOLEAN
  OBVIOUS
<1>6. t \in Characters /\ c \in Characters /\ t[1] = byte /\ c[1] = byte
  BY <1>2, <1>5, CharacterMade
<1>7. s.ups = 0 /\ lost_to_full = 0 => c = t /\ chars = s.typed /\ (s.shift <=> "shift" \in mod_state)
  <2>1. s.ups = 0 /\ lost_to_full = 0 => s.shift = ("shift" \in mod_state)
    <3>1. s.ups = 0 /\ lost_to_full = 0 => (s.shift <=> "shift" \in mod_state)
      BY <1>1, Zenon DEF Exact
    <3> QED
      BY <1>2, <3>1
  <2> QED
    BY <1>1, <2>1, Zenon DEF Exact
<1> HIDE DEF t, c
<1>8. /\ Len(d.typed) = Len(s.typed) + 1 /\ Len(s.typed) \in Nat /\ Len(chars) \in Nat
      /\ Len(Append(chars, c)) = Len(chars) + 1
  BY <1>2, <1>3, <1>6, StartsFacts
<1>9. CASE is_buffer_full
  <2>1. lost_to_full' = lost_to_full + 1 /\ chars' = chars
    BY <1>4, <1>9, Zenon DEF deliver
  <2>2. Placed(chars, d.typed)
    BY <1>1, <1>2, <1>3, <1>6, PlacedMissed
  <2>3. Excused(d)'
    BY <1>1, <1>2, <1>3, <1>4, <1>8, <2>1 DEF Excused
  <2>4. lost_to_full' # 0
    BY <1>2, <2>1
  <2>5. Exact(d)'
    BY <2>4, Zenon DEF Exact
  <2> QED
    BY <1>3, <1>a, <1>b, <2>1, <2>2, <2>3, <2>5, Zenon DEF Heard
<1>10. CASE ~is_buffer_full
  <2>1. lost_to_full' = lost_to_full /\ chars' = Append(chars, c)
    BY <1>4, <1>10, Zenon DEF deliver
  <2>2. Placed(chars', d.typed)
    BY <1>1, <1>2, <1>3, <1>6, <2>1, PlacedHeard
  <2>3. Excused(d)'
    BY <1>1, <1>2, <1>3, <1>4, <1>8, <2>1 DEF Excused
  <2>4. Exact(d)'
    BY <1>3, <1>4, <1>7, <2>1, Zenon DEF Exact
  <2> QED
    BY <1>3, <1>a, <1>b, <2>1, <2>2, <2>3, <2>4, Zenon DEF Heard
<1> QED
  BY <1>9, <1>10

LEMMA AccountHandler ==
  ASSUME TypeOK, keyboard_handler, Accounted
  PROVE  Accounted'
<1>1. PICK s, e \in Decoded : Heard(s) /\ Leads(Stream, s, e) /\ Done(e)
  BY DEF Accounted
<1>2. obf # None /\ obf' = None /\ out' = out /\ UNCHANGED <<held, typed, ups, both>>
  BY Zenon DEF keyboard_handler, device, user
<1>3. Stream = <<obf>> \o Stream' /\ Stream' \in Seq(Bytes) /\ obf \in Bytes
  BY <1>2, StreamTaken
<1>4. PICK d \in Decoded : d = Meant(s, obf)
  BY MeantFacts
<1>5. Leads(Stream', d, e)
  BY <1>1, <1>3, <1>4, LeadsRest
<1>6. Heard(d)'
  BY <1>1, <1>4, HeardOther, HeardCharacter, Zenon
<1>7. Done(e)'
  BY <1>1, <1>2, DoneKept, Zenon
<1> QED
  BY <1>5, <1>6, <1>7, Zenon DEF Accounted

-----------------------------------------------------------------------------
LEMMA UnheardStep ==
  ASSUME Unheard, [Next]_vars
  PROVE  Unheard'
<1> SUFFICES ASSUME pc' # "ready"
             PROVE  /\ masked' /\ ~in_service'
                    /\ ~release' /\ mod_state' = {} /\ chars' = << >> /\ lost_to_full' = 0
  BY Zenon DEF Unheard
<1> DEFINE V == <<masked, in_service, release, mod_state, chars, lost_to_full>>
<1>1. CASE KBD_init
  <2>1. CASE pc = "ready"
    BY <1>1, <2>1 DEF KBD_init, configure, self_test, port_test, write_keyboard, read_data,
       IRQ_set_handler, IRQ_clear_mask
  <2>2. CASE IRQ_clear_mask
    BY <2>2 DEF IRQ_clear_mask
  <2>3. CASE pc # "ready" /\ ~IRQ_clear_mask
    <3>1. UNCHANGED V
      BY <1>1, <2>3, Zenon DEF KBD_init, configure, self_test, port_test, write_keyboard, read_data,
         IRQ_set_handler, pic, handler
    <3> QED
      BY <2>3, <3>1, Zenon DEF Unheard
  <2> QED
    BY <2>1, <2>2, <2>3
<1>2. CASE Device \/ User
  <2>1. UNCHANGED V /\ pc' = pc
    BY <1>2, Zenon DEF Device, User, device_command, device_send, press, let_go, driver, pic, handler
  <2> QED
    BY <2>1, Zenon DEF Unheard
<1>3. CASE irq_handler \/ keyboard_handler \/ getc_sys_call
  <2>1. pc' = pc
    BY <1>3, Zenon DEF irq_handler, keyboard_handler, getc_sys_call, driver
  <2> QED
    BY <1>3, <2>1, Zenon DEF Unheard, irq_handler, keyboard_handler, getc_sys_call
<1>4. CASE UNCHANGED vars
  <2>1. UNCHANGED V /\ pc' = pc
    BY <1>4, Zenon DEF vars, driver, pic, handler
  <2> QED
    BY <2>1, Zenon DEF Unheard
<1> QED
  BY <1>1, <1>2, <1>3, <1>4, Zenon DEF Next

(* Bytes queued behind do not change what comes first. *)
LEMMA QueuedBehind ==
  ASSUME NEW s \in Seq(Bytes), NEW t \in Seq(Bytes), s # << >>
  PROVE  s \o t # << >> /\ (s \o t)[1] = s[1]
<1>1. Len(s) \in Nat \ {0} /\ Len(t) \in Nat
  BY EmptySeq
<1>2. /\ Len(s \o t) = Len(s) + Len(t)
      /\ \A n \in 1..(Len(s) + Len(t)) : (s \o t)[n] = IF n <= Len(s) THEN s[n] ELSE t[n - Len(s)]
  BY ConcatProperties
<1>3. Len(<< >>) = 0
  OBVIOUS
<1>4. Len(s \o t) # 0
  BY <1>1, <1>2
<1>5. 1 \in 1..(Len(s) + Len(t)) /\ 1 <= Len(s)
  BY <1>1
<1> QED
  BY <1>2, <1>3, <1>4, <1>5

LEMMA DoomedQueued ==
  ASSUME TypeOK, Doomed, NEW t \in Seq(Bytes), out' = out \o t, obf' = obf
  PROVE  Doomed'
<1>1. out \in Seq(Bytes)
  BY StreamType
<1> QED
  BY <1>1, QueuedBehind DEF Doomed

LEMMA DoomedSent ==
  ASSUME TypeOK, Doomed, device_send
  PROVE  Doomed'
<1>1. out \in Seq(Bytes) /\ out # << >> /\ obf = None /\ obf' = Head(out)
  BY StreamType DEF device_send
<1>2. Head(out) = out[1] /\ Head(out) \in Bytes
  BY <1>1, HeadTailProperties
<1> QED
  BY <1>1, <1>2, ByteFacts DEF Doomed

LEMMA ArrivingUser ==
  ASSUME IInv, Arriving, User
  PROVE  Arriving'
<1>1. PICK k \in Keys : press(k) \/ let_go(k)
  BY DEF User
<1>2. TypeOK /\ out \in Seq(Bytes)
  BY StreamType DEF IInv
<1>3. PICK t \in Seq(Bytes) : Quiet(t) /\ out' = out \o t
  <2>1. CASE press(k)
    <3>1. Prefix(k) \o <<k>> \in Seq(Bytes) /\ Quiet(Prefix(k) \o <<k>>)
      BY KeyBytes, QuietConcat
    <3>2. out \o Prefix(k) \o <<k>> = out \o (Prefix(k) \o <<k>>)
      BY <1>2, KeyBytes, ConcatAssociative
    <3> QED
      BY <2>1, <3>1, <3>2 DEF press
  <2>2. CASE let_go(k)
    <3>1. Prefix(k) \o <<BREAK, k>> \in Seq(Bytes) /\ Quiet(Prefix(k) \o <<BREAK, k>>)
      BY KeyBytes, QuietConcat
    <3>2. out \o Prefix(k) \o <<BREAK, k>> = out \o (Prefix(k) \o <<BREAK, k>>)
      BY <1>2, KeyBytes, ConcatAssociative
    <3> QED
      BY <2>2, <3>1, <3>2 DEF let_go
  <2> QED
    BY <1>1, <2>1, <2>2
<1>4. UNCHANGED <<pc, cmd, obf>>
  BY <1>1, Zenon DEF press, let_go, driver, controller
<1>5. Accounted => Accounted'
  BY <1>1, <1>2, AccountPress, AccountLetGo, Zenon
<1>6. Doomed => Doomed'
  BY <1>2, <1>3, <1>4, DoomedQueued, Zenon
<1>7. ResetAnswer'
  <2> SUFFICES ASSUME pc = "read", cmd = 1
               PROVE  /\ obf = ACK => out' # << >>
                      /\ \A n \in 1..Len(out') : out'[n] = ACK => n < Len(out')
    BY <1>4, Zenon DEF ResetAnswer
  <2>1. obf = ACK => out' # << >>
    BY <1>2, <1>3, QueuedBehind DEF Arriving, ResetAnswer
  <2>2. Len(out') >= Len(out) /\ Len(out) \in Nat /\ Len(out') \in Nat
    BY <1>2, <1>3, ConcatProperties
  <2>3. \A n \in 1..Len(out') : out'[n] \in Answers => n \in 1..Len(out) /\ out'[n] = out[n]
    BY <1>2, <1>3, QuietAppended
  <2>4. ASSUME NEW n \in 1..Len(out'), out'[n] = ACK PROVE n < Len(out')
    <3>1. n \in 1..Len(out) /\ out[n] = ACK
      BY <2>3, <2>4 DEF Answers
    <3>2. n < Len(out)
      BY <3>1 DEF Arriving, ResetAnswer
    <3> QED
      BY <2>2, <3>1, <3>2
  <2> QED
    BY <2>1, <2>4
<1> QED
  BY <1>4, <1>5, <1>6, <1>7, Zenon DEF Arriving, BootOrder, Settling, Listening

LEMMA ArrivingCommand ==
  ASSUME IInv, Arriving, Unheard, NEW resp \in {ACK, RESEND}, NEW forget \in BOOLEAN,
         device_command(resp, forget)
  PROVE  Arriving'
<1>1. UNCHANGED <<pc, cmd, obf>> /\ ibf # None
  BY Zenon DEF device_command, driver
<1>2. CASE pc = "failed"
  BY <1>1, <1>2 DEF Arriving, BootOrder, ResetAnswer, Settling, Listening
<1>3. CASE pc # "failed"
  <2>1. pc = "read" /\ ibf = Commands[cmd] /\ NoAnswer
    BY <1>1, <1>3 DEF IInv, Dialogue
  <2>2. TypeOK /\ cmd \in 1..4 /\ out \in Seq(Bytes) /\ resp \in Answers
    BY TypeSplit DEF IInv, TypeDriver, TypeDevice, Answers
  <2> DEFINE before == IF forget THEN << >> ELSE out
             after == IF ibf = "RST_KEYBOARD" /\ resp = ACK THEN <<SELF_TEST>> ELSE << >>
  <2>3. /\ before \in Seq(Bytes) /\ Quiet(before)
        /\ after \in Seq(Bytes) /\ Quiet(after)
    BY <2>1, <2>2, ByteFacts, SingleFacts, EmptyQuiet DEF NoAnswer, Quiet
  <2>4. out' = before \o <<resp>> \o after
    BY DEF device_command
  <2>5. ResetAnswer'
    <3> SUFFICES ASSUME cmd = 1, NEW n \in 1..Len(out'), out'[n] = ACK
                 PROVE  n < Len(out')
      BY <1>1, <2>1 DEF ResetAnswer, NoAnswer, Answers
    <3>1. ibf = "RST_KEYBOARD"
      BY <2>1, CommandFacts
    <3> HIDE DEF before
    <3>2. resp = ACK => Len(after) = 1
      BY <3>1
    <3> HIDE DEF after
    <3>3. n = Len(before) + 1 /\ out'[n] = resp
      BY <2>2, <2>3, <2>4, AnswerBytes DEF Answers
    <3>4. /\ before \o <<resp>> \in Seq(Bytes) /\ Len(before \o <<resp>>) = Len(before) + 1
          /\ Len(before) \in Nat
      <4>1. resp \in Bytes
        BY <2>2, ByteClasses
      <4>2. <<resp>> \in Seq(Bytes) /\ Len(<<resp>>) = 1
        BY <4>1, SingleFacts
      <4> QED
        BY <2>3, <4>2, ConcatProperties, LenProperties
    <3>5. Len(out') = Len(before \o <<resp>>) + Len(after)
      BY <2>3, <2>4, <3>4, ConcatProperties
    <3>6. Len(after) = 1
      BY <3>2, <3>3
    <3>7. Len(out') = n + 1 /\ n \in Nat
      BY <3>3, <3>4, <3>5, <3>6
    <3> QED
      BY <3>7
  <2>6. ASSUME cmd > 1 PROVE Accounted' \/ Doomed'
    <3>1. ibf # "RST_KEYBOARD"
      BY <2>1, <2>2, <2>6, CommandFacts
    <3>2. out' = before \o <<resp>>
      <4>1. after = << >>
        BY <3>1
      <4> HIDE DEF after, before
      <4>2. before \o <<resp>> \in Seq(Bytes)
        <5>1. resp \in Bytes
          BY <2>2, ByteClasses
        <5> QED
          BY <2>3, <5>1, SingleFacts, QuietConcat
      <4>3. (before \o <<resp>>) \o << >> = before \o <<resp>>
        BY <4>2, ConcatEmptySeq
      <4> QED
        BY <2>4, <4>1, <4>3
    <3>3. CASE forget
      <4>1. out' = <<resp>>
        <5>1. << >> \o <<resp>> = <<resp>>
          BY <2>2, ByteClasses, SingleFacts, ConcatEmptySeq
        <5> QED
          BY <3>2, <3>3, <5>1
      <4>2. held' = {} /\ typed' = << >> /\ ups' = 0 /\ both' = FALSE
        BY <3>3, Zenon DEF device_command
      <4>3. CASE obf = None
        <5>1. release' = FALSE /\ mod_state' = {} /\ chars' = << >> /\ lost_to_full' = 0
          <6>1. UNCHANGED <<release, mod_state, chars, lost_to_full>>
            BY Zenon DEF device_command, handler
          <6>2. release \in BOOLEAN
            BY <2>2, TypeSplit DEF TypeHandler
          <6>3. ~release /\ mod_state = {} /\ chars = << >> /\ lost_to_full = 0
            BY <2>1, Zenon DEF Unheard
          <6> QED
            BY <6>1, <6>2, <6>3, Zenon
        <5>2. obf' = None
          BY <1>1, <4>3
        <5> QED
          BY <2>2, <4>1, <4>2, <5>1, <5>2, AccountStarts, Zenon
      <4>4. CASE obf # None
        BY <1>1, <2>1, <4>4 DEF Doomed, NoAnswer
      <4> QED
        BY <4>3, <4>4
    <3>4. CASE ~forget
      <4>1. out' = out \o <<resp>>
        BY <3>2, <3>4
      <4>2. CASE Accounted
        <5>1. UNCHANGED AccountVars
          BY <3>4, Zenon DEF device_command, handler, AccountVars
        <5> QED
          BY <1>1, <2>2, <4>1, <4>2, <5>1, AccountAnswer, Zenon
      <4>3. CASE Doomed
        <5>1. <<resp>> \in Seq(Bytes)
          BY <2>2, ByteClasses, SingleFacts
        <5> QED
          BY <1>1, <2>2, <4>1, <4>3, <5>1, DoomedQueued
      <4> QED
        BY <2>1, <2>6, <4>2, <4>3 DEF Arriving, Settling
    <3> QED
      BY <3>3, <3>4
  <2> QED
    BY <1>1, <2>1, <2>5, <2>6 DEF Arriving, BootOrder, Settling, Listening
<1> QED
  BY <1>2, <1>3

LEMMA ArrivingSend ==
  ASSUME IInv, Arriving, device_send
  PROVE  Arriving'
<1>1. UNCHANGED <<pc, cmd>> /\ TypeOK /\ out \in Seq(Bytes) /\ out # << >>
      /\ obf' = Head(out) /\ out' = Tail(out)
  BY StreamType DEF IInv, device_send, driver
<1>2. Accounted => Accounted'
  <2>1. UNCHANGED AccountVars
    BY Zenon DEF device_send, AccountVars, handler, user
  <2> QED
    BY <1>1, <2>1, StreamMoves, AccountKept
<1>3. Doomed => Doomed'
  BY <1>1, DoomedSent
<1>4. ResetAnswer'
  <2> SUFFICES ASSUME pc = "read", cmd = 1
               PROVE  /\ obf' = ACK => out' # << >>
                      /\ \A n \in 1..Len(out') : out'[n] = ACK => n < Len(out')
    BY <1>1, Zenon DEF ResetAnswer
  <2>1. \A n \in 1..Len(out) : out[n] = ACK => n < Len(out)
    BY DEF Arriving, ResetAnswer
  <2>2. /\ Len(out) \in Nat \ {0} /\ obf' = out[1] /\ Len(out') = Len(out) - 1
        /\ \A n \in 1..Len(out') : out'[n] = out[n + 1]
    BY <1>1, EmptySeq, HeadTailProperties
  <2>3. ASSUME obf' = ACK PROVE out' # << >>
    <3>a. 1 \in 1..Len(out) /\ out[1] = ACK
      BY <2>2, <2>3
    <3>1. 1 < Len(out)
      BY <2>1, <3>a, Zenon
    <3>2. Len(<< >>) = 0
      OBVIOUS
    <3>3. Len(out') # 0
      BY <2>2, <3>1
    <3> QED
      BY <3>2, <3>3
  <2>4. ASSUME NEW n \in 1..Len(out'), out'[n] = ACK PROVE n < Len(out')
    <3>1. n + 1 \in 1..Len(out) /\ out[n + 1] = ACK
      BY <2>2, <2>4
    <3>2. n + 1 < Len(out)
      BY <2>1, <3>1
    <3> QED
      BY <2>2, <3>2
  <2> QED
    BY <2>3, <2>4
<1> QED
  BY <1>1, <1>2, <1>3, <1>4, Zenon DEF Arriving, BootOrder, Settling, Listening

LEMMA ArrivingHandlers ==
  ASSUME IInv, Arriving, Unheard,
         irq_handler \/ keyboard_handler \/ getc_sys_call \/ UNCHANGED vars
  PROVE  Arriving'
<1>1. UNCHANGED <<pc, cmd, out>>
  BY Zenon DEF irq_handler, keyboard_handler, getc_sys_call, vars, driver, device
<1>2. CASE keyboard_handler
  <2>1. pc = "ready"
    BY <1>2 DEF Unheard, keyboard_handler
  <2>2. Accounted'
    BY <1>2, <2>1, AccountHandler DEF Arriving, Listening, IInv
  <2> QED
    BY <1>1, <2>1, <2>2 DEF Arriving, BootOrder, ResetAnswer, Settling, Listening
<1>3. CASE irq_handler \/ getc_sys_call \/ UNCHANGED vars
  <2>1. obf' = obf /\ UNCHANGED AccountVars
    BY <1>3, Zenon DEF irq_handler, getc_sys_call, vars, controller, handler, user, AccountVars
  <2>2. Stream' = Stream
    BY <1>1, <2>1, Zenon DEF Stream
  <2>3. Accounted => Accounted'
    BY <2>1, <2>2, AccountKept, Zenon
  <2>4. Doomed => Doomed'
    BY <1>1, <2>1, Zenon DEF Doomed
  <2> QED
    BY <1>1, <2>1, <2>3, <2>4, Zenon DEF Arriving, BootOrder, ResetAnswer, Settling, Listening
<1> QED
  BY <1>2, <1>3

LEMMA ArrivingInit ==
  ASSUME IInv, Arriving, KBD_init
  PROVE  Arriving'
<1>1. TypeOK /\ cmd \in 1..4 /\ Len(Commands) = 4 /\ out \in Seq(Bytes)
  BY TypeSplit, CommandFacts DEF IInv, TypeDriver, TypeDevice
<1>2. CASE configure \/ \E passed \in BOOLEAN : self_test(passed) \/ port_test(passed)
  <2>1. cmd' = 1 /\ pc' \in {"self_test", "port_test", "write", "failed"}
    BY <1>2 DEF configure, self_test, port_test, Fail, Arriving, BootOrder
  <2> QED
    BY <2>1 DEF Arriving, BootOrder, ResetAnswer, Settling, Listening
<1>3. CASE write_keyboard
  <2>1. pc = "write" /\ NoAnswer /\ UNCHANGED <<obf, out, AccountVars>>
    BY <1>3 DEF write_keyboard, device, handler, user, AccountVars, IInv, Dialogue
  <2>2. \/ pc' = "failed"
        \/ pc' = "read" /\ cmd' = cmd
    BY <1>3 DEF write_keyboard, Answered, Fail, ACK, RESEND
  <2>3. Stream' = Stream
    BY <2>1 DEF Stream
  <2>4. Accounted => Accounted'
    BY <2>1, <2>3, AccountKept, Zenon
  <2>5. Doomed => Doomed'
    BY <2>1, Zenon DEF Doomed
  <2>6. ResetAnswer'
    BY <2>1 DEF ResetAnswer, NoAnswer, Answers
  <2> QED
    BY <2>1, <2>2, <2>4, <2>5, <2>6 DEF Arriving, BootOrder, Settling, Listening
<1>4. CASE read_data
  <2>1. pc = "read" /\ obf # None /\ obf' = None /\ UNCHANGED <<out, AccountVars>>
    BY <1>4 DEF read_data, device, handler, user, AccountVars
  <2>2. CASE obf \notin Answers
    <3>1. pc' = "failed"
      BY <1>4, <2>2 DEF read_data, Answered, Fail, Answers
    <3> QED
      BY <3>1 DEF Arriving, BootOrder, ResetAnswer, Settling, Listening
  <2>3. CASE obf \in Answers
    <3>1. \/ obf = RESEND /\ pc' = "write" /\ cmd' = cmd
          \/ obf = ACK /\ cmd = 4 /\ pc' = "set_handler" /\ cmd' = cmd
          \/ obf = ACK /\ cmd # 4 /\ pc' = "write" /\ cmd' = cmd + 1
      BY <1>1, <1>4, <2>3 DEF read_data, Answered, Answers, ACK, RESEND
    <3>2. CASE cmd = 1
      <4>1. CASE obf = RESEND
        BY <3>1, <3>2, <4>1 DEF Arriving, BootOrder, ResetAnswer, Settling, Listening, ACK, RESEND
      <4>2. CASE obf = ACK
        <5>1. pc' = "write" /\ cmd' = 2
          BY <3>1, <3>2, <4>2 DEF ACK, RESEND
        <5>2. out # << >>
          BY <2>1, <3>2, <4>2 DEF Arriving, ResetAnswer
        <5>3. OneAnswer
          BY <2>1, <2>3 DEF IInv, Dialogue, NoAnswer
        <5>4. 1 \in 1..Len(out)
          BY <1>1, <5>2, EmptySeq
        <5>5. Doomed'
          BY <2>1, <2>3, <5>2, <5>3, <5>4 DEF OneAnswer, Doomed
        <5> QED
          BY <5>1, <5>5 DEF Arriving, BootOrder, ResetAnswer, Settling, Listening
      <4> QED
        BY <2>3, <4>1, <4>2 DEF Answers
    <3>3. CASE cmd # 1
      <4>1. Accounted
        <5>1. ~Doomed
          BY <2>3, ByteFacts DEF Doomed
        <5> QED
          BY <1>1, <2>1, <3>3, <5>1 DEF Arriving, Settling
      <4>2. Accounted'
        BY <1>1, <2>1, <2>3, <4>1, AccountRead
      <4> QED
        BY <3>1, <4>2 DEF Arriving, BootOrder, ResetAnswer, Settling, Listening
    <3> QED
      BY <3>2, <3>3
  <2> QED
    BY <2>2, <2>3
<1>5. CASE IRQ_set_handler \/ IRQ_clear_mask
  <2>1. /\ pc \in {"set_handler", "clear_mask"} /\ pc' \in {"clear_mask", "ready"}
        /\ UNCHANGED <<obf, out, AccountVars>>
    BY <1>5 DEF IRQ_set_handler, IRQ_clear_mask, controller, device, handler, user, AccountVars
  <2>2. Stream' = Stream
    BY <2>1 DEF Stream
  <2>3. Accounted'
    BY <2>1, <2>2, AccountKept DEF Arriving, Listening
  <2> QED
    BY <2>1, <2>3 DEF Arriving, BootOrder, ResetAnswer, Settling, Listening
<1> QED
  BY <1>2, <1>3, <1>4, <1>5 DEF KBD_init

-----------------------------------------------------------------------------
ArrivalInv == IInv /\ Unheard /\ Arriving

LEMMA ArrivalInvInit == Init => ArrivalInv
<1> SUFFICES ASSUME Init PROVE ArrivalInv
  OBVIOUS
<1>1. IInv
  BY IInvInit
<1>2. Unheard
  BY DEF Init, Unheard
<1>3. Arriving
  BY DEF Init, Arriving, BootOrder, ResetAnswer, Settling, Listening
<1> QED
  BY <1>1, <1>2, <1>3 DEF ArrivalInv

LEMMA ArrivalInvStep == ArrivalInv /\ [Next]_vars => ArrivalInv'
<1> SUFFICES ASSUME ArrivalInv, [Next]_vars PROVE ArrivalInv'
  OBVIOUS
<1>1. IInv /\ Unheard /\ Arriving
  BY DEF ArrivalInv
<1>2. IInv' /\ Unheard'
  BY <1>1, IInvStep, UnheardStep
<1>3. Arriving'
  <2>1. CASE Device
    BY <1>1, <2>1, ArrivingCommand, ArrivingSend, Zenon DEF Device
  <2> QED
    BY <1>1, <2>1, ArrivingInit, ArrivingUser, ArrivingHandlers, Zenon DEF Next
<1> QED
  BY <1>2, <1>3 DEF ArrivalInv

LEMMA StartsIsPrefix ==
  ASSUME NEW s \in Seq(Characters), NEW t \in Seq(Characters), Starts(s, t)
  PROVE  IsPrefix(s, t)
<1>1. /\ Len(s) \in Nat /\ Len(t) \in Nat /\ Len(s) <= Len(t)
      /\ \A n \in 1..Len(s) : s[n] = t[n] /\ s[n] \in Characters
  BY DEF Starts
<1> DEFINE v == SubSeq(t, 1, Len(s))
<1>2. \A n \in 1..Len(s) : t[n] \in Characters
  BY <1>1
<1>3. /\ v \in Seq(Characters)
      /\ Len(v) = IF 1 <= Len(s) THEN Len(s) - 1 + 1 ELSE 0
      /\ \A n \in 1..(Len(s) - 1 + 1) : v[n] = t[1 + n - 1]
  BY <1>1, <1>2, SubSeqProperties
<1> HIDE DEF v
<1>4. Len(v) = Len(s)
  BY <1>1, <1>3
<1>5. ASSUME NEW n \in 1..Len(s) PROVE v[n] = s[n]
  <2>1. n \in 1..(Len(s) - 1 + 1) /\ 1 + n - 1 = n
    BY <1>1
  <2> QED
    BY <1>1, <1>3, <2>1
<1>6. v = s
  BY <1>3, <1>4, <1>5, SeqEqual
<1>7. SubSeq(s, 1, Len(s)) = s
  BY SubSeqFull
<1> QED
  BY <1>1, <1>6, <1>7 DEF IsPrefix, v

(* The account says what arrives. *)
LEMMA AccountArrives ==
  ASSUME TypeOK, Accounted
  PROVE  /\ Subsequence(KeysOf(chars), KeysOf(typed))
         /\ Drained => Len(typed) - Len(chars) <= lost_to_full + ups
         /\ ups = 0 /\ lost_to_full = 0 /\ ~both => IsPrefix(chars, typed)
<1>1. PICK s, e \in Decoded : Heard(s) /\ Leads(Stream, s, e) /\ Done(e)
  BY DEF Accounted
<1>2. /\ chars \in Seq(Characters) /\ typed \in Seq(Characters)
      /\ lost_to_full \in Nat /\ ups \in Nat
      /\ s.typed \in Seq(Characters) /\ s.ups \in Nat
  BY TypeSplit, DecodedFields, Zenon DEF TypeUser, TypeHistory
<1>3. Starts(s.typed, e.typed) /\ s.ups <= e.ups
  BY <1>1, LeadsEnds, StreamType
<1>4. /\ e.ups = ups /\ Len(e.typed) = Len(typed)
      /\ \A n \in 1..Len(typed) : e.typed[n][1] = typed[n][1]
      /\ ~both => e.typed = typed
  BY <1>1, Zenon DEF Done
<1>5. Placed(chars, s.typed) /\ Excused(s) /\ Exact(s)
  BY <1>1, Zenon DEF Heard
<1>6. Subsequence(KeysOf(chars), KeysOf(typed))
  <2>1. PICK place \in [1..Len(chars) -> 1..Len(s.typed)] :
          /\ \A m, n \in 1..Len(chars) : m < n => place[m] < place[n]
          /\ \A n \in 1..Len(chars) : chars[n][1] = s.typed[place[n]][1]
    BY <1>5 DEF Placed
  <2>2. /\ DOMAIN chars = 1..Len(chars) /\ DOMAIN typed = 1..Len(typed)
        /\ Len(s.typed) \in Nat /\ Len(typed) \in Nat
    BY <1>2
  <2> DEFINE kc == KeysOf(chars)
             kt == KeysOf(typed)
  <2>3. /\ DOMAIN kc = 1..Len(chars) /\ \A n \in 1..Len(chars) : kc[n] = chars[n][1]
        /\ DOMAIN kt = 1..Len(typed) /\ \A n \in 1..Len(typed) : kt[n] = typed[n][1]
    BY <2>2 DEF KeysOf
  <2> HIDE DEF kc, kt
  <2>4. \A n \in 1..Len(s.typed) : n \in 1..Len(typed) /\ s.typed[n] = e.typed[n]
    BY <1>3, <1>4, <2>2 DEF Starts
  <2>5. place \in [1..Len(chars) -> 1..Len(typed)]
    BY <2>4
  <2>6. ASSUME NEW n \in 1..Len(chars) PROVE kc[n] = kt[place[n]]
    <3>1. place[n] \in 1..Len(s.typed)
      OBVIOUS
    <3> QED
      BY <1>4, <2>1, <2>3, <2>4, <3>1
  <2>7. Subsequence(kc, kt)
    BY <2>1, <2>3, <2>5, <2>6, Zenon DEF Subsequence
  <2> QED
    BY <2>7 DEF kc, kt
<1>7. ASSUME Drained PROVE Len(typed) - Len(chars) <= lost_to_full + ups
  <2>1. Stream = << >>
    BY <1>7 DEF Drained, Stream
  <2>2. s = e
    BY <1>1, <2>1, LeadsEmpty
  <2>3. Len(s.typed) <= Len(chars) + lost_to_full + s.ups
    BY <1>5 DEF Excused
  <2>4. Len(chars) \in Nat /\ Len(typed) \in Nat
    BY <1>2
  <2> QED
    BY <1>2, <1>4, <2>2, <2>3, <2>4
<1>8. ASSUME ups = 0, lost_to_full = 0, ~both PROVE IsPrefix(chars, typed)
  <2>1. s.ups = 0
    BY <1>2, <1>3, <1>4, <1>8
  <2>2. chars = s.typed
    BY <1>5, <1>8, <2>1, Zenon DEF Exact
  <2>3. Starts(chars, typed)
    BY <1>3, <1>4, <1>8, <2>2
  <2> QED
    BY <1>2, <2>3, StartsIsPrefix
<1> QED
  BY <1>6, <1>7, <1>8, Zenon

(* What is typed after a successful KBD_init arrives: in order, none twice *)
(* or out of nowhere, with no loss but to a full buffer and at most one    *)
(* character for each unknown key let go, and without such losses in the   *)
(* case it was typed with.  For any keys, any number of them pressed and   *)
(* let go in any order, any buffer and any interleaving of keyboard,       *)
(* interrupts and reader.                                                  *)
THEOREM TypedCharactersArrive == Spec => []TypedArrives
<1>1. Init => ArrivalInv
  BY ArrivalInvInit
<1>2. ArrivalInv /\ [Next]_vars => ArrivalInv'
  BY ArrivalInvStep
<1>3. ArrivalInv => TypedArrives
  <2> SUFFICES ASSUME ArrivalInv, pc = "ready"
               PROVE  /\ Subsequence(KeysOf(chars), KeysOf(typed))
                      /\ Drained => Len(typed) - Len(chars) <= lost_to_full + ups
                      /\ ups = 0 /\ lost_to_full = 0 /\ ~both => IsPrefix(chars, typed)
    BY Zenon DEF TypedArrives
  <2>1. TypeOK /\ Accounted
    BY DEF ArrivalInv, IInv, Arriving, Listening
  <2> QED
    BY <2>1, AccountArrives, Zenon
<1> QED
  BY <1>1, <1>2, <1>3, PTL DEF Spec
===============================================================================
