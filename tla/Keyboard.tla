------------------------------- MODULE Keyboard -------------------------------
(***************************************************************************)
(* The keyboard driver dev/keyboard.c with what lies below it: KBD_init    *)
(* talks to the PS/2 controller and the keyboard (both external) byte by   *)
(* byte, unmasks the line at the interrupt controller, and                 *)
(* keyboard_handler decodes scan codes into the characters getc returns.   *)
(*                                                                         *)
(* A scan code is the key's name: <<k>> when pressed, <<BREAK, k>> when    *)
(* let go, with E0 in front for an extended key.  The controller answers   *)
(* commands of its own at once (the code reads the configuration byte      *)
(* without waiting).  key_state is left out: nothing reads it.  The queue  *)
(* of sleeping readers and the buffer are modelled in Proc and CircBuff;   *)
(* here one reader and the number of characters stand for them.            *)
(***************************************************************************)
EXTENDS Integers, Sequences, SequencesExt

CONSTANTS
    CharKeys,       \* supported keys with a character
    ShiftKeys,      \* SC_LSHFT and SC_RSHFT
    OtherKeys,      \* keys the switch does not know
    Extended,       \* keys whose codes start with E0
    N_TRIES,
    BufCap,         \* characters keyb.circ_buff holds
    MaxResend,      \* bound: answers RESEND in a row
    MaxEarly,       \* bound: keys pressed while KBD_init runs
    MaxEvents       \* bound: keys pressed in all

Keys == CharKeys \cup ShiftKeys \cup OtherKeys

None == "none"
ACK == "ack"
RESEND == "resend"
SELF_TEST == "aa"           \* what the keyboard sends when its reset is done
BREAK == "f0"
E0 == "e0"

(* No key has the code of an answer or of a prefix (FA, FE, AA, F0, E0). *)
ASSUME KeyboardAssumption ==
    /\ Extended \subseteq Keys
    /\ CharKeys \cap ShiftKeys = {} /\ OtherKeys \cap (CharKeys \cup ShiftKeys) = {}
    /\ Keys \cap {None, ACK, RESEND, SELF_TEST, BREAK, E0} = {}
    /\ N_TRIES \in Nat \ {0} /\ BufCap \in Nat \ {0}
    /\ {MaxResend, MaxEarly, MaxEvents} \subseteq Nat /\ MaxEarly <= MaxEvents

(* What init_ps2_keyboard sends; the n-th failing makes it return -(n + 2). *)
Commands == <<"RST_KEYBOARD", "SCANCODE", "SET_SCANCODE_2", "ENABLE_SCAN">>

VARIABLES
    pc, cmd, tries, res,            \* KBD_init: where, which command, attempts, result
    obf, ibf, config,               \* controller: output and input buffer, configuration bits
    out, scanning, set, wants_set,  \* keyboard: bytes to send, state, 0xF0 received
    resends,
    masked, in_service, table,      \* PIC line 1; irq_handler_table[KEYBOARD_IRQ] is set
    halted,                         \* irq_handler found no handler
    release, mod_state,             \* keyboard_handler's static variable; keyb.mod_state
    buffered, reader,               \* keyb.circ_buff and keyb.blocked
    held, events,                   \* the user's hands
    typed, chars,                   \* history: characters typed, and accepted by producer_write
    lost_to_full, ups, both         \* history: see TypedArrives

driver == <<pc, cmd, tries, res>>
controller == <<obf, ibf, config>>
device == <<out, scanning, set, wants_set, resends>>
pic == <<masked, in_service, table, halted>>
handler == <<release, mod_state, buffered, reader>>
user == <<held, events, typed, ups, both>>
vars == <<driver, controller, device, pic, handler, user, chars, lost_to_full>>

Bytes == Keys \cup {ACK, RESEND, SELF_TEST, BREAK, E0}
ConfigBits == {"INT1", "INT2", "CLK1", "CLK2", "TRANS"}
Characters == CharKeys \X BOOLEAN       \* key and shift

TypeOK ==
    /\ pc \in {"configure", "self_test", "port_test", "write", "read",
               "set_handler", "clear_mask", "ready", "failed"}
    /\ cmd \in 1..Len(Commands) /\ tries \in 0..N_TRIES /\ res \in (-6)..1
    /\ obf \in Bytes \cup {None}
    /\ ibf \in Range(Commands) \cup {None}
    /\ config \subseteq ConfigBits
    /\ out \in Seq(Bytes)
    /\ {scanning, wants_set, masked, in_service, table, halted, release, both} \subseteq BOOLEAN
    /\ set \in {1, 2} /\ resends \in 0..MaxResend
    /\ mod_state \subseteq {"shift"}
    /\ buffered \in 0..BufCap
    /\ reader \in {"away", "asleep", "awake"}
    /\ held \subseteq Keys /\ events \in 0..MaxEvents
    /\ typed \in Seq(Characters) /\ chars \in Seq(Characters)
    /\ lost_to_full \in Nat /\ ups \in Nat

(* The firmware may leave a byte, an enabled keyboard and any set behind.  *)
(* IRQ_init has masked every line.                                         *)
Init ==
    /\ pc = "configure" /\ cmd = 1 /\ tries = 0 /\ res = 0
    /\ obf \in {None, SELF_TEST} /\ ibf = None
    /\ config = {"INT1", "TRANS"}
    /\ out = << >> /\ scanning \in BOOLEAN /\ set \in {1, 2} /\ wants_set = FALSE
    /\ resends = 0
    /\ masked = TRUE /\ in_service = FALSE /\ table = FALSE /\ halted = FALSE
    /\ release = FALSE /\ mod_state = {}
    /\ buffered = 0 /\ reader = "away"
    /\ held = {} /\ events = 0
    /\ typed = << >> /\ chars = << >>
    /\ lost_to_full = 0 /\ ups = 0 /\ both = FALSE

-----------------------------------------------------------------------------
(* KBD_init, in kmain's thread. *)

Fail(code) == pc' = "failed" /\ res' = code

(* init_ps2_controller up to the self test: both ports off, the output     *)
(* buffer flushed, the configuration read, changed and written.  CLK1 and  *)
(* CLK2 are set when a port is OFF, the reverse of what the code's comment *)
(* says: port 2 comes on here, and port 1 only with CMD_ENABLE_P1.         *)
configure ==
    /\ pc = "configure"
    /\ pc' = "self_test"
    /\ obf' = None
    /\ config' = (config \cup {"CLK1", "INT1"}) \ {"CLK2", "INT2", "TRANS"}
    /\ UNCHANGED <<cmd, tries, res, ibf, device, pic, handler, user, chars, lost_to_full>>

self_test(passed) ==
    /\ pc = "self_test"
    /\ IF passed THEN pc' = "port_test" /\ UNCHANGED res ELSE Fail(-1)
    /\ UNCHANGED <<cmd, tries, controller, device, pic, handler, user, chars, lost_to_full>>

(* ... the test of port 1, and CMD_ENABLE_P1. *)
port_test(passed) ==
    /\ pc = "port_test"
    /\ IF passed
         THEN pc' = "write" /\ config' = config \ {"CLK1"} /\ UNCHANGED res
         ELSE Fail(-2) /\ UNCHANGED config
    /\ UNCHANGED <<cmd, tries, obf, ibf, device, pic, handler, user, chars, lost_to_full>>

(* write_keyboard has returned resp to init_ps2_keyboard. *)
Answered(resp) ==
    IF resp # ACK
      THEN Fail(-(cmd + 2)) /\ UNCHANGED <<cmd, tries>>
      ELSE /\ tries' = 0
           /\ UNCHANGED res
           /\ IF cmd = Len(Commands)
                THEN pc' = "set_handler" /\ UNCHANGED cmd
                ELSE pc' = "write" /\ cmd' = cmd + 1

(* A slip: after the last attempt the answer counts as given. *)
write_keyboard_gives_in ==
    /\ pc = "write" /\ ibf = None
    /\ ibf' = Commands[cmd]
    /\ IF tries + 1 < N_TRIES
         THEN pc' = "read" /\ tries' = tries + 1 /\ UNCHANGED <<cmd, res>>
         ELSE Answered(ACK)
    /\ UNCHANGED <<obf, config, device, pic, handler, user, chars, lost_to_full>>

(* write_keyboard: one turn of its loop.  After the last attempt it does   *)
(* not read an answer, and returns the RESEND of the attempt before.       *)
write_keyboard ==
    /\ pc = "write" /\ ibf = None
    /\ ibf' = Commands[cmd]
    /\ IF tries + 1 < N_TRIES
         THEN pc' = "read" /\ tries' = tries + 1 /\ UNCHANGED <<cmd, res>>
         ELSE Answered(RESEND)
    /\ UNCHANGED <<obf, config, device, pic, handler, user, chars, lost_to_full>>

read_data ==
    /\ pc = "read" /\ obf # None
    /\ obf' = None
    /\ IF obf = RESEND THEN pc' = "write" /\ UNCHANGED <<cmd, tries, res>> ELSE Answered(obf)
    /\ UNCHANGED <<ibf, config, device, pic, handler, user, chars, lost_to_full>>

IRQ_set_handler ==
    /\ pc = "set_handler"
    /\ pc' = "clear_mask"
    /\ table' = TRUE
    /\ UNCHANGED <<cmd, tries, res, controller, device, masked, in_service, halted,
                   handler, user, chars, lost_to_full>>

IRQ_clear_mask ==
    /\ pc = "clear_mask"
    /\ pc' = "ready" /\ res' = 1
    /\ masked' = FALSE
    /\ UNCHANGED <<cmd, tries, controller, device, in_service, table, halted,
                   handler, user, chars, lost_to_full>>

-----------------------------------------------------------------------------
(* The keyboard and the controller (external). *)

(* A command arrives.  The keyboard asks for it again, or obeys.  It may   *)
(* forget the bytes it still had to send, and then keys that are down are  *)
(* reported only when pressed again.  It may scan after a reset or wait    *)
(* for ENABLE_SCAN.                                                        *)
device_command(resp, forget) ==
    /\ ibf # None /\ "CLK1" \notin config
    /\ resp = RESEND => resends < MaxResend
    /\ LET obeys(c) == ibf = c /\ resp = ACK
       IN /\ out' = (IF forget THEN << >> ELSE out) \o <<resp>>
                      \o (IF obeys("RST_KEYBOARD") THEN <<SELF_TEST>> ELSE << >>)
          /\ scanning' \in IF obeys("RST_KEYBOARD") THEN BOOLEAN
                          ELSE {scanning \/ obeys("ENABLE_SCAN")}
          /\ set' = IF obeys("RST_KEYBOARD") \/ (wants_set /\ obeys("SET_SCANCODE_2")) THEN 2 ELSE set
          /\ wants_set' = IF resp = ACK THEN ibf = "SCANCODE" ELSE wants_set
    /\ resends' = IF resp = RESEND THEN resends + 1 ELSE 0
    /\ ibf' = None
    /\ IF forget THEN held' = {} /\ typed' = << >> /\ ups' = 0 /\ both' = FALSE
                 ELSE UNCHANGED <<held, typed, ups, both>>
    /\ UNCHANGED <<driver, obf, config, pic, handler, events, chars, lost_to_full>>

(* A byte reaches the output buffer. *)
device_send ==
    /\ out # << >> /\ obf = None /\ "CLK1" \notin config
    /\ obf' = Head(out)
    /\ out' = Tail(out)
    /\ UNCHANGED <<driver, ibf, config, scanning, set, wants_set, resends, pic,
                   handler, user, chars, lost_to_full>>

Prefix(k) == IF k \in Extended THEN <<E0>> ELSE << >>

(* A key goes down, or repeats.  (After a failed KBD_init nobody listens.) *)
press(k) ==
    /\ scanning /\ pc # "failed"
    /\ events < IF pc = "ready" THEN MaxEvents ELSE MaxEarly
    /\ out' = out \o Prefix(k) \o <<k>>
    /\ held' = held \cup {k}
    /\ both' = (both \/ \E j, l \in held' \cap ShiftKeys : j # l)
    /\ events' = events + 1
    /\ typed' = IF k \in CharKeys THEN Append(typed, <<k, held \cap ShiftKeys # {}>>) ELSE typed
    /\ UNCHANGED <<driver, controller, scanning, set, wants_set, resends, pic, handler,
                   ups, chars, lost_to_full>>

let_go(k) ==
    /\ scanning /\ k \in held
    /\ out' = out \o Prefix(k) \o <<BREAK, k>>
    /\ held' = held \ {k}
    /\ ups' = ups + IF k \in OtherKeys THEN 1 ELSE 0
    /\ UNCHANGED <<driver, controller, scanning, set, wants_set, resends, pic, handler,
                   events, typed, both, chars, lost_to_full>>

-----------------------------------------------------------------------------
(* Interrupts.  The keyboard's line is raised while a byte waits in the    *)
(* output buffer; a line in service is not accepted again before EOI.      *)
irq_handler ==
    /\ obf # None /\ "INT1" \in config
    /\ ~masked /\ ~in_service
    /\ in_service' = TRUE
    /\ halted' = ~table
    /\ UNCHANGED <<driver, controller, device, masked, table, handler, user, chars, lost_to_full>>

(* A slip: the buffer never counts as full. *)
is_buffer_full_never == FALSE

is_buffer_full == buffered = BufCap

(* A slip: release survives the key it belongs to. *)
decode_keeps_release(byte) ==
    /\ release' = (release \/ byte = BREAK)
    /\ mod_state' = IF byte \in ShiftKeys
                      THEN (IF release THEN mod_state \ {"shift"} ELSE mod_state \cup {"shift"})
                      ELSE mod_state

(* The switch, and what becomes of release and mod_state.  Any other byte, *)
(* E0 too, changes nothing: release stays for the next key known.          *)
decode(byte) ==
    /\ release' = IF byte = BREAK THEN TRUE
                  ELSE IF byte \in CharKeys \cup ShiftKeys THEN FALSE
                  ELSE release
    /\ mod_state' = IF byte \in ShiftKeys
                      THEN (IF release THEN mod_state \ {"shift"} ELSE mod_state \cup {"shift"})
                      ELSE mod_state

(* A character key goes down: producer_write, and PROC_unblock_head, also  *)
(* when the buffer is full.                                                *)
deliver(c) ==
    /\ IF is_buffer_full
         THEN lost_to_full' = lost_to_full + 1 /\ UNCHANGED <<buffered, chars>>
         ELSE /\ buffered' = buffered + 1
              /\ chars' = Append(chars, c)
              /\ UNCHANGED lost_to_full
    /\ reader' = IF reader = "asleep" THEN "awake" ELSE reader

(* A slip: no IRQ_end_of_interrupt. *)
IRQ_end_of_interrupt_forgotten == UNCHANGED in_service

IRQ_end_of_interrupt == in_service' = FALSE

(* keyboard_handler.  Nothing but the keyboard runs meanwhile, and it can  *)
(* only fill the output buffer again, so the handler is one step.          *)
keyboard_handler ==
    /\ in_service /\ ~halted /\ obf # None
    /\ obf' = None
    /\ decode(obf)
    /\ IF obf \in CharKeys /\ ~release
         THEN deliver(<<obf, "shift" \in mod_state>>)
         ELSE UNCHANGED <<buffered, reader, chars, lost_to_full>>
    /\ IRQ_end_of_interrupt
    /\ UNCHANGED <<driver, ibf, config, device, masked, table, halted, user>>

(* getc_sys_call, or its wait_event again after a wake-up.  The user       *)
(* program starts when KBD_init has returned.                              *)
getc_sys_call ==
    /\ pc = "ready" /\ ~halted /\ reader # "asleep"
    /\ IF buffered = 0
         THEN reader' = "asleep" /\ UNCHANGED buffered
         ELSE reader' = "away" /\ buffered' = buffered - 1
    /\ UNCHANGED <<driver, controller, device, pic, release, mod_state, user, chars, lost_to_full>>

-----------------------------------------------------------------------------
KBD_init ==
    /\ ~halted
    /\ \/ configure
       \/ \E passed \in BOOLEAN : self_test(passed) \/ port_test(passed)
       \/ write_keyboard
       \/ read_data
       \/ IRQ_set_handler
       \/ IRQ_clear_mask

Device ==
    \/ \E resp \in {ACK, RESEND}, forget \in BOOLEAN : device_command(resp, forget)
    \/ device_send

User == \E k \in Keys : press(k) \/ let_go(k)

Next ==
    \/ KBD_init
    \/ Device
    \/ User
    \/ irq_handler
    \/ keyboard_handler
    \/ getc_sys_call

(* The initialising thread, the hardware and the handlers go on.  Nobody   *)
(* has to type or to read.                                                 *)
Fairness ==
    /\ WF_vars(KBD_init)
    /\ WF_vars(Device)
    /\ WF_vars(irq_handler)
    /\ WF_vars(keyboard_handler)

Spec == Init /\ [][Next]_vars /\ Fairness

-----------------------------------------------------------------------------
(* KBD_init returns 1 only when the keyboard scans, with set 2, its port   *)
(* is on and the controller passes its bytes on unchanged: also when       *)
(* commands were sent again, or when a key pressed or the self test's byte *)
(* came in place of an answer.                                             *)
InitHonest ==
    pc \in {"set_handler", "clear_mask", "ready"} =>
        scanning /\ set = 2 /\ config \cap {"CLK1", "TRANS", "INT1"} = {"INT1"}

(* The keys of characters in order, without regard to shift. *)
KeysOf(cs) == [n \in DOMAIN cs |-> cs[n][1]]
Subsequence(s, t) ==
    \E place \in [DOMAIN s -> DOMAIN t] :
        /\ \A m, n \in DOMAIN s : m < n => place[m] < place[n]
        /\ \A n \in DOMAIN s : s[n] = t[place[n]]

Drained == out = << >> /\ obf = None

(* What is typed arrives, in order and once.  With room in the buffer      *)
(* nothing is lost but at most one key for each key the driver does not    *)
(* know: release stays set behind its break code and takes the next key    *)
(* press for a key let go.  Without such keys, and as long as the two      *)
(* shift keys (which share a bit of mod_state) are not down together,      *)
(* every character also has the case it was typed with.                    *)
TypedArrives ==
    pc = "ready" =>
        /\ Subsequence(KeysOf(chars), KeysOf(typed))
        /\ Drained => Len(typed) - Len(chars) <= lost_to_full + ups
        /\ ups = 0 /\ lost_to_full = 0 /\ ~both => IsPrefix(chars, typed)

(* KBD_init ends, and from then on every byte the keyboard sends is taken  *)
(* from the controller: no interrupt is lost or left in service, and none  *)
(* finds irq_handler without a handler, which would stop the machine.      *)
Responsive ==
    /\ <>(pc \in {"ready", "failed"})
    /\ pc = "ready" ~> Drained /\ ~in_service /\ ~halted
===============================================================================
