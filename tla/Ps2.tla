-------------------------------- MODULE Ps2 --------------------------------
\* drivers/keyboard/ps2.c and keyboard.c with the polling loops of the shell and
\* of core/desktop.c, against a model of the i8042 controller and its two
\* devices.  A byte is a number; the controller hands over one at a time and
\* says whether it comes from the second port.
EXTENDS Integers, Sequences, SequencesExt

CONSTANTS
    Keys,         \* scan codes that may be typed
    Packets,      \* packets that the mouse may send
    MaxKeys, MaxPackets, MaxResends,
    Quiet,        \* TRUE: nobody types while the desktop starts
    Slow          \* TRUE: an answer may take longer than the driver waits for it

ACK == 250
RESEND == 254
PASSED == 170
PortBits == [first |-> 4, second |-> 5]      \* the clock bits of the configuration byte

Ps2Assumption ==
    /\ Keys \subseteq 0..255 /\ Packets \subseteq [1..3 -> 0..255]
    /\ \A p \in Packets : (p[1] \div 8) % 2 = 1
    /\ {MaxKeys, MaxPackets, MaxResends} \subseteq Nat /\ {Quiet, Slow} \subseteq BOOLEAN

VARIABLES
    config, out,           \* the controller: configuration byte, output buffer
    queue,                 \* bytes that the controller and the devices hold back
    mouse,                 \* [present, reporting]
    resends,               \* how often a device has asked for a repetition
    phase, pc, tries, byte,
    controller_ok, keyboard_ok, mouse_ok, packet,
    turn,                  \* whose turn it is in the loop of the desktop
    late,                  \* an answer was still on its way when the driver gave up
    typed, sent,           \* what the user did
    keys, moves            \* what keyboard_poll and ps2_mouse_poll have returned

hardware == <<config, out, queue, mouse, resends>>
driver == <<phase, pc, tries, byte, controller_ok, keyboard_ok, mouse_ok, packet, turn>>
ends == <<late, typed, sent, keys, moves>>
vars == <<hardware, driver, ends>>

Bit(n, k) == (n \div 2^k) % 2 = 1
Clear(n, k) == IF Bit(n, k) THEN n - 2^k ELSE n
Set(n, k) == IF Bit(n, k) THEN n ELSE n + 2^k

\* The two initializations, one port access or wait after the other.
Boot ==          \* keyboard_init: ps2_controller_init, ps2_keyboard_initialize
    <<<<"disable", "first">>, <<"disable", "second">>, <<"flush", "">>,
      <<"ask", "">>, <<"config", "">>, <<"store", "boot">>, <<"enable", "first">>,
      <<"tell", "first", "reset">>, <<"expect", {ACK}>>, <<"expect", {PASSED, 0}>>,
      <<"tell", "first", "set">>, <<"ack", "">>, <<"tell", "first", "two">>, <<"ack", "">>,
      <<"tell", "first", "enable">>, <<"ack", "">>>>


Startup ==       \* ps2_mouse_initialize
    <<<<"enable", "second">>, <<"ask", "">>, <<"config", "">>, <<"store", "startup">>,
      <<"tell", "second", "reset">>, <<"ack", "">>,
      <<"expect", {PASSED}>>, <<"expect", 0..255>>,
      <<"tell", "second", "defaults">>, <<"ack", "">>, <<"tell", "second", "enable">>, <<"ack", "">>>>

Program == IF phase = "boot" THEN Boot ELSE Startup
Step == Program[pc]
At(op) == phase \in {"boot", "startup"} /\ Step[1] = op

Init ==
    /\ config \in {Set(0, 4), 0} /\ out = <<>>
    /\ queue = [controller |-> <<>>, first |-> <<>>, second |-> <<>>]
    /\ mouse \in [present : BOOLEAN, reporting : {FALSE}] /\ resends = 0
    /\ phase = "boot" /\ pc = 1 /\ tries = 0 /\ byte = 0
    /\ controller_ok = FALSE /\ keyboard_ok = FALSE /\ mouse_ok = FALSE
    /\ packet = <<>> /\ turn = "mouse"
    /\ late = FALSE /\ typed = <<>> /\ sent = <<>> /\ keys = <<>> /\ moves = <<>>

----------------------------------------------------------------------------
\* The last step of an initialization sets the flag that says it worked.
Finish(ok) ==
    /\ phase' = IF phase = "boot" THEN "shell" ELSE "session"
    /\ pc' = 1 /\ tries' = 0
    /\ keyboard_ok' = IF phase = "boot" THEN ok ELSE keyboard_ok
    /\ mouse_ok' = IF phase = "startup" THEN ok ELSE mouse_ok

Advance ==
    IF pc = Len(Program) THEN Finish(TRUE)
    ELSE pc' = pc + 1 /\ tries' = 0 /\ UNCHANGED <<phase, keyboard_ok, mouse_ok>>

Fail == Finish(FALSE)

Idles == UNCHANGED <<packet, turn, ends>>

\* write_command of a port's clock, and of "read the configuration byte".
Switch ==
    /\ At("disable") \/ At("enable")
    /\ config' = IF Step[1] = "disable" THEN Set(config, PortBits[Step[2]])
                                        ELSE Clear(config, PortBits[Step[2]])
    /\ controller_ok' = (controller_ok \/ <<phase, Step>> = <<"boot", <<"enable", "first">>>>)
    /\ Advance /\ Idles
    /\ UNCHANGED <<out, queue, mouse, resends, byte>>

Ask ==
    /\ At("ask")
    /\ queue' = [queue EXCEPT !.controller = Append(@, config)]
    /\ Advance /\ Idles
    /\ UNCHANGED <<config, out, mouse, resends, byte, controller_ok>>

Flush ==
    /\ At("flush")
    /\ IF out = <<>> THEN Advance ELSE UNCHANGED <<phase, pc, tries, keyboard_ok, mouse_ok>>
    /\ out' = <<>> /\ Idles
    /\ UNCHANGED <<config, queue, mouse, resends, byte, controller_ok>>

\* read_wait: the byte that is first in the output buffer, whoever sent it.
ReadConfig ==
    /\ At("config") /\ out # <<>>
    /\ byte' = out[1].v /\ out' = <<>>
    /\ Advance /\ Idles
    /\ UNCHANGED <<config, queue, mouse, resends, controller_ok>>

Store ==
    /\ At("store")
    /\ config' = IF Step[2] = "boot"
                 THEN Clear(Clear(Clear(Set(Set(byte, 6), 5), 0), 1), 4)
                 ELSE Clear(Clear(byte, 1), 5)
    /\ Advance /\ Idles
    /\ UNCHANGED <<out, queue, mouse, resends, byte, controller_ok>>

\* A device takes a command and answers; a reset drops what it held back.  It
\* may ask to have the command repeated.  An absent mouse says nothing.
Answer(what) ==
    IF what # "reset" THEN <<ACK>>
    ELSE IF Step[2] = "first" THEN <<ACK, PASSED>> ELSE <<ACK, PASSED, 0>>

Tell ==
    /\ At("tell")
    /\ IF Step[2] = "second" /\ ~mouse.present THEN UNCHANGED <<queue, mouse, resends>>
       ELSE \/ /\ queue' = [queue EXCEPT ![Step[2]] =
                              (IF Step[3] = "reset" THEN <<>> ELSE @) \o Answer(Step[3])]
               /\ mouse' = IF Step[2] = "first" THEN mouse
                           ELSE [mouse EXCEPT !.reporting = (Step[3] = "enable")]
               /\ UNCHANGED resends
            \/ /\ resends < MaxResends /\ Program[pc + 1][1] = "ack"
               /\ resends' = resends + 1
               /\ queue' = [queue EXCEPT ![Step[2]] = Append(@, RESEND)]
               /\ UNCHANGED mouse
    /\ pc' = pc + 1 /\ Idles
    /\ UNCHANGED <<config, out, phase, tries, byte, controller_ok, keyboard_ok, mouse_ok>>

\* mouse_command and ps2_keyboard_command wait for the answer and try again.
Ack ==
    /\ At("ack") /\ out # <<>>
    /\ out' = <<>> /\ Idles
    /\ IF out[1].v = ACK THEN Advance
       ELSE IF out[1].v = RESEND /\ tries < 2
       THEN /\ pc' = pc - 1 /\ tries' = tries + 1
            /\ UNCHANGED <<phase, keyboard_ok, mouse_ok>>
       ELSE Fail
    /\ UNCHANGED <<config, queue, mouse, resends, byte, controller_ok>>

Expect ==
    /\ At("expect") /\ out # <<>>
    /\ out' = <<>> /\ Idles
    /\ IF out[1].v \in Step[2] THEN Advance ELSE Fail
    /\ UNCHANGED <<config, queue, mouse, resends, byte, controller_ok>>

Loadable ==
    {q \in {"controller", "first", "second"} :
       queue[q] # <<>> /\ (q # "controller" => ~Bit(config, PortBits[q]))}

\* wait_output_full gives up after PS2_TIMEOUT readings of the status, whether or not a byte
\* is on its way.
TimesOut ==
    /\ At("config") \/ At("ack") \/ At("expect")
    /\ out = <<>> /\ (Slow \/ Loadable = {})
    /\ late' = (late \/ Loadable # {})
    /\ Fail /\ UNCHANGED <<hardware, byte, controller_ok, packet, turn, typed, sent, keys, moves>>

\* wait_input_empty gives up on a controller that does not take the next byte.
Refused ==
    /\ Slow /\ \E op \in {"disable", "enable", "ask", "store", "tell"} : At(op)
    /\ Fail /\ Idles
    /\ UNCHANGED <<hardware, byte, controller_ok>>

----------------------------------------------------------------------------
\* Mutant: the bit that marks the second port's bytes is not looked at.
ps2_data_available_any == controller_ok /\ out # <<>>

\* keyboard_poll, from the shell and, in its turn, from the desktop: a byte
\* of the first port, when it heads the output buffer, is a scan code.
ps2_data_available == controller_ok /\ out # <<>> /\ ~out[1].aux

KeyPoll ==
    /\ phase \in {"shell", "session"} /\ (phase = "session" => turn = "keyboard")
    /\ IF keyboard_ok /\ ps2_data_available
       THEN keys' = Append(keys, out[1].v) /\ out' = <<>>
       ELSE UNCHANGED <<keys, out>>
    /\ turn' = "mouse"
    /\ UNCHANGED <<config, queue, mouse, resends, phase, pc, tries, byte, controller_ok,
                   keyboard_ok, mouse_ok, packet, late, typed, sent, moves>>

\* The bytes of a packet so far; one that does not start a packet is dropped.
MousePacket(v) == IF packet = <<>> /\ ~Bit(v, 3) THEN <<>> ELSE Append(packet, v)

\* ps2_mouse_poll: the desktop repeats it while it returns whole packets.
MousePoll ==
    /\ phase = "session" /\ turn = "mouse"
    /\ IF mouse_ok /\ out # <<>> /\ out[1].aux
       THEN LET p == MousePacket(out[1].v)
                whole == Len(p) = 3
                good == whole /\ ~Bit(p[1], 6) /\ ~Bit(p[1], 7)
            IN  /\ out' = <<>>
                /\ packet' = IF whole THEN <<>> ELSE p
                /\ moves' = IF good THEN Append(moves, p) ELSE moves
                /\ turn' = IF good THEN "mouse" ELSE "keyboard"
       ELSE turn' = "keyboard" /\ UNCHANGED <<out, packet, moves>>
    /\ UNCHANGED <<config, queue, mouse, resends, phase, pc, tries, byte, controller_ok,
                   keyboard_ok, mouse_ok, late, typed, sent, keys>>

\* desktop_run begins with ps2_mouse_initialize.
desktop_run ==
    /\ phase = "shell"
    /\ Quiet => typed = keys
    /\ IF controller_ok THEN phase' = "startup" ELSE phase' = "session"
    /\ mouse_ok' = FALSE /\ packet' = <<>> /\ turn' = "mouse"
    /\ UNCHANGED <<hardware, pc, tries, byte, controller_ok, keyboard_ok, ends>>

----------------------------------------------------------------------------
\* The controller fills its output buffer from a port whose clock is on.
Load ==
    \E q \in Loadable :
      /\ out = <<>>
      /\ out' = <<[aux |-> q = "second", v |-> Head(queue[q])]>>
      /\ queue' = [queue EXCEPT ![q] = Tail(@)]
      /\ UNCHANGED <<config, mouse, resends, driver, ends>>

Type ==
    \E k \in Keys :
      /\ Len(typed) < MaxKeys /\ keyboard_ok
      /\ Quiet => phase # "startup"
      /\ typed' = Append(typed, k)
      /\ queue' = [queue EXCEPT !.first = Append(@, k)]
      /\ UNCHANGED <<config, out, mouse, resends, driver, late, sent, keys, moves>>

Move ==
    \E p \in Packets :
      /\ Len(sent) < MaxPackets /\ mouse.reporting
      /\ sent' = Append(sent, p)
      /\ queue' = [queue EXCEPT !.second = @ \o p]
      /\ UNCHANGED <<config, out, mouse, resends, driver, late, typed, keys, moves>>

Initializes ==
    \/ Switch \/ Ask \/ Flush \/ ReadConfig \/ Store \/ Tell \/ Ack \/ Expect
    \/ TimesOut \/ Refused

Next == Initializes \/ KeyPoll \/ MousePoll \/ desktop_run \/ Load \/ Type \/ Move

\* The driver runs on, its callers poll for ever, and the controller fills its
\* output buffer.  Nobody has to type, move the mouse or start the desktop.
Spec ==
    /\ Init /\ [][Next]_vars
    /\ WF_vars(Initializes) /\ WF_vars(KeyPoll) /\ WF_vars(MousePoll) /\ WF_vars(Load)

----------------------------------------------------------------------------
Sound(p) == ~Bit(p[1], 6) /\ ~Bit(p[1], 7)

\* Nothing is lost, torn, invented or taken for something else on the way: the
\* shell and the desktop see scan codes in the order in which they were typed,
\* and whole packets in the order in which the mouse sent them, although both
\* pass through one buffer and answers to commands pass through it as well.  An
\* answer that comes after an initialization has stopped waiting for it is excepted:
\* keyboard_poll takes a late configuration byte for a scan code, and mouse_command a late
\* answer of the keyboard for the mouse's.
InputIntact == ~late => IsPrefix(keys, typed) /\ IsPrefix(moves, SelectSeq(sent, Sound))

KeyWaiting == keyboard_ok /\ (queue.first # <<>> \/ ps2_data_available)

\* With the keyboard initialized, what it holds is read by the shell or the
\* desktop in the end, whether there is no mouse, the mouse answers something else or
\* the controller takes no more commands.  A mouse that answers only after
\* ps2_mouse_initialize gave up is excepted: its byte stays in the buffer, because
\* ps2_mouse_poll does not read without mouse_ok and ps2_data_available leaves it.
KeysServed == KeyWaiting ~> (~KeyWaiting \/ late)

=============================================================================
