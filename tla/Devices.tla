-------------------------------- MODULE Devices --------------------------------
(***************************************************************************)
(* The host's devices: start-up and event loop (src/src/main.rs), the pad  *)
(* (src/src/input.rs), audio ports (src/src/audio.rs), video output        *)
(* (src/src/video_out.rs) and message dialogs (src/src/common_dialog.rs).  *)
(*                                                                         *)
(* The event loop drains the host's queue of events, one at a time, and    *)
(* then publishes keys and controllers as one pad.  Each service keeps its *)
(* state under one lock: a call is one step.                               *)
(***************************************************************************)
EXTENDS Integers, Sequences, SequencesExt

CONSTANTS
  Keys,        \* keys the host's user presses
  MaxInputs,   \* bound: what the user does
  Formats,     \* audio formats games ask for
  Volumes,     \* volumes games set
  Samples,     \* samples games play, of 16 bits
  FirstPort,   \* first number of an audio port
  Buffers,     \* display buffers
  DialogModes  \* modes of message dialogs

ASSUME DevicesAssumption ==
  /\ MaxInputs \in Nat /\ FirstPort \in Nat
  /\ \A s \in Samples : s \in Int /\ -32768 <= s /\ s <= 32767

VARIABLES
  boot,        \* how far start-up has come, or how the program ended
  host,        \* subsystems of the host that could be started
  held,        \* keys the user holds
  gamepads,    \* controllers plugged in, in the host's order: number, buttons, stick
  gamepadCount,\* controllers plugged in so far
  replugged,   \* history: a controller has come after another had gone
  events,      \* the host's queue of events
  inputs,      \* what the user has done so far
  keys,        \* the loop's flags of the keys
  controllers, \* active_controllers: controllers by the number they are filed under
  pad,         \* PAD_STATE
  fresh,       \* history: published since the user last did something
  ports,       \* ACTIVE_PORTS
  nextPort,    \* PORT_COUNTER
  asked,       \* history: volumes last asked for, by port and channel
  played,      \* history: samples played, as they were and as they came out
  video,       \* VIDEO_OUT_STATE
  dialog       \* DIALOG_STATUS and DIALOG_MODE

inputVars  == <<held, gamepads, gamepadCount, replugged, events, inputs>>
loopVars   == <<boot, host, keys, controllers, pad, fresh>>
soundVars  == <<ports, nextPort, asked, played>>
screenVars == <<video, dialog>>
deviceVars == <<inputVars, loopVars, soundVars, screenVars>>

Centre == 127
Rest   == [buttons |-> {}, x |-> Centre, y |-> Centre]

\* Where start-up begins and the order it goes on in.
Stages == <<"sdl", "audio", "network", "controllers", "video", "window", "vulkan", "load", "loop">>

InitDevices ==
  /\ boot = "sdl" /\ host = {}
  /\ held = {} /\ gamepads \in {<< >>, <<[number |-> 0, buttons |-> {"circle"}, axis |-> -32768]>>}
  /\ gamepadCount = Len(gamepads)
  /\ replugged = FALSE /\ events = << >> /\ inputs = 0
  /\ keys = {} /\ controllers = << >> /\ pad = Rest /\ fresh = FALSE
  /\ ports = << >> /\ nextPort = FirstPort /\ asked = << >> /\ played = {}
  /\ video = [on |-> FALSE, count |-> 0, buffer |-> 0, arg |-> -1]
  /\ dialog = [status |-> 0, mode |-> 0]

-------------------------------------------------------------------------------
\* Start-up

Following(stage) == Stages[SelectInSeq(Stages, LAMBDA s : s = stage) + 1]

\* Without these there is nothing to run on; the rest can be missing.
Essential == {"sdl", "video", "window"}

\* Each stage succeeds or fails.  Controllers that are there are opened under
\* their places, and the host announces them as well; a program that does not
\* load leaves the loop idle.
Boot(ok) ==
  /\ boot \in Range(Stages) \ {"loop"}
  /\ boot' = IF boot \in Essential /\ ~ok THEN "failed" ELSE Following(boot)
  /\ host' = IF ok THEN host \cup {boot} ELSE host
  /\ controllers' = IF boot = "controllers" /\ ok
                    THEN [i \in {j - 1 : j \in DOMAIN gamepads} |-> gamepads[i + 1].number]
                    ELSE controllers
  /\ events' = IF boot = "controllers" /\ ok THEN [i \in DOMAIN gamepads |-> [is |-> "added", of |-> i - 1]]
               ELSE events
  /\ UNCHANGED <<held, gamepads, gamepadCount, replugged, inputs, keys, pad, fresh, soundVars, screenVars>>

Running  == boot = "loop"
GuestRuns == Running /\ "load" \in host

-------------------------------------------------------------------------------
\* The user and the host's queue of events

Happens(event) ==
  /\ Running
  /\ inputs < MaxInputs
  /\ inputs' = inputs + 1
  /\ events' = IF event.is \in {"added", "removed"} /\ "controllers" \notin host THEN events
               ELSE Append(events, event)
  /\ fresh' = FALSE
  /\ UNCHANGED <<boot, host, keys, controllers, pad, soundVars, screenVars>>

PressKey(k) ==
  /\ k \notin held
  /\ held' = held \cup {k}
  /\ Happens([is |-> "down", of |-> k])
  /\ UNCHANGED <<gamepads, gamepadCount, replugged>>

ReleaseKey(k) ==
  /\ k \in held
  /\ held' = held \ {k}
  /\ Happens([is |-> "up", of |-> k])
  /\ UNCHANGED <<gamepads, gamepadCount, replugged>>

\* The event names the controller's place; a controller has a number of its own
\* each time it is plugged in.
PlugIn ==
  /\ gamepads' = Append(gamepads, [number |-> gamepadCount, buttons |-> {"circle"}, axis |-> 32767])
  /\ gamepadCount' = gamepadCount + 1
  /\ replugged' = (replugged \/ gamepadCount > Len(gamepads))
  /\ Happens([is |-> "added", of |-> Len(gamepads)])
  /\ UNCHANGED held

\* The event names the controller's number.
Unplug ==
  /\ gamepads # << >>
  /\ gamepads' = Front(gamepads)
  /\ Happens([is |-> "removed", of |-> Last(gamepads).number])
  /\ UNCHANGED <<held, gamepadCount, replugged>>

-------------------------------------------------------------------------------
\* The event loop

Without(f, x) == [y \in DOMAIN f \ {x} |-> f[y]]

\* Defect: a key that is let go of is still down.
PollEventDownOnly ==
  /\ Running
  /\ events # << >>
  /\ events' = Tail(events)
  /\ LET e == Head(events) IN
     /\ boot' = boot
     /\ keys' = IF e.is = "down" THEN keys \cup {e.of} ELSE keys
     /\ controllers' = controllers
  /\ UNCHANGED <<held, gamepads, gamepadCount, replugged, inputs, host, pad, fresh, soundVars, screenVars>>

\* One event of the queue.  Escape and the window's end leave the loop at once.
\* A controller is filed under the place it has when the event is handled.
PollEvent ==
  /\ Running
  /\ events # << >>
  /\ events' = Tail(events)
  /\ LET e == Head(events) IN
     /\ boot' = IF e.is = "down" /\ e.of = "escape" THEN "ended" ELSE boot
     /\ keys' = CASE e.is = "down" -> keys \cup {e.of}
                  [] e.is = "up"   -> keys \ {e.of}
                  [] OTHER         -> keys
     /\ controllers' =
          CASE e.is = "added" /\ e.of < Len(gamepads) ->
                 [i \in DOMAIN controllers \cup {e.of} |->
                    IF i = e.of THEN gamepads[e.of + 1].number ELSE controllers[i]]
            [] e.is = "removed" -> Without(controllers, e.of)
            [] OTHER -> controllers
  /\ UNCHANGED <<held, gamepads, gamepadCount, replugged, inputs, host, pad, fresh, soundVars, screenVars>>

\* From 16 bits with a sign to 8 bits without.
Scaled(axis) == ((axis + 32768) * 255) \div 65535

\* What a controller shows; one that has been unplugged is at rest.
Shown(number) ==
  IF \E i \in DOMAIN gamepads : gamepads[i].number = number
    THEN LET g == CHOOSE g \in Range(gamepads) : g.number = number
         IN  [buttons |-> g.buttons, x |-> Scaled(g.axis), y |-> Scaled(g.axis)]
    ELSE [buttons |-> {}, x |-> Scaled(0), y |-> Scaled(0)]

\* Keys are added to the controller's buttons and move its stick aside, the
\* right and the lower ones last.
Merged(shown, down) ==
  [buttons |-> shown.buttons \cup (IF "space" \in down THEN {"cross"} ELSE {})
                             \cup (IF "return" \in down THEN {"options"} ELSE {}),
   x |-> IF {"d", "right"} \cap down # {} THEN 255
         ELSE IF {"a", "left"} \cap down # {} THEN 0 ELSE shown.x,
   y |-> IF {"s", "down"} \cap down # {} THEN 255
         ELSE IF {"w", "up"} \cap down # {} THEN 0 ELSE shown.y]

\* update_global_pad_state, once the queue is empty: the first controller there
\* is, which may be any of them.
PublishPad ==
  /\ Running
  /\ events = << >>
  /\ IF controllers = << >> THEN pad' = Merged(Rest, keys)
     ELSE \E i \in DOMAIN controllers : pad' = Merged(Shown(controllers[i]), keys)
  /\ fresh' = TRUE
  /\ UNCHANGED <<inputVars, boot, host, keys, controllers, soundVars, screenVars>>

-------------------------------------------------------------------------------
\* Audio ports

Channels(format) == CASE format \in {0, 3} -> 1 [] format \in {1, 4} -> 2 [] format \in {2, 5, 6, 7} -> 8
IsFloat(format)  == format >= 3 /\ format # 6
Valid(format)    == format \in 0 .. 7

FullVolume == 32768

\* sceAudioOutOpen, when the host has a device for it.
OpenPort(format) ==
  /\ Valid(format)
  /\ "audio" \in host
  /\ ports' = [p \in DOMAIN ports \cup {nextPort} |->
       IF p = nextPort THEN [channels |-> Channels(format), float |-> IsFloat(format),
                             volume |-> [c \in 0 .. 7 |-> FullVolume]]
       ELSE ports[p]]
  /\ asked' = [p \in DOMAIN asked \cup {nextPort} |->
                 IF p = nextPort THEN [c \in 0 .. 7 |-> FullVolume] ELSE asked[p]]
  /\ nextPort' = nextPort + 1
  /\ UNCHANGED <<inputVars, loopVars, played, screenVars>>

ClosePort(p) ==
  /\ p \in DOMAIN ports
  /\ ports' = Without(ports, p)
  /\ UNCHANGED <<inputVars, loopVars, nextPort, asked, played, screenVars>>

\* sceAudioOutSetVolume: one volume for all the channels of the flag.
SetVolume(p, flag, volume) ==
  /\ p \in DOMAIN ports
  /\ ports' = [ports EXCEPT ![p].volume = [c \in 0 .. 7 |-> IF c \in flag THEN volume ELSE @[c]]]
  /\ asked' = [asked EXCEPT ![p] = [c \in 0 .. 7 |-> IF c \in flag THEN volume ELSE @[c]]]
  /\ UNCHANGED <<inputVars, loopVars, nextPort, played, screenVars>>

\* 16 bits with a sign, and division towards zero.
Wrapped16(x)   == ((x + 32768) % 65536) - 32768
TowardsZero(x) == IF x >= 0 THEN x \div FullVolume ELSE -((-x) \div FullVolume)

Attenuated(sample, volume) == Wrapped16(TowardsZero(sample * volume))

\* sceAudioOutOutput of a frame: at most the first two channels are heard, each
\* at its own volume.  A port of floating point numbers does not round.
Output(p, sample) ==
  /\ p \in DOMAIN ports
  /\ played' = played \cup
       {[channel |-> c, port |-> p, float |-> ports[p].float, in |-> sample, volume |-> asked[p][c],
         out |-> IF ports[p].float THEN sample * ports[p].volume[c]
                 ELSE Attenuated(sample, ports[p].volume[c])] :
          c \in 0 .. (IF ports[p].channels = 1 THEN 0 ELSE 1)}
  /\ UNCHANGED <<inputVars, loopVars, ports, nextPort, asked, screenVars>>

-------------------------------------------------------------------------------
\* Video output and dialogs

OpenVideo  == video' = [video EXCEPT !.on = TRUE] /\ UNCHANGED <<inputVars, loopVars, soundVars, dialog>>
CloseVideo == video' = [video EXCEPT !.on = FALSE] /\ UNCHANGED <<inputVars, loopVars, soundVars, dialog>>

\* sceVideoOutSubmitFlip, whether the output is open or not.
SubmitFlip(buffer, arg) ==
  /\ video' = [video EXCEPT !.count = @ + 1, !.buffer = buffer, !.arg = arg]
  /\ UNCHANGED <<inputVars, loopVars, soundVars, dialog>>

SetDialog(status, mode) ==
  /\ dialog' = [status |-> status, mode |-> mode]
  /\ UNCHANGED <<inputVars, loopVars, soundVars, video>>

InitializeDialog == SetDialog(1, dialog.mode)

\* sceMsgDialogOpen finishes at once; without parameters the mode is the last one.
OpenDialog(mode) == SetDialog(3, mode)
OpenBareDialog   == SetDialog(3, dialog.mode)

\* sceMsgDialogTerminate and sceMsgDialogClose.
EndDialog == SetDialog(0, dialog.mode)

-------------------------------------------------------------------------------
\* The pad a guest reads is what the user does, keys and controller alike,
\* once the loop has published after the user's last input, whatever way the
\* events took, as long as no controller has come back after one had gone (the
\* event loop of main, update_global_pad_state, scePadReadState).
PadShowsTheUser ==
  Running /\ fresh /\ ~replugged =>
    IF gamepads = << >> \/ "controllers" \notin host THEN pad = Merged(Rest, held)
    ELSE \E g \in Range(gamepads) : pad = Merged(Shown(g.number), held)

\* A sample is heard at the volume its channel was last asked to have, never
\* louder than it is nor inside out (sceAudioOutOutput, sceAudioOutSetVolume).
SamplesKeepTheirShape ==
  \A s \in played :
    ~s.float /\ s.volume \in 0 .. FullVolume =>
      /\ s.in >= 0 => s.out \in 0 .. s.in
      /\ s.in <= 0 => s.out \in s.in .. 0
      /\ s.volume = FullVolume => s.out = s.in

\* What passes between the user and the guest is not distorted: what is pressed gets
\* to the pad, and what is played to the loudspeaker.
DevicesAreFaithful == PadShowsTheUser /\ SamplesKeepTheirShape
===============================================================================
