---------------------------- MODULE LedController ----------------------------
(***************************************************************************)
(* The LED of a board: the RGB LED of the controller                       *)
(* (controller/.../ledcontroller.c), the active-low LED of a satellite on  *)
(* an ESP32-C6, and the satellites that have none, for which the same      *)
(* functions do nothing (satellite/.../ledcontroller.c).                   *)
(*                                                                         *)
(* One brightness component stands for the three of a colour; a plain LED  *)
(* has full brightness only.  A write to the RGB LED may fail, and no      *)
(* caller is told.  Update is what ledcontroller_update does when it is    *)
(* called; nothing in the repository calls it, so nothing is assumed about *)
(* when it is.                                                             *)
(***************************************************************************)
EXTENDS Naturals

CONSTANTS Full,        \* 255
          Durations,   \* milliseconds a caller may ask for
          MaxAge       \* bound of the modelled time in one phase

ASSUME FullAssumption == Full \in Nat \ {0}
ASSUME DurationsAssumption == Durations \subseteq 0 .. MaxAge /\ MaxAge \in Nat \ {0}

VARIABLES board,   \* "rgb", "gpio" or "none"
          led,     \* the variables of ledcontroller.c
          lamp,    \* the light that is seen
          stale,   \* the last write failed, or none was made yet
          asked,   \* history: the last command
          age      \* history: time since the command or the last change of phase

ledVars == <<board, led, lamp, stale, asked, age>>

Level  == 0 .. Full
Colors == IF board = "rgb" THEN Level ELSE {Full}

\* on, phase and left are s_on, s_blink_on (s_state, s_blink_state) and the time
\* to s_next_transition_us.
Request(kind, c, onMs, offMs) ==
  [kind |-> kind, color |-> c, onMs |-> onMs, offMs |-> offMs,
   changed |-> FALSE, repainted |-> FALSE]

LedInit ==
  /\ board \in {"rgb", "gpio", "none"}
  /\ led = [initialized |-> FALSE, on |-> FALSE, color |-> 0, brightness |-> Full,
            blinking |-> FALSE, phase |-> FALSE, blinkColor |-> 0,
            onMs |-> 0, offMs |-> 0, left |-> 0]
  /\ lamp \in IF board = "rgb" THEN Level ELSE {0}
  /\ stale = (board # "none")
  /\ asked = Request("nothing", 0, 1, 1)
  /\ age = 0

-----------------------------------------------------------------------------
(* Writing to the LED. *)

Scale(value, brightness) == (value * brightness) \div Full

\* ledcontroller_write and led_strip_clear: light l, or an error nobody sees.
Write(l) == \/ lamp' = l /\ stale' = FALSE
            \/ board = "rgb" /\ stale' = TRUE /\ UNCHANGED lamp

\* A command puts the variables into state s and shows light l; without an LED
\* s_state and s_blinking stay false.
Show(s, l) ==
  IF board = "none"
  THEN led' = [led EXCEPT !.on = FALSE, !.blinking = FALSE] /\ UNCHANGED <<lamp, stale>>
  ELSE led' = s /\ Write(l)

\* A command is remembered; `changed' says whether its blink has changed phase
\* since, `repainted' whether the brightness was changed over the light it shows.
Asked(request) == /\ asked' = request
                  /\ age' = 0
                  /\ UNCHANGED board

-----------------------------------------------------------------------------
(* The functions. *)

\* ledcontroller_init: the RGB LED is initialized even if it cannot be cleared.
\* Creating its driver may fail, which changes nothing.
Initialize ==
  /\ ~led.initialized
  /\ led' = [led EXCEPT !.initialized = TRUE]
  /\ IF board = "none" THEN UNCHANGED <<lamp, stale>> ELSE Write(0)
  /\ Asked(Request("off", 0, 1, 1))

\* ledcontroller_off and _stop.
Off ==
  /\ led.initialized
  /\ Show([led EXCEPT !.blinking = FALSE, !.on = FALSE], 0)
  /\ Asked(Request("off", 0, 1, 1))

\* ledcontroller_set_rgb, _set_color, _on.
Solid(c) ==
  /\ led.initialized
  /\ Show([led EXCEPT !.blinking = FALSE, !.color = c, !.on = (c # 0)],
          Scale(c, led.brightness))
  /\ Asked(Request("solid", c, 1, 1))

\* ledcontroller_toggle of the satellite, by what the LED shows, also in a blink.
Toggle == /\ board # "rgb"
          /\ IF led.on THEN Off ELSE Solid(Full)

\* Zero would make the update loop change phase all the time.
AtLeastOne(ms) == IF ms = 0 THEN 1 ELSE ms

Blink(c, onMs, offMs) ==
  /\ led.initialized
  /\ Show([led EXCEPT !.blinking = TRUE, !.phase = TRUE, !.on = TRUE, !.blinkColor = c,
                      !.onMs = AtLeastOne(onMs), !.offMs = AtLeastOne(offMs),
                      !.left = AtLeastOne(onMs)],
          Scale(c, led.brightness))
  /\ Asked(Request("blink", c, AtLeastOne(onMs), AtLeastOne(offMs)))

\* Mutant of SetBrightness: the LED is written whether it is on or not.
SetBrightnessAlways(b) ==
  /\ board = "rgb"
  /\ led' = [led EXCEPT !.brightness = b]
  /\ IF led.initialized
     THEN Write(Scale(led.color, b)) ELSE UNCHANGED <<lamp, stale>>
  /\ asked' = [asked EXCEPT !.repainted = led.on]
  /\ UNCHANGED <<board, age>>

\* ledcontroller_set_brightness: an LED that is on is written again at once, with
\* the colour of the last solid command even while it blinks.
SetBrightness(b) ==
  /\ board = "rgb"
  /\ led' = [led EXCEPT !.brightness = b]
  /\ IF led.initialized /\ led.on
     THEN Write(Scale(led.color, b)) ELSE UNCHANGED <<lamp, stale>>
  /\ asked' = [asked EXCEPT !.repainted = led.on]
  /\ UNCHANGED <<board, age>>

\* Mutant of Update: each phase gets the time of the other.
UpdateSwapped ==
  /\ led.initialized /\ led.blinking /\ led.left = 0
  /\ LET lit == ~led.phase IN
       Show([led EXCEPT !.phase = lit, !.on = lit,
                        !.left = IF lit THEN led.offMs ELSE led.onMs],
            IF lit THEN Scale(led.blinkColor, led.brightness) ELSE 0)
  /\ Asked([asked EXCEPT !.changed = TRUE, !.repainted = FALSE])

\* ledcontroller_update once the time has come.
Update ==
  /\ led.initialized /\ led.blinking /\ led.left = 0
  /\ LET lit == ~led.phase IN
       Show([led EXCEPT !.phase = lit, !.on = lit,
                        !.left = IF lit THEN led.onMs ELSE led.offMs],
            IF lit THEN Scale(led.blinkColor, led.brightness) ELSE 0)
  /\ Asked([asked EXCEPT !.changed = TRUE, !.repainted = FALSE])

Tick ==
  /\ led.blinking /\ age < MaxAge
  /\ led' = [led EXCEPT !.left = IF @ > 0 THEN @ - 1 ELSE 0]
  /\ age' = age + 1
  /\ UNCHANGED <<board, lamp, stale, asked>>

LedNext ==
  \/ Initialize \/ Off \/ Toggle \/ Update \/ Tick
  \/ \E c \in Colors : Solid(c)
  \/ \E c \in Colors, onMs, offMs \in Durations : Blink(c, onMs, offMs)
  \/ \E b \in Level : SetBrightness(b)

LedSpec == LedInit /\ [][LedNext]_ledVars

-----------------------------------------------------------------------------
(* Properties. *)

\* The last command asks for light now.
Lit == \/ asked.kind = "solid" /\ asked.color # 0
       \/ asked.kind = "blink" /\ led.phase

\* However commands, phases and changes of brightness follow each other, the LED is
\* blinking and logically on (ledcontroller_is_on) just when the last command asks
\* for it, even if writes fail.  Unless the last write failed, it is dark while the
\* command asks for no light, whatever was done to the brightness meanwhile, and
\* otherwise shows the command's colour at the brightness of that time: that of
\* the command or, in a blink, of the phase.  Of a light whose brightness was
\* changed nothing is demanded until the next command or phase: ledcontroller.h
\* has the brightness apply to subsequent colour updates, the code repaints at
\* once, and in a blink with the colour of an earlier command.  A board without
\* an LED shows nothing and never reports one that is on.
LampFollowsCommand ==
  /\ board = "none" => lamp = 0 /\ ~led.on
  /\ led.initialized /\ board # "none" =>
       /\ led.blinking = (asked.kind = "blink")
       /\ led.on = Lit
       /\ ~stale /\ ~Lit => lamp = 0
       /\ ~stale /\ Lit /\ ~asked.repainted => lamp = Scale(asked.color, led.brightness)

\* A phase of a blink lasts as long as was asked for it, and at least a
\* millisecond, however often and however late the update is called.
PhasesLast ==
  [][asked'.changed /\ led'.phase # led.phase
     => age >= IF led.phase THEN asked.onMs ELSE asked.offMs]_ledVars
=============================================================================
