-------------------------------- MODULE Kbd --------------------------------
(***************************************************************************)
(* The keyboard (devices/kbd.c): keyboard_interrupt() follows the shift    *)
(* keys and Caps Lock by the scancodes of presses and releases, and turns  *)
(* the other presses into characters.  Characters are ASCII codes.         *)
(***************************************************************************)
EXTENDS Integers, FiniteSets, Sequences

CONSTANT Key   \* the keys of the keyboard, by scancode, 57344 added after a prefix

VARIABLES
  state_var,   \* of the shift keys: which ones are depressed
  caps_lock,
  rebooted,
  held,        \* the keys a person holds down
  caps,        \* whether Caps Lock has been pressed an odd number of times
  typed        \* the character last appended to the input buffer, 0 if none

vars == <<state_var, caps_lock, rebooted, held, caps, typed>>

-----------------------------------------------------------------------------
left_shift == 42
right_shift == 54
left_alt == 56
right_alt == 57344 + 56
left_ctrl == 29
right_ctrl == 57344 + 29

shift_keys == {left_shift, right_shift, left_alt, right_alt, left_ctrl, right_ctrl}

(* Keymaps: the characters of contiguous scancodes.                        *)
invariant_keymap == {
  [first |-> 1, chars |-> <<27>>], [first |-> 14, chars |-> <<8>>],
  [first |-> 15, chars |-> <<9, 81, 87, 69, 82, 84, 89, 85, 73, 79, 80>>],
  [first |-> 28, chars |-> <<13>>],
  [first |-> 30, chars |-> <<65, 83, 68, 70, 71, 72, 74, 75, 76>>],
  [first |-> 44, chars |-> <<90, 88, 67, 86, 66, 78, 77>>],
  [first |-> 55, chars |-> <<42>>], [first |-> 57, chars |-> <<32>>],
  [first |-> 83, chars |-> <<127>>]}

unshifted_keymap == {
  [first |-> 2, chars |-> <<49, 50, 51, 52, 53, 54, 55, 56, 57, 48, 45, 61>>],
  [first |-> 26, chars |-> <<91, 93>>], [first |-> 39, chars |-> <<59, 39, 96>>],
  [first |-> 43, chars |-> <<92>>], [first |-> 51, chars |-> <<44, 46, 47>>]}

shifted_keymap == {
  [first |-> 2, chars |-> <<33, 64, 35, 36, 37, 94, 38, 42, 40, 41, 95, 43>>],
  [first |-> 26, chars |-> <<123, 125>>], [first |-> 39, chars |-> <<58, 34, 126>>],
  [first |-> 43, chars |-> <<124>>], [first |-> 51, chars |-> <<60, 62, 63>>]}

(* The characters k gives code: one or none.                               *)
map_key(k, code) ==
  {m.chars[code - m.first + 1] : m \in {x \in k : code \in x.first .. x.first + Len(x.chars) - 1}}

tolower(c) == IF c \in 65 .. 90 THEN c + 32 ELSE c

shift == state_var[left_shift] \/ state_var[right_shift]
alt == state_var[left_alt] \/ state_var[right_alt]
ctrl == state_var[left_ctrl] \/ state_var[right_ctrl]

MutCapsCase(c) ==
  LET d == IF ctrl /\ c \in 64 .. 95 THEN c - 64
           ELSE IF ~(shift \/ caps_lock) THEN tolower(c) ELSE c
  IN  (IF alt THEN d + 128 ELSE d) % 256

(* Ctrl, Shift and Alt applied to a character, a uint8_t.                  *)
Handled(c) ==
  LET d == IF ctrl /\ c \in 64 .. 95 THEN c - 64
           ELSE IF shift = caps_lock THEN tolower(c) ELSE c
  IN  (IF alt THEN d + 128 ELSE d) % 256

(* keyboard_interrupt() with a scancode, bit 0x80 of which says release.   *)
keyboard_interrupt(scancode) ==
  LET release == (scancode \div 128) % 2 = 1
      code == IF release THEN scancode - 128 ELSE scancode
      chars == map_key(invariant_keymap, code)
                 \cup map_key(IF shift THEN shifted_keymap ELSE unshifted_keymap, code)
  IN  IF code = 58
      THEN /\ caps_lock' = IF release THEN caps_lock ELSE ~caps_lock
           /\ typed' = 0 /\ UNCHANGED <<state_var, rebooted>>
      ELSE IF chars # {}
      THEN /\ typed' = IF release THEN 0 ELSE Handled(CHOOSE c \in chars : TRUE)
           /\ rebooted' = (~release /\ ctrl /\ alt /\ 127 \in chars)
           /\ UNCHANGED <<state_var, caps_lock>>
      ELSE /\ state_var' = IF code \in shift_keys THEN [state_var EXCEPT ![code] = ~release]
                                                  ELSE state_var
           /\ typed' = 0 /\ UNCHANGED <<caps_lock, rebooted>>

-----------------------------------------------------------------------------
(* The shift keys and Caps Lock are Boolean, and what is typed is a byte.  *)
TypeOK ==
  /\ state_var \in [shift_keys -> BOOLEAN] /\ caps_lock \in BOOLEAN
  /\ held \subseteq Key /\ typed \in 0 .. 255

Init ==
  /\ state_var = [k \in shift_keys |-> FALSE] /\ caps_lock = FALSE /\ rebooted = FALSE
  /\ held = {} /\ caps = FALSE /\ typed = 0

(* A key is pressed, or repeats while it is held.                          *)
Press(k) ==
  /\ ~rebooted
  /\ keyboard_interrupt(k)
  /\ held' = held \cup {k} /\ caps' = IF k = 58 THEN ~caps ELSE caps

Release(k) ==
  /\ ~rebooted /\ k \in held
  /\ keyboard_interrupt(k + 128)
  /\ held' = held \ {k} /\ UNCHANGED caps

Next == \E k \in Key : Press(k) \/ Release(k)

Spec == Init /\ [][Next]_vars

-----------------------------------------------------------------------------
ShiftHeld == {left_shift, right_shift} \cap held # {}
AltHeld == {left_alt, right_alt} \cap held # {}
CtrlHeld == {left_ctrl, right_ctrl} \cap held # {}

(* The driver knows which shift keys are held: releasing one of a pair     *)
(* leaves the other, and a prefixed key is not taken for its plain twin.   *)
ShiftsFollowKeys == (\A k \in shift_keys : state_var[k] = (k \in held)) /\ caps_lock = caps

(* A letter comes out in upper case just when Shift and Caps Lock differ,  *)
(* as a control character just when Ctrl is held, with the high bit just   *)
(* when Alt is held, and a release types nothing.                          *)
LettersRight ==
  LET c == typed' % 128
  IN  /\ typed' # 0 => (typed' >= 128) = AltHeld /\ held \subseteq held'
      /\ typed' # 0 /\ c \in 65 .. 90 => ~CtrlHeld /\ ShiftHeld # caps
      /\ typed' # 0 /\ c \in 97 .. 122 => ~CtrlHeld /\ ShiftHeld = caps

(* The machine restarts only on Ctrl, Alt and Delete.                      *)
RebootsOnCtrlAltDel == rebooted => CtrlHeld /\ AltHeld /\ 83 \in held
=============================================================================
