----------------------------- MODULE Keyboard --------------------------------
(***************************************************************************)
(* The keyboard driver (devices/kbd.c).  Keys are their scancodes, keys    *)
(* with the prefix 0xe0 have it as a high byte; characters are their codes.*)
(* One interrupt reads one scancode.  The buffer the characters go to is   *)
(* that of module SerialInput; here it is full or not.                     *)
(***************************************************************************)
EXTENDS Integers, Sequences, SequencesExt, FiniteSetsExt

CONSTANTS
    Keys,              \* the keys of the keyboard that are used
    MaxKeyEvents       \* bound: presses and releases

VARIABLES
    state_var,         \* left_shift, right_shift, ... : by scancode
    caps_lock,
    key_cnt,
    typed,             \* characters given to input_putc()
    events             \* what was done to the keyboard

keyboardVars == <<state_var, caps_lock, key_cnt, typed, events>>

LeftShift == 42        \* 0x2a
RightShift == 54       \* 0x36
LeftAlt == 56          \* 0x38
RightAlt == 57400      \* 0xe038
LeftCtrl == 29         \* 0x1d
RightCtrl == 57373     \* 0xe01d
CapsLock == 58         \* 0x3a

\* The table of shift keys.
shift_keys == {LeftShift, RightShift, LeftAlt, RightAlt, LeftCtrl, RightCtrl}

Keymap(first, chars) == [first |-> first, chars |-> chars]

invariant_keymap ==
    {Keymap(1, <<27>>), Keymap(14, <<8>>),
     Keymap(15, <<9, 81, 87, 69, 82, 84, 89, 85, 73, 79, 80>>),
     Keymap(28, <<13>>),
     Keymap(30, <<65, 83, 68, 70, 71, 72, 74, 75, 76>>),
     Keymap(44, <<90, 88, 67, 86, 66, 78, 77>>),
     Keymap(55, <<42>>), Keymap(57, <<32>>)}

unshifted_keymap ==
    {Keymap(2, <<49, 50, 51, 52, 53, 54, 55, 56, 57, 48, 45, 61>>),
     Keymap(26, <<91, 93>>), Keymap(39, <<59, 39, 96>>),
     Keymap(43, <<92>>), Keymap(51, <<44, 46, 47>>)}

shifted_keymap ==
    {Keymap(2, <<33, 64, 35, 36, 37, 94, 38, 42, 40, 41, 95, 43>>),
     Keymap(26, <<123, 125>>), Keymap(39, <<58, 34, 126>>),
     Keymap(43, <<124>>), Keymap(51, <<60, 62, 63>>)}

\* The character of a scancode: none or one.
map_key(keymaps, code) ==
    {k.chars[code - k.first + 1] : k \in {k \in keymaps : code - k.first \in 0 .. Len(k.chars) - 1}}

tolower(c) == IF c \in 65 .. 90 THEN c + 32 ELSE c

CtrlShift_ShiftFirst(c, shift, ctrl) ==
    IF shift = caps_lock THEN tolower(c)
    ELSE IF ctrl /\ c \in 64 .. 95 THEN c - 64 ELSE c

\* "Handle Ctrl, Shift.  Note that Ctrl overrides Shift."
CtrlShift(c, shift, ctrl) ==
    IF ctrl /\ c \in 64 .. 95 THEN c - 64
    ELSE IF shift = caps_lock THEN tolower(c) ELSE c

KeyboardInit ==
    /\ state_var = [k \in shift_keys |-> FALSE]
    /\ caps_lock = FALSE /\ key_cnt = 0
    /\ typed = <<>> /\ events = <<>>

keyboard_interrupt(code, release, input_full) ==
    LET shift == state_var[LeftShift] \/ state_var[RightShift]
        alt   == state_var[LeftAlt] \/ state_var[RightAlt]
        ctrl  == state_var[LeftCtrl] \/ state_var[RightCtrl]
        found == map_key(invariant_keymap, code)
                 \cup map_key(IF shift THEN shifted_keymap ELSE unshifted_keymap, code)
    IN  /\ Len(events) < MaxKeyEvents
        /\ events' = Append(events, [code |-> code, release |-> release, full |-> input_full])
        /\ \/ /\ code = CapsLock
              /\ caps_lock' = IF release THEN caps_lock ELSE ~caps_lock
              /\ UNCHANGED <<state_var, key_cnt, typed>>
           \/ /\ code # CapsLock /\ found # {}
              /\ IF release \/ input_full
                 THEN UNCHANGED <<key_cnt, typed>>
                 ELSE /\ key_cnt' = key_cnt + 1
                      /\ \E c \in found :
                            typed' = Append(typed, (CtrlShift(c, shift, ctrl) + (IF alt THEN 128 ELSE 0)) % 256)
              /\ UNCHANGED <<state_var, caps_lock>>
           \/ /\ code # CapsLock /\ found = {}
              /\ state_var' = IF code \in shift_keys THEN [state_var EXCEPT ![code] = ~release] ELSE state_var
              /\ UNCHANGED <<caps_lock, key_cnt, typed>>

\* The last thing done to key k before event i.
Down(k, i) ==
    LET of == {j \in 1 .. i - 1 : events[j].code = k} IN of # {} /\ ~events[Max(of)].release

\* A key is released only when it is down; a key held down repeats.  Whether the
\* buffer is full matters for a character only.
KeyboardNext ==
    \E k \in Keys, release \in BOOLEAN, input_full \in BOOLEAN :
        /\ release => Down(k, Len(events) + 1)
        /\ input_full => ~release /\ k \notin shift_keys \cup {CapsLock}
        /\ keyboard_interrupt(k, release, input_full)

----------------------------------------------------------------------------
(* What a keyboard means, from the whole history.                          *)

Letters == (16 .. 25) \cup (30 .. 38) \cup (44 .. 50)

\* The character that event i stands for, as a sequence of none or one.
Meaning(i) ==
    LET k     == events[i].code
        shift == Down(LeftShift, i) \/ Down(RightShift, i)
        ctrl  == Down(LeftCtrl, i) \/ Down(RightCtrl, i)
        alt   == Down(LeftAlt, i) \/ Down(RightAlt, i)
        caps  == Cardinality({j \in 1 .. i - 1 : events[j].code = CapsLock /\ ~events[j].release}) % 2 = 1
        plain == map_key(invariant_keymap \cup unshifted_keymap, k)
        upper == map_key(invariant_keymap \cup shifted_keymap, k)
        c     == IF k \in Letters
                 THEN CHOOSE x \in upper : TRUE
                 ELSE CHOOSE x \in (IF shift THEN upper ELSE plain) : TRUE
        low   == CASE ctrl /\ c \in 64 .. 95 -> c % 32
                   [] ~(ctrl /\ c \in 64 .. 95) /\ k \in Letters -> IF shift # caps THEN c ELSE c + 32
                   [] OTHER -> c
    IN  IF events[i].release \/ events[i].full \/ plain = {} THEN <<>>
        ELSE <<IF alt THEN low + 128 ELSE low>>

\* The characters that reach the input buffer are those the keys mean: a shift
\* key is down from its press to its release whatever the other key of its kind
\* does, Caps Lock turns with every press, a letter is a capital when exactly one
\* of Shift and Caps Lock holds, Ctrl overrides both, Alt sets the high bit
\* whatever else is held (kbd.c:87-170).
KeysExact ==
    /\ typed = FlattenSeq([i \in 1 .. Len(events) |-> Meaning(i)])
    /\ key_cnt = Len(typed)

=============================================================================
