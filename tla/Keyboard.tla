------------------------------ MODULE Keyboard ------------------------------
(***************************************************************************)
(* kbdgetc() (kbd.c, kbd.h): the characters of a keyboard whose keys go    *)
(* down and up, some of them with two bytes each.  And the cursor of the   *)
(* screen that echoes them (cgaputc() of console.c).                       *)
(***************************************************************************)
EXTENDS Integers, Sequences, FiniteSets

CONSTANTS COLS, ROWS,   \* the screen, 80 and 25 in the code
          MaxDown       \* bound: keys that are down at the same time

VARIABLES shift,    \* the modifiers, as kbdgetc() has them
          down,     \* the keys that are down
          bytes,    \* what the keyboard has still to send: at most two bytes
          key,      \* the key that they tell of
          char,     \* what kbdgetc() returned last, and was echoed
          pos       \* the cursor

vars == <<shift, down, bytes, key, char, pos>>

Key == {"letter", "enter", "back", "lshift", "rshift", "lctl", "rctl", "lalt", "ralt", "caps"}
Extended == {"rctl", "ralt"}   \* keys that send E0 first

\* Scan codes are the keys; the codes of Extended are those with bit 7 added.
shiftcode(k) == CASE k \in {"lctl", "rctl"} -> {"CTL"}
                  [] k \in {"lshift", "rshift"} -> {"SHIFT"}
                  [] k \in {"lalt", "ralt"} -> {"ALT"}
                  [] OTHER -> {}
togglecode(k) == IF k = "caps" THEN {"CAPSLOCK"} ELSE {}

\* charcode[]: the normal map, the shifted one, and the one of the control key
\* for either.
charcode(sh, k) ==
    IF k = "enter" THEN "nl"
    ELSE IF k = "back" /\ "CTL" \notin sh THEN "bs"
    ELSE IF k # "letter" THEN "0"
    ELSE IF "CTL" \in sh THEN "ctl" ELSE IF "SHIFT" \in sh THEN "A" ELSE "a"

Init ==
    /\ shift = {} /\ down = {} /\ bytes = <<>> /\ key = "enter" /\ char = "0"
    /\ pos \in 0 .. COLS * ROWS - 1

\* The keyboard sends E0 and a code, or only a code, when a key goes down or up.
Sent(k, up) == IF k \in Extended THEN <<"E0", up>> ELSE <<up>>
press(k) ==
    /\ bytes = <<>> /\ k \notin down /\ Cardinality(down) < MaxDown
    /\ down' = down \union {k} /\ key' = k /\ bytes' = Sent(k, "down")
    /\ UNCHANGED <<shift, char, pos>>
lift(k) ==
    /\ bytes = <<>> /\ k \in down
    /\ down' = down \ {k} /\ key' = k /\ bytes' = Sent(k, "up")
    /\ UNCHANGED <<shift, char, pos>>

\* The key that kbdgetc() takes a code for: without E0ESC an extended code
\* is that of the key on the left.
Decoded(k) ==
    IF "E0ESC" \in shift THEN k ELSE IF k = "rctl" THEN "lctl" ELSE IF k = "ralt" THEN "lalt" ELSE k

\* Mutant: the escape is kept when a key is released.
Released_Escaped(k) == shift \ shiftcode(Decoded(k))

\* The modifiers after a release.
Released(k) == shift \ (shiftcode(Decoded(k)) \union {"E0ESC"})

\* The modifiers after a key has gone down.
Pressed(k) ==
    LET s == (shift \ {"E0ESC"}) \union shiftcode(Decoded(k))
        t == togglecode(Decoded(k))
    IN (s \ t) \union (t \ s)

\* Caps lock turns the case around.
Cased(s, c) ==
    IF "CAPSLOCK" \notin s THEN c ELSE IF c = "a" THEN "A" ELSE IF c = "A" THEN "a" ELSE c

-----------------------------------------------------------------------------
\* The first row that is never shown: the screen is scrolled instead.
LastRow == ROWS - 1

\* cgaputc()
Moved(c) ==
    LET p == IF c = "nl" THEN pos + COLS - (pos % COLS)
             ELSE IF c = "bs" THEN IF pos > 0 THEN pos - 1 ELSE pos
             ELSE pos + 1
    IN IF p \div COLS >= LastRow THEN p - COLS ELSE p

\* kbdgetc(), one byte; the character is echoed, unless consoleintr() has no
\* room for it or nothing to erase, which char = "0" stands for as well.
kbdgetc ==
    /\ bytes # <<>>
    /\ bytes' = Tail(bytes)
    /\ \/ /\ Head(bytes) = "E0"
          /\ shift' = shift \union {"E0ESC"} /\ char' = "0"
       \/ /\ Head(bytes) = "up"
          /\ shift' = Released(key) /\ char' = "0"
       \/ /\ Head(bytes) = "down"
          /\ shift' = Pressed(key)
          /\ char' \in {"0", Cased(Pressed(key), charcode(Pressed(key), key))}
    /\ pos' = IF char' = "0" THEN pos ELSE Moved(char')
    /\ UNCHANGED <<down, key>>

Next == kbdgetc \/ \E k \in Key : press(k) \/ lift(k)

Spec == Init /\ [][Next]_vars

-----------------------------------------------------------------------------
(* Properties *)

Mods(ks) == UNION {shiftcode(k) : k \in ks}

\* No modifier is stuck, in whatever order keys were pressed and released,
\* the ones with two bytes included; and one that is held alone counts.
NoModifierStuck ==
    bytes = <<>> =>
       /\ "E0ESC" \notin shift
       /\ down = {} => shift \subseteq {"CAPSLOCK"}
       /\ shift \ {"CAPSLOCK"} \subseteq Mods(down)

\* A letter is a capital if just one of shift and caps lock is on, and neither
\* with the control key.
LetterCase ==
    bytes = <<>> /\ key = "letter" /\ char # "0" =>
       char = IF "CTL" \in shift THEN "ctl"
              ELSE IF ("SHIFT" \in shift) # ("CAPSLOCK" \in shift) THEN "A" ELSE "a"

\* From wherever the cursor was at first, it stays on the screen, so that "pos
\* under/overflow" never happens, and cgaputc() leaves it no further than the
\* start of the last row: what it clears after scrolling has no negative length.
CursorOnScreen == pos \in 0 .. COLS * ROWS - 1 /\ (char # "0" => pos <= COLS * (ROWS - 1))
=============================================================================
