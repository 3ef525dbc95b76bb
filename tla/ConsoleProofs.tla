--------------------------- MODULE ConsoleProofs ----------------------------
(***************************************************************************)
(* Proofs about module Console, for every set of characters and every      *)
(* bound on the numbers typed.  SequenceInv relates the part of a function *)
(* key's sequence that was typed last to the state the parser is in.       *)
(***************************************************************************)
EXTENDS Console, TLAPS

(* The characters typed last are the first n of key k. *)
Begun(k, n) == Len(typed) = n /\ \A i \in 1 .. n : typed[i] = k[i]

KeyTypes ==
  /\ typed \in Seq(Chars)
  /\ num \in Nat
  /\ clean \in BOOLEAN

(* After ESC, and inside ESC O and ESC [.  A number left over is forgotten *)
(* only by ~, so the digits of F7 and F10 count only from a clean start.   *)
EscapeSeen == \A k \in FunctionKeys : Begun(k, 1) => esc_state = 1 /\ (clean => num = 0)

F1Seen ==
  /\ Begun(F1, 2) => esc_state = 20
  /\ Begun(F1, 3) => current_mode = "DEBUG"

BracketSeen == Begun(F7, 2) \/ Begun(F10, 2) => esc_state = 2 /\ (clean => num = 0)

F7Seen ==
  /\ Begun(F7, 3) => esc_state = 2 /\ (clean => num = 1)
  /\ Begun(F7, 4) => esc_state = 2 /\ (clean => num = 18)
  /\ Begun(F7, 5) /\ clean => current_mode = "CONFIRM_SHUTDOWN"

F10Seen ==
  /\ Begun(F10, 3) => esc_state = 2 /\ (clean => num = 2)
  /\ Begun(F10, 4) => esc_state = 2 /\ (clean => num = 21)
  /\ Begun(F10, 5) /\ clean => current_mode = "NET_STATS"

SequenceInv ==
  /\ KeyTypes
  /\ EscapeSeen
  /\ F1Seen
  /\ BracketSeen
  /\ F7Seen
  /\ F10Seen

-----------------------------------------------------------------------------
LEMMA KeyLemma ==
  ASSUME NEW k \in FunctionKeys
  PROVE  /\ Len(k) \in {3, 5}
         /\ k[1] = ESC
         /\ \A n \in 2 .. Len(k) : k[n] # ESC
  BY DEF FunctionKeys, F1, F7, F10, ESC

(* What one more character does to the history: a sequence goes on only if *)
(* the character is its next one, and only ESC begins one.                 *)
LEMMA TrackLemma ==
  ASSUME KeyTypes, NEW c \in Chars, Track(c)
  PROVE  /\ typed' \in Seq(Chars)
         /\ clean' = IF c = ESC THEN num = 0 ELSE clean
         /\ \A k \in FunctionKeys :
              /\ Begun(k, 1)' => c = ESC
              /\ \A n \in 2 .. Len(k) : Begun(k, n)' => c = k[n] /\ c # ESC /\ Begun(k, n - 1)
  <1>1. clean' = IF c = ESC THEN num = 0 ELSE clean
    BY DEF Track
  <1>2. CASE c = ESC
    <2>1. typed' = <<ESC>>
      BY <1>2 DEF Track
    <2>2. Len(typed') = 1
      BY <2>1
    <2>3. typed' \in Seq(Chars)
      BY <1>2, <2>1
    <2>4. \A k \in FunctionKeys : \A n \in 2 .. Len(k) : ~ Begun(k, n)'
      BY <2>2, KeyLemma DEF Begun
    <2> QED
      BY <1>1, <1>2, <2>3, <2>4
  <1>3. CASE c # ESC /\ typed' = Append(typed, c)
    <2>1. typed \in Seq(Chars)
      BY DEF KeyTypes
    <2>2. /\ typed' \in Seq(Chars)
          /\ Len(typed') = Len(typed) + 1
          /\ Len(typed) \in Nat
          /\ typed'[Len(typed) + 1] = c
          /\ \A i \in 1 .. Len(typed) : typed'[i] = typed[i]
      BY <1>3, <2>1
    <2>3. ASSUME NEW k \in FunctionKeys, NEW n \in 1 .. Len(k), Begun(k, n)'
          PROVE  c = k[n] /\ (n > 1 => Begun(k, n - 1))
      <3>1. Len(k) \in Nat /\ n \in Nat
        BY KeyLemma
      <3>2. Len(typed) + 1 = n /\ \A i \in 1 .. n : typed'[i] = k[i]
        BY <2>2, <2>3 DEF Begun
      <3>3. c = k[n]
        BY <2>2, <3>1, <3>2
      <3>4. \A i \in 1 .. n - 1 : typed[i] = k[i]
        BY <2>2, <3>1, <3>2
      <3> QED
        BY <2>2, <3>1, <3>2, <3>3, <3>4 DEF Begun
    <2>4. ASSUME NEW k \in FunctionKeys PROVE 1 \in 1 .. Len(k) /\ 2 .. Len(k) \subseteq 1 .. Len(k)
      BY KeyLemma
    <2>5. ASSUME NEW k \in FunctionKeys, Begun(k, 1)' PROVE c = ESC
      BY <2>3, <2>4, <2>5, KeyLemma
    <2>6. ASSUME NEW k \in FunctionKeys, NEW n \in 2 .. Len(k), Begun(k, n)'
          PROVE  c = k[n] /\ Begun(k, n - 1)
      <3>1. n \in 1 .. Len(k) /\ n > 1
        BY KeyLemma
      <3> QED
        BY <2>3, <2>6, <3>1
    <2> QED
      BY <1>1, <1>3, <2>2, <2>5, <2>6
  <1>4. CASE c # ESC /\ typed' = << >>
    <2>1. Len(typed') = 0 /\ typed' \in Seq(Chars)
      BY <1>4
    <2>2. \A k \in FunctionKeys : \A n \in 1 .. Len(k) : ~ Begun(k, n)'
      BY <2>1, KeyLemma DEF Begun
    <2>3. \A k \in FunctionKeys : 1 \in 1 .. Len(k) /\ 2 .. Len(k) \subseteq 1 .. Len(k)
      BY KeyLemma
    <2> QED
      BY <1>1, <1>4, <2>1, <2>2, <2>3
  <1> QED
    BY <1>2, <1>3, <1>4 DEF Track

(* The same, key by key. *)
LEMMA TrackKeys ==
  ASSUME KeyTypes, NEW c \in Chars, Track(c)
  PROVE  /\ \A k \in FunctionKeys : Begun(k, 1)' => c = ESC
         /\ Begun(F1, 2)' => c = "O" /\ Begun(F1, 1)
         /\ Begun(F1, 3)' => c = "P" /\ Begun(F1, 2)
         /\ Begun(F7, 2)' => c = "[" /\ Begun(F7, 1)
         /\ Begun(F7, 3)' => c = "1" /\ Begun(F7, 2)
         /\ Begun(F7, 4)' => c = "8" /\ Begun(F7, 3)
         /\ Begun(F7, 5)' => c = "~" /\ Begun(F7, 4)
         /\ Begun(F10, 2)' => c = "[" /\ Begun(F10, 1)
         /\ Begun(F10, 3)' => c = "2" /\ Begun(F10, 2)
         /\ Begun(F10, 4)' => c = "1" /\ Begun(F10, 3)
         /\ Begun(F10, 5)' => c = "~" /\ Begun(F10, 4)
  <1>1. /\ \A k \in FunctionKeys : Begun(k, 1)' => c = ESC
        /\ \A k \in FunctionKeys : \A n \in 2 .. Len(k) : Begun(k, n)' => c = k[n] /\ Begun(k, n - 1)
    BY TrackLemma
  <1>2. /\ F1 \in FunctionKeys /\ F7 \in FunctionKeys /\ F10 \in FunctionKeys
        /\ Len(F1) = 3 /\ Len(F7) = 5 /\ Len(F10) = 5
    BY DEF FunctionKeys, F1, F7, F10
  <1>3. /\ F1[2] = "O" /\ F1[3] = "P"
        /\ F7[2] = "[" /\ F7[3] = "1" /\ F7[4] = "8" /\ F7[5] = "~"
        /\ F10[2] = "[" /\ F10[3] = "2" /\ F10[4] = "1" /\ F10[5] = "~"
    BY DEF F1, F7, F10
  <1>4. ASSUME NEW k \in FunctionKeys
        PROVE  /\ Begun(k, 2)' => c = k[2] /\ Begun(k, 1)
               /\ Begun(k, 3)' => c = k[3] /\ Begun(k, 2)
               /\ Len(k) = 5 => /\ Begun(k, 4)' => c = k[4] /\ Begun(k, 3)
                                /\ Begun(k, 5)' => c = k[5] /\ Begun(k, 4)
    <2>1. \A n \in 2 .. Len(k) : Begun(k, n)' => c = k[n] /\ Begun(k, n - 1)
      BY <1>1
    <2>2. Len(k) \in {3, 5}
      BY KeyLemma
    <2>3. 2 - 1 = 1 /\ 3 - 1 = 2 /\ 4 - 1 = 3 /\ 5 - 1 = 4
      OBVIOUS
    <2> QED
      BY <2>1, <2>2, <2>3
  <1>5. /\ Begun(F1, 2)' => c = "O" /\ Begun(F1, 1)
        /\ Begun(F1, 3)' => c = "P" /\ Begun(F1, 2)
    BY <1>2, <1>3, <1>4
  <1>6. /\ Begun(F7, 2)' => c = "[" /\ Begun(F7, 1)
        /\ Begun(F7, 3)' => c = "1" /\ Begun(F7, 2)
        /\ Begun(F7, 4)' => c = "8" /\ Begun(F7, 3)
        /\ Begun(F7, 5)' => c = "~" /\ Begun(F7, 4)
    BY <1>2, <1>3, <1>4
  <1>7. /\ Begun(F10, 2)' => c = "[" /\ Begun(F10, 1)
        /\ Begun(F10, 3)' => c = "2" /\ Begun(F10, 2)
        /\ Begun(F10, 4)' => c = "1" /\ Begun(F10, 3)
        /\ Begun(F10, 5)' => c = "~" /\ Begun(F10, 4)
    BY <1>2, <1>3, <1>4
  <1> QED
    BY <1>1, <1>5, <1>6, <1>7

-----------------------------------------------------------------------------
LEMMA DigitLemma ==
  /\ Digits = {"0", "1", "2", "8"}
  /\ \A c \in Digits : DigitOf[c] \in Nat
  /\ DigitOf["1"] = 1 /\ DigitOf["2"] = 2 /\ DigitOf["8"] = 8
  BY DEF Digits, DigitOf

(* The reading of a number: 1 and 8 make 18, 2 and 1 make 21. *)
LEMMA DigitStep ==
  ASSUME SequenceInv, NEW c \in Chars, KeyDigit(c)
  PROVE  SequenceInv'
  <1>1. /\ Track(c) /\ c \in Digits /\ c # ESC
        /\ esc_state = 2 /\ esc_state' = 2
        /\ num' = num * 10 + DigitOf[c]
        /\ current_mode' = current_mode
    BY DigitLemma DEF KeyDigit, Read, SameMode, ESC
  <1>2. KeyTypes /\ num \in Nat
    BY DEF SequenceInv, KeyTypes
  <1>3. typed' \in Seq(Chars) /\ clean' = clean
    BY <1>1, <1>2, TrackLemma
  <1>4. num' \in Nat
    BY <1>1, <1>2, DigitLemma
  <1>5. KeyTypes'
    BY <1>2, <1>3, <1>4 DEF KeyTypes
  <1>6. EscapeSeen' /\ F1Seen' /\ BracketSeen'
    BY <1>1, <1>2, TrackKeys, DigitLemma DEF EscapeSeen, F1Seen, BracketSeen
  <1>7. F7Seen'
    BY <1>1, <1>2, <1>3, TrackKeys, DigitLemma DEF SequenceInv, BracketSeen, F7Seen
  <1>8. F10Seen'
    BY <1>1, <1>2, <1>3, TrackKeys, DigitLemma DEF SequenceInv, BracketSeen, F10Seen
  <1> QED
    BY <1>5, <1>6, <1>7, <1>8 DEF SequenceInv

(* Every character but a digit leaves num alone or, at the end, resets it. *)
LEMMA OtherKeysStep ==
  ASSUME SequenceInv, NEW c \in Chars,
         \/ c = ESC /\ KeyEscape
         \/ KeyIntroducer(c) \/ KeyF1toF4(c) \/ KeyOther(c)
         \/ c = "~" /\ KeyTilde
  PROVE  SequenceInv'
  <1>1. Track(c)
    BY DEF KeyEscape, KeyIntroducer, KeyF1toF4, KeyOther, KeyTilde, Read
  <1>2. KeyTypes /\ num \in Nat /\ clean \in BOOLEAN
    BY DEF SequenceInv, KeyTypes
  <1>3. typed' \in Seq(Chars) /\ clean' = IF c = ESC THEN num = 0 ELSE clean
    BY <1>1, <1>2, TrackLemma
  <1>4. num' = num \/ num' = 0
    BY DEF KeyEscape, KeyIntroducer, KeyF1toF4, KeyOther, KeyTilde
  <1>5. KeyTypes'
    <2>1. clean' \in BOOLEAN
      BY <1>2, <1>3, Zenon
    <2>2. num' \in Nat
      BY <1>2, <1>4
    <2> QED
      BY <1>3, <2>1, <2>2 DEF KeyTypes
  <1>6. CASE c = ESC /\ KeyEscape
    <2>1. /\ esc_state' = 1 /\ num' = num /\ clean' = (num = 0)
          /\ c \notin {"O", "P", "[", "1", "2", "8", "~"}
      BY <1>3, <1>6 DEF KeyEscape, ESC
    <2> QED
      BY <1>1, <1>2, <1>5, <2>1, TrackKeys
      DEF SequenceInv, EscapeSeen, F1Seen, BracketSeen, F7Seen, F10Seen
  <1>7. CASE KeyIntroducer(c)
    <2>1. /\ c \in {"[", "O"} /\ c # ESC
          /\ esc_state' = IF c = "[" THEN 2 ELSE 20
          /\ num' = num /\ clean' = clean /\ current_mode' = current_mode
      BY <1>3, <1>7 DEF KeyIntroducer, SameMode, ESC
    <2>2. F7 \in FunctionKeys /\ F10 \in FunctionKeys
      BY DEF FunctionKeys
    <2> QED
      BY <1>1, <1>2, <1>5, <2>1, <2>2, TrackKeys
      DEF SequenceInv, EscapeSeen, F1Seen, BracketSeen, F7Seen, F10Seen
  <1>8. CASE KeyF1toF4(c)
    <2>1. /\ esc_state = 20 /\ c # ESC /\ esc_state' = 0
          /\ num' = num /\ clean' = clean
          /\ IF c = "P" THEN current_mode' = "DEBUG" ELSE current_mode' = current_mode
      BY <1>3, <1>8 DEF KeyF1toF4, EnterMode, SameMode
    <2>2. F1 \in FunctionKeys /\ F7 \in FunctionKeys /\ F10 \in FunctionKeys
      BY DEF FunctionKeys
    <2> QED
      BY <1>1, <1>2, <1>5, <2>1, <2>2, TrackKeys
      DEF SequenceInv, EscapeSeen, F1Seen, BracketSeen, F7Seen, F10Seen
  <1>9. CASE KeyOther(c)
    <2>1. /\ \/ esc_state = 0
             \/ esc_state = 1 /\ c \notin {"[", "O"}
             \/ esc_state = 2 /\ c \notin {"0", "1", "2", "8", "~"}
          /\ c # ESC /\ esc_state' = 0
          /\ num' = num /\ clean' = clean /\ current_mode' = current_mode
      BY <1>3, <1>9, DigitLemma DEF KeyOther, SameMode
    <2>2. F1 \in FunctionKeys /\ F7 \in FunctionKeys /\ F10 \in FunctionKeys
      BY DEF FunctionKeys
    <2> QED
      BY <1>1, <1>2, <1>5, <2>1, <2>2, TrackKeys
      DEF SequenceInv, EscapeSeen, F1Seen, BracketSeen, F7Seen, F10Seen
  <1>10. CASE c = "~" /\ KeyTilde
    <2>1. /\ c # ESC /\ c \notin {"O", "P", "[", "1", "2", "8"}
          /\ clean' = clean
          /\ num = 18 => current_mode' = "CONFIRM_SHUTDOWN"
          /\ num = 21 => current_mode' = "NET_STATS"
      BY <1>3, <1>10 DEF KeyTilde, EnterMode, ESC
    <2> QED
      BY <1>1, <1>2, <1>5, <2>1, TrackKeys
      DEF SequenceInv, EscapeSeen, F1Seen, BracketSeen, F7Seen, F10Seen
  <1> QED
    BY <1>6, <1>7, <1>8, <1>9, <1>10

LEMMA SequenceInvInit == Init => SequenceInv
  <1> SUFFICES ASSUME Init PROVE SequenceInv
    OBVIOUS
  <1>1. \A k, n : n \in 1 .. 5 => ~ Begun(k, n)
    BY DEF Init, Begun
  <1> QED
    BY <1>1 DEF Init, SequenceInv, KeyTypes, EscapeSeen, F1Seen, BracketSeen, F7Seen, F10Seen

LEMMA SequenceInvStep == SequenceInv /\ [Next]_vars => SequenceInv'
  <1> SUFFICES ASSUME SequenceInv, [Next]_vars PROVE SequenceInv'
    OBVIOUS
  <1>1. ASSUME NEW c \in Chars, KeyDigit(c) PROVE SequenceInv'
    BY <1>1, DigitStep
  <1>2. ASSUME NEW c \in Chars, KeyIntroducer(c) \/ KeyF1toF4(c) \/ KeyOther(c)
        PROVE  SequenceInv'
    BY <1>2, OtherKeysStep
  <1>3. CASE ESC \in Chars /\ KeyEscape
    BY <1>3, OtherKeysStep
  <1>4. CASE "~" \in Chars /\ KeyTilde
    BY <1>4, OtherKeysStep
  <1>5. CASE UNCHANGED <<keys, current_mode>>
    BY <1>5 DEF keys, SequenceInv, KeyTypes, EscapeSeen, F1Seen, BracketSeen, F7Seen, F10Seen, Begun
  <1> QED
    BY <1>1, <1>2, <1>3, <1>4, <1>5
    DEF Next, Loop, Key, Tick, Refresh, NoRefresh, NoKey, Poll, ui, keys, vars

(* A function key works whatever was typed before it, broken sequences     *)
(* included (README.md:199): F1 always, F7 and F10 if no number was left   *)
(* over.  The parser and the history agree all along the sequence.         *)
THEOREM FunctionKeys_Work == Spec => []FunctionKeysWork
  <1>1. SequenceInv => FunctionKeysWork
    <2> SUFFICES ASSUME SequenceInv PROVE FunctionKeysWork
      OBVIOUS
    <2>1. typed = F1 => Begun(F1, 3)
      BY DEF Begun, F1
    <2>2. typed = F7 => Begun(F7, 5)
      BY DEF Begun, F7
    <2>3. typed = F10 => Begun(F10, 5)
      BY DEF Begun, F10
    <2> QED
      BY <2>1, <2>2, <2>3 DEF SequenceInv, F1Seen, F7Seen, F10Seen, FunctionKeysWork
  <1> QED
    BY <1>1, SequenceInvInit, SequenceInvStep, PTL DEF Spec

-----------------------------------------------------------------------------
(* The terminal never shows a mode that was left: a mode is entered only   *)
(* with the screen cleared, and a refresh draws the mode that is current.  *)
THEOREM ScreenIsCurrent == Spec => []ScreenNotStale
  <1>1. Init => ScreenNotStale
    BY DEF Init, ScreenNotStale
  <1>2. ScreenNotStale /\ [Next]_vars => ScreenNotStale'
    <2> SUFFICES ASSUME ScreenNotStale, [Next]_vars PROVE ScreenNotStale'
      OBVIOUS
    <2>1. CASE Refresh
      BY <2>1 DEF Refresh, Redrawn, ScreenNotStale
    <2>2. CASE KeyTilde
      BY <2>2 DEF KeyTilde, EnterMode, SameMode, ScreenNotStale
    <2>3. ASSUME NEW c \in Chars, KeyF1toF4(c) PROVE ScreenNotStale'
      BY <2>3 DEF KeyF1toF4, EnterMode, SameMode, ScreenNotStale
    <2>4. CASE UNCHANGED <<current_mode, screen>>
      BY <2>4 DEF ScreenNotStale
    <2> QED
      BY <2>1, <2>2, <2>3, <2>4
      DEF Next, Loop, Key, Tick, NoRefresh, KeyEscape, KeyIntroducer, KeyDigit, KeyOther,
          NoKey, Poll, SameMode, ui, vars
  <1> QED
    BY <1>1, <1>2, PTL DEF Spec

(* A mode entered again that was drawn last is shown by nothing: only a    *)
(* refresh draws, and it compares modes, not what is on the screen         *)
(* (kernel.c:102, 131-141).  The safety half of NewModeDrawn.              *)
THEOREM EnteredTwiceStaysBlank == Spec => StaysBlank
  <1>1. ASSUME [Next]_vars, NEW m \in Modes \ {"NET_STATS"}, Undrawn(m), current_mode' = m
        PROVE  Undrawn(m)'
    <2>1. CASE Refresh
      BY <1>1, <2>1 DEF Refresh, Redrawn, Undrawn
    <2>2. CASE KeyTilde
      BY <1>1, <2>2 DEF KeyTilde, Read, EnterMode, SameMode, Undrawn
    <2>3. ASSUME NEW c \in Chars, KeyF1toF4(c) PROVE Undrawn(m)'
      BY <1>1, <2>3 DEF KeyF1toF4, Read, EnterMode, SameMode, Undrawn
    <2>4. CASE UNCHANGED ui
      BY <1>1, <2>4 DEF ui, Undrawn
    <2> QED
      BY <1>1, <2>1, <2>2, <2>3, <2>4
      DEF Next, Loop, Key, Tick, NoRefresh, KeyEscape, KeyIntroducer, KeyDigit, KeyOther,
          Read, NoKey, Poll, SameMode, ui, vars
  <1>2. [Next]_vars
          => [\A m \in Modes \ {"NET_STATS"} : Undrawn(m) /\ current_mode' = m => Undrawn(m)']_vars
    BY <1>1
  <1> QED
    BY <1>2, PTL DEF Spec, StaysBlank

=============================================================================
