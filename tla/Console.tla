------------------------------ MODULE Console -------------------------------
(***************************************************************************)
(* The main loop of kernel_main (src/AetherWebOS/src/kernel/kernel.c) as   *)
(* the console sees it: the screen is refreshed when 100 ms have passed,   *)
(* one character is read if there is one, and the network is polled, but   *)
(* not in a turn that ends with continue.                                  *)
(*                                                                         *)
(* pc is the next of the three parts of the turn.  A screen is the mode    *)
(* whose contents were drawn (portal.c) since the last clear, or blank;    *)
(* what is drawn is left out.  typed and clean are history variables: how  *)
(* much of a function key's sequence was typed last, and whether num was 0 *)
(* when it began.                                                          *)
(***************************************************************************)
EXTENDS Integers, Sequences, SequencesExt

CONSTANTS
  Chars,        \* the characters the user may type
  NumMax        \* bound: the largest number typed between ESC [ and ~

ESC == "ESC"
DigitOf == [c \in {"0", "1", "2", "8"} |->
              CASE c = "0" -> 0 [] c = "1" -> 1 [] c = "2" -> 2 [] c = "8" -> 8]
Digits == DOMAIN DigitOf

ASSUME ConsoleAssumption ==
  /\ Chars \subseteq Digits \cup {ESC, "[", "O", "P", "~", "x"}
  /\ NumMax \in Nat

(* What a terminal sends for the function keys (external) *)
F1 == <<ESC, "O", "P">>
F7 == <<ESC, "[", "1", "8", "~">>
F10 == <<ESC, "[", "2", "1", "~">>
FunctionKeys == {F1, F7, F10}

Modes == {"PORTAL", "CONFIRM_SHUTDOWN", "NET_STATS", "DEBUG"}

VARIABLES
  pc,             \* "refresh", "input" or "net"
  due,            \* current_time - last_refresh >= 100
  current_mode,
  last_mode,      \* the mode drawn last; "none" (-1) at first
  esc_state,      \* 0, 1 after ESC, 2 after ESC [, 20 after ESC O
  num,            \* the number read after ESC [
  screen,         \* what the terminal shows
  typed, clean    \* history

ui == <<current_mode, last_mode, screen>>
keys == <<esc_state, num, typed, clean>>
vars == <<pc, due, current_mode, last_mode, esc_state, num, screen, typed, clean>>

(* After portal_start *)
Init ==
  /\ pc = "refresh" /\ due = FALSE
  /\ current_mode = "PORTAL" /\ last_mode = "none"
  /\ esc_state = 0 /\ num = 0
  /\ screen = "blank"
  /\ typed = << >> /\ clean = TRUE

(* The timer interrupt has counted 100 ms since the last refresh. *)
Tick ==
  /\ ~due /\ due' = TRUE
  /\ UNCHANGED <<pc, ui, keys>>

-----------------------------------------------------------------------------
(* UI refresh: a new mode is drawn, otherwise only the dashboard is drawn  *)
(* again.                                                                  *)
Mutant_Redrawn == IF current_mode # last_mode /\ last_mode = "none" THEN current_mode ELSE screen

Redrawn ==
  IF current_mode # last_mode \/ current_mode = "NET_STATS" THEN current_mode ELSE screen

Refresh ==
  /\ pc = "refresh" /\ due
  /\ screen' = Redrawn
  /\ last_mode' = current_mode
  /\ due' = FALSE
  /\ pc' = "input"
  /\ UNCHANGED <<current_mode, keys>>

NoRefresh ==
  /\ pc = "refresh" /\ ~due
  /\ pc' = "input"
  /\ UNCHANGED <<due, ui, keys>>

-----------------------------------------------------------------------------
Track(c) ==
  /\ typed' = IF c = ESC THEN <<ESC>>
              ELSE IF \E k \in FunctionKeys : IsPrefix(Append(typed, c), k) THEN Append(typed, c)
              ELSE << >>
  /\ clean' = IF c = ESC THEN num = 0 ELSE clean

(* uart_getc returns c *)
Read(c) == pc = "input" /\ Track(c) /\ UNCHANGED <<due, last_mode>>

Continue == pc' = "refresh"

SameMode == UNCHANGED <<current_mode, screen>>

Mutant_EnterMode(m) == current_mode' = m /\ UNCHANGED screen

(* The screen is cleared and the mode entered; the refresh will draw it.   *)
EnterMode(m) == current_mode' = m /\ screen' = "blank"

(* ESC starts a sequence, whatever came before. *)
Mutant_KeyEscape ==
  /\ Read(ESC)
  /\ esc_state' = IF esc_state = 0 THEN 1 ELSE 0
  /\ UNCHANGED num /\ SameMode /\ Continue

KeyEscape ==
  /\ Read(ESC)
  /\ esc_state' = 1
  /\ UNCHANGED num /\ SameMode /\ Continue

KeyIntroducer(c) ==
  /\ esc_state = 1 /\ c \in {"[", "O"}
  /\ Read(c)
  /\ esc_state' = IF c = "[" THEN 2 ELSE 20
  /\ UNCHANGED num /\ SameMode /\ Continue

(* ESC O P is F1; ESC O with anything else is dropped. *)
KeyF1toF4(c) ==
  /\ esc_state = 20 /\ c # ESC
  /\ Read(c)
  /\ IF c = "P" THEN EnterMode("DEBUG") ELSE SameMode
  /\ esc_state' = 0
  /\ UNCHANGED num /\ Continue

KeyDigit(c) ==
  /\ esc_state = 2 /\ c \in Digits
  /\ num * 10 + DigitOf[c] <= NumMax
  /\ Read(c)
  /\ num' = num * 10 + DigitOf[c]
  /\ UNCHANGED esc_state /\ SameMode /\ Continue

(* ~ ends the sequence: 18 is F7, 21 is F10. *)
KeyTilde ==
  /\ esc_state = 2
  /\ Read("~")
  /\ CASE num = 18 -> EnterMode("CONFIRM_SHUTDOWN")
       [] num = 21 -> EnterMode("NET_STATS")
       [] OTHER -> SameMode
  /\ num' = 0
  /\ esc_state' = 0
  /\ Continue

(* Anything else ends a sequence, without resetting num; the turn goes on. *)
KeyOther(c) ==
  /\ c # ESC
  /\ \/ esc_state = 0
     \/ esc_state = 1 /\ c \notin {"[", "O"}
     \/ esc_state = 2 /\ c \notin Digits \cup {"~"}
  /\ Read(c)
  /\ esc_state' = 0
  /\ pc' = "net"
  /\ UNCHANGED num /\ SameMode

Mutant_NoKey == pc = "input" /\ pc' = "refresh" /\ UNCHANGED <<due, ui, keys>>

NoKey == pc = "input" /\ pc' = "net" /\ UNCHANGED <<due, ui, keys>>

(* Network polling (modules VirtioNet, Tcp) and health_update_tcp_stats *)
Poll == pc = "net" /\ pc' = "refresh" /\ UNCHANGED <<due, ui, keys>>

-----------------------------------------------------------------------------
Key ==
  \/ ESC \in Chars /\ KeyEscape
  \/ \E c \in Chars : KeyIntroducer(c) \/ KeyF1toF4(c) \/ KeyDigit(c) \/ KeyOther(c)
  \/ "~" \in Chars /\ KeyTilde

Loop == Refresh \/ NoRefresh \/ Key \/ NoKey \/ Poll

Next == Tick \/ Loop

Spec == Init /\ [][Next]_vars

(* The loop never stops, the timer keeps counting, and the user does not   *)
(* type faster than the loop reads for ever: there are always turns later  *)
(* with no character waiting.                                              *)
FairSpec == Spec /\ WF_vars(Loop) /\ WF_vars(Tick) /\ SF_vars(NoKey)

-----------------------------------------------------------------------------
(* README.md:199 "Function-key navigation": F1 works whatever was typed     *)
(* before it: broken sequences, a lone ESC.  F7 and F10 do if no number was *)
(* left over from a sequence that did not end with ~.                       *)
FunctionKeysWork ==
  /\ typed = F1 => current_mode = "DEBUG"
  /\ typed = F7 /\ clean => current_mode = "CONFIRM_SHUTDOWN"
  /\ typed = F10 /\ clean => current_mode = "NET_STATS"

(* The terminal never shows the contents of a mode that was left.          *)
ScreenNotStale == screen \in {"blank", current_mode}

(* Network polling is reached again and again: the continue statements of  *)
(* the key handling only delay it.                                         *)
NetworkPolled == []<>(pc = "net")

(* A mode that was drawn last and is entered again, F7 twice or with       *)
(* another mode in between that no refresh saw                             *)
Undrawn(m) == current_mode = m /\ last_mode = m /\ screen = "blank"

(* The key has cleared the screen (kernel.c:176, 198), the refresh finds   *)
(* last_mode equal and draws nothing (kernel.c:102, 131-141): the screen   *)
(* stays blank for as long as the mode is not left.                        *)
StaysBlank ==
  [][\A m \in Modes \ {"NET_STATS"} : Undrawn(m) /\ current_mode' = m => Undrawn(m)']_vars

(* A mode entered from another one is drawn, unless a third is entered     *)
(* first; the dashboard is drawn whenever it is entered.  A mode entered   *)
(* again that was drawn last is not drawn at all (StaysBlank).             *)
NewModeDrawn ==
  /\ \A m \in Modes :
       (current_mode = m /\ (last_mode # m \/ m = "NET_STATS")) ~> (screen = m \/ current_mode # m)
  /\ StaysBlank

=============================================================================
