-------------------------------- MODULE MC_Shell --------------------------------
(* Every text of up to MaxText characters typed one by one, and every number *)
(* of two words, against what the functions of Shell should give.  No name   *)
(* is one of Console: ConsoleProofs extends both.                            *)
EXTENDS Shell

CONSTANTS Alphabet, MaxText, MaxNumber

ASSUME TypingAssumption ==
  Alphabet \subseteq Nat \ {NUL} /\ MaxText \in Nat /\ MaxNumber \in Nat

MCReadable(a) == a % 4 # 3
MCMemory(a) == (7 * a + 161) % Uint
MCClear == <<97>>
MCHelp == <<97, 120>>
MCEcho == <<120>>
MCPeek == <<48>>
MCText == <<111, NL>>

VARIABLES typed, number
typing == <<typed, number>>

Untyped == typed = <<>> /\ number = 0
Type == /\ number = 0 /\ Len(typed) < MaxText
        /\ \E c \in Alphabet : typed' = Append(typed, c)
        /\ UNCHANGED number
Count == /\ typed = <<>> /\ number < MaxNumber
         /\ number' = number + 1
         /\ UNCHANGED typed
Again == /\ Len(typed) = MaxText \/ number = MaxNumber
         /\ typed' = <<>> /\ number' = 0
Typing == Type \/ Count \/ Again
TypingSpec == Untyped /\ [][Typing]_typing
--------------------------------------------------------------------------------
(* The words of a text: its longest stretches without a blank, in order.    *)
(* The k-th begins where k of them have begun.                              *)
Starts(s) == {i \in DOMAIN s : s[i] \notin Blank /\ (i = 1 \/ s[i - 1] \in Blank)}
Begun(s, i) == Cardinality({j \in Starts(s) : j <= i})
WordAt(s, i) ==
  LET past == {j \in i .. Len(s) : s[j] \in Blank} \cup {Len(s) + 1}
  IN  SubSeq(s, i, Min(past) - 1)
Words(s) == [k \in 1 .. Begun(s, Len(s)) |->
               WordAt(s, CHOOSE i \in Starts(s) : Begun(s, i) = k)]

(* shell.c:7-17: the arguments are the words of the line, in order, whole,  *)
(* the first MAX_ARGS of them when there are more.                          *)
ParseFindsWords ==
  parse_args(typed) = SubSeq(Words(typed), 1, Min({MAX_ARGS, Len(Words(typed))}))

(* What digits name in a base: each counts as often as its place says.      *)
Named(base, digits) ==
  LET n == Len(digits)
      worth[k \in 0 .. n] == IF k = 0 THEN 1 ELSE base * worth[k - 1]
      total[k \in 0 .. n] ==
        IF k = 0 THEN 0 ELSE total[k - 1] + digits[k] * worth[n - k]
  IN  total[n]

Lower == <<48, 49, 50, 51, 52, 53, 54, 55, 56, 57, 97, 98, 99, 100, 101, 102>>
Upper == <<48, 49, 50, 51, 52, 53, 54, 55, 56, 57, 65, 66, 67, 68, 69, 70>>
Value(c) == (CHOOSE d \in 1 .. 16 : c \in {Lower[d], Upper[d]}) - 1
IsDigit(c) == c \in Range(Lower) \cup Range(Upper)
Unprefixed(s) == IF IsPrefix(<<48, 120>>, s) \/ IsPrefix(<<48, 88>>, s)
                 THEN SubSeq(s, 3, Len(s)) ELSE s
HexRun(s) ==
  SubSeq(s, 1, Max({j \in 0 .. Len(s) : \A k \in 1 .. j : IsDigit(s[k])}))

(* shell.c:95: textohex is the number its longest run of digits names, the  *)
(* low 32 bits of it, whatever follows the run.                             *)
HexIsValue ==
  LET run == HexRun(Unprefixed(typed))
  IN  textohex(typed) = Named(16, [k \in 1 .. Len(run) |-> Value(run[k])]) % Uint

(* The number printers show the number: what vga_hex_print shows, typed     *)
(* back to peek, names it again; vga_print_dec shows its digits, most       *)
(* significant first, none of them superfluous.                             *)
NumbersReadBack ==
  LET shown == vga_print_dec(number)
      n == Len(shown)
  IN  /\ number < Uint => textohex(vga_hex_print(number)) = number
      /\ number = Named(10, [k \in 1 .. n |-> shown[k] - 48])
      /\ n > 1 => shown[1] # 48

(* A line runs the command its first word names and no other: it clears     *)
(* the screen or faults only on behalf of clear or of peek with an address  *)
(* that is not mapped, and the first word alone decides which it is.        *)
CommandIsFirstWord ==
  LET words == Words(typed)
      does == execute_command(typed)
  IN  /\ words = <<>> => does = Nothing
      /\ does.clear <=> words # <<>> /\ words[1] = CLEAR
      /\ does.fault <=> /\ Len(words) >= 2 /\ words[1] = PEEK
                        /\ ~Readable(textohex(words[2]))
      /\ words # <<>> /\ words[1] \notin {CLEAR, HELP, ECHO, PEEK}
           => does.print = UnknownText \o words[1]
--------------------------------------------------------------------------------
(* vga.c:138: the two halves "will appear on the screen as one massive,     *)
(* continuous 64-bit hex number": read back as one, they give the number.   *)
Hex64IsOneNumber ==
  LET shown == vga_print_hex_64(number)
  IN  \A k \in 3 .. Len(shown) : HexVal(shown[k]) >= 0
================================================================================
