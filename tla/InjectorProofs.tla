--------------------------- MODULE InjectorProofs ---------------------------
(* Theorems about Injector: what a session's input leaves down on the      *)
(* devices, and what the desktop makes of it, for every text, motion and   *)
(* viewport and for every number of messages.                              *)
EXTENDS Injector, SequenceTheorems, TLAPS

-----------------------------------------------------------------------------
(* The inductive invariants.                                               *)

\* An event that is written or will be.
Waiting(ev) ==
  \/ \E i \in DOMAIN queue : queue[i] = ev
  \/ \E e \in DOMAIN todo : \E i \in DOMAIN todo[e] : todo[e][i] = ev

\* The release of a key comes later in a sequence of events, or in a later emit.
ReleasedIn(s, i, k) == \E j \in DOMAIN s : j > i /\ s[j] = Release(k)
ReleasedAfter(emits, e, i, k) ==
  \/ ReleasedIn(emits[e], i, k)
  \/ \E f \in DOMAIN emits : f > e /\ ReleasedIn(emits[f], 0, k)

\* A press that waits is of a key the client holds, or its release comes later.
PressesReleased ==
  /\ \A i \in DOMAIN queue : \A k \in Key : queue[i] = Press(k) =>
       \/ k \in held
       \/ ReleasedIn(queue, i, k)
       \/ \E f \in DOMAIN todo : ReleasedIn(todo[f], 0, k)
  /\ \A e \in DOMAIN todo : \A i \in DOMAIN todo[e] : \A k \in Key : todo[e][i] = Press(k) =>
       k \in held \/ ReleasedAfter(todo, e, i, k)

\* A key that is down is held or its release waits; a key that is held, and that
\* no text went over, is down or its press waits, and its release does not.
KeysAccounted ==
  /\ \A k \in down : k \in held \/ Waiting(Release(k))
  /\ \A k \in held \ touched : k \in down \/ Waiting(Press(k))
  /\ \A k \in held \ touched : ~Waiting(Release(k))

KeysInv == ~failed => PressesReleased /\ KeysAccounted

\* What is left of the character is the end of its emits.
EndOf(s, t) == Len(s) <= Len(t) /\ \A i \in DOMAIN s : s[i] = t[Len(t) - Len(s) + i]
Begun(ch) == TypeChar(ch)[Len(TypeChar(ch)) - Len(todo)]
InPlace ==
  /\ EndOf(todo, TypeChar(typing))
  /\ queue # <<>> => Len(todo) < Len(TypeChar(typing)) /\ EndOf(queue, Begun(typing))

\* A letter of a clean text is down only between its press and its release.
LettersLifted ==
  \A k \in down : k \in held \cup Modifiers
    \/ /\ \E i \in DOMAIN queue : queue[i] = Release(k)
       /\ \A i \in DOMAIN queue : queue[i] # Press(k)

\* Where Shift and Ctrl are down, and how many keystrokes are left, for each
\* number of emits and events left: of a single tap, and of a character that is
\* typed as Ctrl+Shift+U and digits.
Half == Len(queue) > Len(Begun(typing)) \div 2
SinglePlace ==
  LET e == Len(todo) q == Len(queue) IN
  /\ Ctrl \notin down
  /\ Shift \in down <=> (e = 0 /\ q \in 1..3 /\ Len(Begun(typing)) = 4)
  /\ Len(meant) = Len(log) + (IF e = 1 \/ (q > 0 /\ Half) THEN 1 ELSE 0)
UnicodePlace ==
  LET e == Len(todo) q == Len(queue) IN
  /\ Ctrl \in down  <=> (e = 5 /\ q < 2) \/ e = 4 \/ (e = 3 /\ q = 2)
  /\ Shift \in down <=> (e = 5 /\ q = 0) \/ e = 4 \/ (e = 3 /\ q > 0)
  /\ Len(meant) = Len(log) +
       (IF e \in {5, 6} \/ (e = 4 /\ q = 2) THEN 4
        ELSE IF e \in {3, 4} THEN 3
        ELSE IF q = 2 THEN e + 1 ELSE e)

\* The text so far is what was meant so far, and what is meant ends with the
\* character that is being typed.
TextMeant ==
  /\ \A i \in DOMAIN log : log[i] = meant[i]
  /\ EndOf(MeantBy(typing), meant)
  /\ held \cap (KeysIn(TypeChar(typing)) \cup Modifiers) = {}
  /\ IF typing \in DOMAIN Hex THEN UnicodePlace ELSE SinglePlace

TextInv ==
  (typing # Unknown /\ ~failed) => InPlace /\ LettersLifted /\ (clean => TextMeant)

\* Of a motion, what the desktop saw and what waits are what was meant.
MotionOf(ev) == [axis |-> ev[1], by |-> ev[2]]
MotionEvents == IF todo = <<>> THEN queue ELSE todo[1]
MotionPlace ==
  /\ Len(todo) <= 1
  /\ todo # <<>> => queue = <<>>
  /\ Len(meant) = Len(log) + Len(MotionEvents)
  /\ \A i \in DOMAIN log : log[i] = meant[i]
  /\ \A i \in DOMAIN MotionEvents :
       /\ MotionEvents[i][1] \in Axis
       /\ meant[Len(log) + i] = MotionOf(MotionEvents[i])

MotionInv == (typing = Unknown /\ ~failed /\ clean) => MotionPlace

ScaleInv == ~behind => pointer_scale = PointerScale(current)

-----------------------------------------------------------------------------
(* The tables, and the emits of a character.                               *)

Letter == Key \ Modifiers

LEMMA AsciiLetters ==
  \A c \in DOMAIN AsciiKey : AsciiKey[c][1] \in Letter /\ AsciiKey[c][2] \in BOOLEAN
  <1>1. DOMAIN AsciiKey = {"a", "A", "e", "f", "u", "U", "one", "bang", "nine"}
    BY DEF AsciiKey
  <1>2. \A c \in DOMAIN AsciiKey : AsciiKey[c][1] \in Key
    BY DEF Key
  <1>3. \A c \in DOMAIN AsciiKey : AsciiKey[c][1] \notin Modifiers
    BY <1>1 DEF AsciiKey, Modifiers, Shift, Ctrl
  <1>4. /\ AsciiKey["a"][2] \in BOOLEAN /\ AsciiKey["A"][2] \in BOOLEAN
        /\ AsciiKey["e"][2] \in BOOLEAN /\ AsciiKey["f"][2] \in BOOLEAN
        /\ AsciiKey["u"][2] \in BOOLEAN
        /\ AsciiKey["U"][2] \in BOOLEAN /\ AsciiKey["one"][2] \in BOOLEAN
        /\ AsciiKey["bang"][2] \in BOOLEAN /\ AsciiKey["nine"][2] \in BOOLEAN
    BY DEF AsciiKey
  <1> QED
    BY <1>1, <1>2, <1>3, <1>4 DEF Letter

LEMMA ControlLetters == \A c \in DOMAIN ControlKey : ControlKey[c] \in Letter
  <1>1. DOMAIN ControlKey = {"newline", "tab", "backspace"}
    BY DEF ControlKey
  <1>2. \A c \in DOMAIN ControlKey : ControlKey[c] \in Range(ControlKey)
    BY DEF Range
  <1>3. \A c \in DOMAIN ControlKey : ControlKey[c] \in Key
    BY <1>2 DEF Key
  <1>4. \A c \in DOMAIN ControlKey : ControlKey[c] \notin Modifiers
    BY <1>1 DEF ControlKey, Modifiers, Shift, Ctrl
  <1> QED
    BY <1>3, <1>4 DEF Letter

\* The keys of Ctrl+Shift+U and of the Enter behind the digits.
LEMMA FixedLetters ==
  /\ "KEY_U" \in Letter /\ "KEY_ENTER" \in Letter
  /\ Shift \in Key /\ Ctrl \in Key /\ Shift # Ctrl
  <1>1. AsciiKey["u"][1] = "KEY_U" /\ "u" \in DOMAIN AsciiKey
    BY DEF AsciiKey
  <1>2. ControlKey["newline"] = "KEY_ENTER" /\ "newline" \in DOMAIN ControlKey
    BY DEF ControlKey
  <1>3. "KEY_U" \in Letter
    BY <1>1, AsciiLetters
  <1>4. "KEY_ENTER" \in Letter
    BY <1>2, ControlLetters
  <1>5. Shift \in Key /\ Ctrl \in Key /\ Shift # Ctrl
    BY DEF Key, Shift, Ctrl
  <1> QED
    BY <1>3, <1>4, <1>5

LEMMA AxesNoKeys == Axis \cap Key = {}
  <1>1. \A c \in DOMAIN AsciiKey : AsciiKey[c][1] \notin Axis
    <2>1. DOMAIN AsciiKey = {"a", "A", "e", "f", "u", "U", "one", "bang", "nine"}
      BY DEF AsciiKey
    <2> QED
      BY <2>1 DEF AsciiKey, Axis
  <1>2. \A k \in Range(ControlKey) : k \notin Axis
    BY DEF Range, ControlKey, Axis
  <1>3. \A k \in {Shift, Ctrl, "BTN_LEFT", "BTN_RIGHT", "BTN_MIDDLE"} : k \notin Axis
    BY DEF Shift, Ctrl, Axis
  <1> QED
    BY <1>1, <1>2, <1>3 DEF Key

LEMMA HexDigits ==
  \A c \in DOMAIN Hex : /\ Hex[c] \in Seq(DOMAIN AsciiKey) /\ Len(Hex[c]) = 2
                        /\ c \notin DOMAIN AsciiKey /\ c \notin DOMAIN ControlKey
  <1>1. DOMAIN Hex = {"eacute", "copyright"}
    BY DEF Hex
  <1>2. DOMAIN AsciiKey = {"a", "A", "e", "f", "u", "U", "one", "bang", "nine"}
    BY DEF AsciiKey
  <1>3. DOMAIN ControlKey = {"newline", "tab", "backspace"}
    BY DEF ControlKey
  <1>4. \A c \in DOMAIN Hex : Hex[c] \in Seq({"a", "e", "nine"}) /\ Len(Hex[c]) = 2
    <2>1. Hex["eacute"] \in Seq({"a", "e", "nine"}) /\ Len(Hex["eacute"]) = 2
      BY DEF Hex
    <2>2. Hex["copyright"] \in Seq({"a", "e", "nine"}) /\ Len(Hex["copyright"]) = 2
      BY DEF Hex
    <2> QED
      BY <1>1, <2>1, <2>2
  <1>5. {"a", "e", "nine"} \subseteq DOMAIN AsciiKey
    BY <1>2
  <1>6. \A c \in DOMAIN Hex : Hex[c] \in Seq(DOMAIN AsciiKey)
    BY <1>4, <1>5, SeqMonotonic
  <1>7. \A c \in DOMAIN Hex : c \notin DOMAIN AsciiKey /\ c \notin DOMAIN ControlKey
    BY <1>1, <1>2, <1>3
  <1> QED
    BY <1>4, <1>6, <1>7

\* Functions on 1..n are sequences.
LEMMA FunctionsAreSeqs ==
  ASSUME NEW S, NEW n \in Nat, NEW f \in [1..n -> S]
  PROVE  f \in Seq(S) /\ Len(f) = n
  OBVIOUS

LEMMA Pairs ==
  ASSUME NEW S, NEW f \in [1..2 -> S]
  PROVE  f \in Seq(S) /\ Len(f) = 2
  BY FunctionsAreSeqs

\* What sequences behind one another hold.
LEMMA Joined ==
  ASSUME NEW S, NEW s \in Seq(S), NEW t \in Seq(S)
  PROVE  /\ s \o t \in Seq(S) /\ Len(s \o t) = Len(s) + Len(t)
         /\ \A i \in 1..Len(s) : (s \o t)[i] = s[i]
         /\ \A i \in 1..Len(t) : (s \o t)[Len(s) + i] = t[i]
  OBVIOUS

\* Presses and releases are events.
LEMMA KeyEvents == \A k \in Key : Press(k) \in Event /\ Release(k) \in Event
  BY DEF Event, Press, Release

LEMMA ChordEvents ==
  /\ <<Press(Ctrl), Press(Shift)>> \in Seq(Event)
  /\ <<Release(Ctrl), Release(Shift)>> \in Seq(Event)
  /\ Tap("KEY_U", FALSE) \in Seq(Event) /\ Tap("KEY_ENTER", FALSE) \in Seq(Event)
  <1>1. /\ Press(Shift) \in Event /\ Press(Ctrl) \in Event
        /\ Release(Shift) \in Event /\ Release(Ctrl) \in Event
    BY FixedLetters, KeyEvents
  <1>2. /\ Press("KEY_U") \in Event /\ Press("KEY_ENTER") \in Event
        /\ Release("KEY_U") \in Event /\ Release("KEY_ENTER") \in Event
    BY FixedLetters, KeyEvents DEF Letter
  <1> QED
    BY <1>1, <1>2 DEF Tap

\* A tap is an emit of events.
LEMMA TapEvents ==
  ASSUME NEW k \in Letter
  PROVE  /\ Tap(k, FALSE) \in Seq(Event) /\ Len(Tap(k, FALSE)) = 2
         /\ Tap(k, FALSE)[1] = Press(k) /\ Tap(k, FALSE)[2] = Release(k)
  <1>1. Press(k) \in Event /\ Release(k) \in Event
    BY KeyEvents DEF Letter
  <1> QED
    BY <1>1 DEF Tap

LEMMA ShiftedTapEvents ==
  ASSUME NEW k \in Letter
  PROVE  /\ Tap(k, TRUE) \in Seq(Event) /\ Len(Tap(k, TRUE)) = 4
         /\ Tap(k, TRUE)[1] = Press(Shift) /\ Tap(k, TRUE)[2] = Press(k)
         /\ Tap(k, TRUE)[3] = Release(k) /\ Tap(k, TRUE)[4] = Release(Shift)
  <1>1. /\ Press(k) \in Event /\ Release(k) \in Event
        /\ Press(Shift) \in Event /\ Release(Shift) \in Event
    BY KeyEvents, FixedLetters DEF Letter
  <1> QED
    BY <1>1 DEF Tap

\* A character of ASCII is one emit, and one keystroke, with Shift or without.
LEMMA SingleEmit ==
  ASSUME NEW ch \in Char, ch \notin DOMAIN Hex
  PROVE  \E k \in Letter :
           \/ TypeChar(ch) = << Tap(k, FALSE) >> /\ MeantBy(ch) = << Stroke(k, FALSE, FALSE) >>
           \/ TypeChar(ch) = << Tap(k, TRUE) >>  /\ MeantBy(ch) = << Stroke(k, TRUE, FALSE) >>
  <1>1. CASE ch \in DOMAIN ControlKey
    BY <1>1, ControlLetters, Zenon DEF TypeChar, MeantBy
  <1>2. CASE ch \in DOMAIN AsciiKey /\ ch \notin DOMAIN ControlKey
    <2>1. /\ TypeChar(ch) = << Tap(AsciiKey[ch][1], AsciiKey[ch][2]) >>
          /\ MeantBy(ch) = << Stroke(AsciiKey[ch][1], AsciiKey[ch][2], FALSE) >>
      BY <1>2, Zenon DEF TypeChar, MeantBy
    <2>2. AsciiKey[ch][1] \in Letter /\ (AsciiKey[ch][2] = TRUE \/ AsciiKey[ch][2] = FALSE)
      BY <1>2, AsciiLetters
    <2> QED
      BY <2>1, <2>2, Zenon
  <1> QED
    BY <1>1, <1>2 DEF Char

\* The digits of a character outside ASCII, as taps and as keystrokes.
LEMMA TapsOfDigits ==
  ASSUME NEW ch \in DOMAIN Hex
  PROVE  /\ TapDigits(ch) \in [1..2 -> Seq(Event)]
         /\ TapDigits(ch)[1] = Tap(AsciiKey[Hex[ch][1]][1], FALSE)
         /\ TapDigits(ch)[2] = Tap(AsciiKey[Hex[ch][2]][1], FALSE)
  <1>1. DOMAIN Hex[ch] = 1..2
    BY HexDigits
  <1>2. \A i \in 1..2 : AsciiKey[Hex[ch][i]][1] \in Letter
    BY HexDigits, AsciiLetters
  <1>3. \A i \in 1..2 : Tap(AsciiKey[Hex[ch][i]][1], FALSE) \in Seq(Event)
    BY <1>2, TapEvents
  <1>4. TapDigits(ch) = [i \in 1..2 |-> Tap(AsciiKey[Hex[ch][i]][1], FALSE)]
    BY <1>1 DEF TapDigits
  <1> DEFINE tap(i) == Tap(AsciiKey[Hex[ch][i]][1], FALSE)
  <1>5. TapDigits(ch) = [i \in 1..2 |-> tap(i)] /\ \A i \in 1..2 : tap(i) \in Seq(Event)
    BY <1>3, <1>4
  <1> HIDE DEF tap
  <1>6. /\ TapDigits(ch) \in [1..2 -> Seq(Event)]
        /\ TapDigits(ch)[1] = tap(1) /\ TapDigits(ch)[2] = tap(2)
    BY <1>5
  <1> QED
    BY <1>6 DEF tap

LEMMA StrokesOfDigits ==
  ASSUME NEW ch \in DOMAIN Hex
  PROVE  LET digits == [i \in DOMAIN Hex[ch] |-> Stroke(AsciiKey[Hex[ch][i]][1], FALSE, FALSE)]
         IN  /\ digits \in [1..2 -> Seen]
             /\ digits[1] = Stroke(AsciiKey[Hex[ch][1]][1], FALSE, FALSE)
             /\ digits[2] = Stroke(AsciiKey[Hex[ch][2]][1], FALSE, FALSE)
  <1>1. DOMAIN Hex[ch] = 1..2
    BY HexDigits
  <1>2. \A i \in 1..2 : AsciiKey[Hex[ch][i]][1] \in Letter
    BY HexDigits, AsciiLetters
  <1>3. \A i \in 1..2 : Stroke(AsciiKey[Hex[ch][i]][1], FALSE, FALSE) \in Seen
    BY <1>2 DEF Stroke, Seen, Letter
  <1> DEFINE stroke(i) == Stroke(AsciiKey[Hex[ch][i]][1], FALSE, FALSE)
             digits == [i \in DOMAIN Hex[ch] |-> stroke(i)]
  <1>4. digits = [i \in 1..2 |-> stroke(i)] /\ \A i \in 1..2 : stroke(i) \in Seen
    BY <1>1, <1>3
  <1> HIDE DEF stroke
  <1>5. digits \in [1..2 -> Seen] /\ digits[1] = stroke(1) /\ digits[2] = stroke(2)
    BY <1>4
  <1> QED
    BY <1>5 DEF stroke

\* A character outside ASCII is six emits, and four keystrokes.
LEMMA UnicodeEmits ==
  ASSUME NEW ch \in DOMAIN Hex
  PROVE  \E k, l \in Letter :
           /\ TypeChar(ch) \in Seq(Seq(Event)) /\ Len(TypeChar(ch)) = 6
           /\ TypeChar(ch)[1] = <<Press(Ctrl), Press(Shift)>>
           /\ TypeChar(ch)[2] = Tap("KEY_U", FALSE)
           /\ TypeChar(ch)[3] = <<Release(Ctrl), Release(Shift)>>
           /\ TypeChar(ch)[4] = Tap(k, FALSE)
           /\ TypeChar(ch)[5] = Tap(l, FALSE)
           /\ TypeChar(ch)[6] = Tap("KEY_ENTER", FALSE)
           /\ MeantBy(ch) \in Seq(Seen) /\ Len(MeantBy(ch)) = 4
           /\ MeantBy(ch)[1] = Stroke("KEY_U", TRUE, TRUE)
           /\ MeantBy(ch)[2] = Stroke(k, FALSE, FALSE)
           /\ MeantBy(ch)[3] = Stroke(l, FALSE, FALSE)
           /\ MeantBy(ch)[4] = Stroke("KEY_ENTER", FALSE, FALSE)
  <1> DEFINE k == AsciiKey[Hex[ch][1]][1]
             l == AsciiKey[Hex[ch][2]][1]
             digits == [i \in DOMAIN Hex[ch] |-> Stroke(AsciiKey[Hex[ch][i]][1], FALSE, FALSE)]
             open  == <<Press(Ctrl), Press(Shift)>>
             close == <<Release(Ctrl), Release(Shift)>>
             U     == Tap("KEY_U", FALSE)
             Enter == Tap("KEY_ENTER", FALSE)
             first == Stroke("KEY_U", TRUE, TRUE)
             last  == Stroke("KEY_ENTER", FALSE, FALSE)
  <1>1. ch \notin DOMAIN AsciiKey /\ ch \notin DOMAIN ControlKey /\ DOMAIN Hex[ch] = 1..2
    BY HexDigits
  <1>2. k \in Letter /\ l \in Letter
    BY HexDigits, AsciiLetters
  <1>3. /\ TapDigits(ch) \in [1..2 -> Seq(Event)]
        /\ TapDigits(ch)[1] = Tap(k, FALSE) /\ TapDigits(ch)[2] = Tap(l, FALSE)
    BY <1>1, TapsOfDigits
  <1>4. /\ digits \in [1..2 -> Seen]
        /\ digits[1] = Stroke(k, FALSE, FALSE) /\ digits[2] = Stroke(l, FALSE, FALSE)
    BY <1>1, StrokesOfDigits
  <1>5. TypeChar(ch) = <<open, U, close>> \o TapDigits(ch) \o <<Enter>>
    BY <1>1 DEF TypeChar, TypeUnicode
  <1>6. MeantBy(ch) = <<first>> \o digits \o <<last>>
    BY <1>1 DEF MeantBy
  <1>7. open \in Seq(Event) /\ close \in Seq(Event) /\ U \in Seq(Event) /\ Enter \in Seq(Event)
    BY ChordEvents
  <1>8. first \in Seen /\ last \in Seen
    BY FixedLetters DEF Stroke, Seen, Letter
  <1> HIDE DEF k, l, digits, open, close, U, Enter, first, last
  <1>9. /\ TapDigits(ch) \in Seq(Seq(Event))
        /\ Len(TapDigits(ch)) >= 2 /\ Len(TapDigits(ch)) <= 2
    <2>1. TapDigits(ch) \in Seq(Seq(Event)) /\ Len(TapDigits(ch)) = 2
      BY <1>3, Pairs
    <2> QED
      BY <2>1
  <1>10. digits \in Seq(Seen) /\ Len(digits) >= 2 /\ Len(digits) <= 2
    <2>1. digits \in Seq(Seen) /\ Len(digits) = 2
      BY <1>4, Pairs
    <2> QED
      BY <2>1
  <1>11. /\ TypeChar(ch) \in Seq(Seq(Event)) /\ Len(TypeChar(ch)) = 6
         /\ TypeChar(ch)[1] = open /\ TypeChar(ch)[2] = U /\ TypeChar(ch)[3] = close
         /\ TypeChar(ch)[4] = TapDigits(ch)[1] /\ TypeChar(ch)[5] = TapDigits(ch)[2]
         /\ TypeChar(ch)[6] = Enter
    BY <1>5, <1>7, <1>9
  <1>12. /\ MeantBy(ch) \in Seq(Seen) /\ Len(MeantBy(ch)) = 4
         /\ MeantBy(ch)[1] = first /\ MeantBy(ch)[2] = digits[1]
         /\ MeantBy(ch)[3] = digits[2] /\ MeantBy(ch)[4] = last
    BY <1>6, <1>8, <1>10
  <1> QED
    BY <1>2, <1>3, <1>4, <1>11, <1>12 DEF open, close, U, Enter, first, last

LEMMA CharTypes ==
  ASSUME NEW ch \in Char
  PROVE  TypeChar(ch) \in Seq(Seq(Event)) /\ MeantBy(ch) \in Seq(Seen)
  <1>1. CASE ch \in DOMAIN Hex
    BY <1>1, UnicodeEmits
  <1>2. CASE ch \notin DOMAIN Hex
    <2>1. PICK k \in Letter :
             \/ TypeChar(ch) = << Tap(k, FALSE) >> /\ MeantBy(ch) = << Stroke(k, FALSE, FALSE) >>
             \/ TypeChar(ch) = << Tap(k, TRUE) >>  /\ MeantBy(ch) = << Stroke(k, TRUE, FALSE) >>
      BY <1>2, SingleEmit
    <2>2. /\ << Tap(k, TRUE) >> \in Seq(Seq(Event)) /\ << Tap(k, FALSE) >> \in Seq(Seq(Event))
      <3>1. Tap(k, TRUE) \in Seq(Event) /\ Tap(k, FALSE) \in Seq(Event)
        BY TapEvents, ShiftedTapEvents
      <3>2. \A s \in Seq(Event) : <<s>> \in Seq(Seq(Event))
        OBVIOUS
      <3> QED
        BY <3>1, <3>2, Zenon
    <2>3. << Stroke(k, TRUE, FALSE) >> \in Seq(Seen) /\ << Stroke(k, FALSE, FALSE) >> \in Seq(Seen)
      BY DEF Stroke, Seen, Letter
    <2> QED
      BY <2>1, <2>2, <2>3
  <1> QED
    BY <1>1, <1>2

-----------------------------------------------------------------------------
(* Names, buttons, viewports and motions.                                  *)

LEMMA NamedKeys == \A name : KeyOf(name) \in Key \cup {Unknown}
  <1>1. \A name \in DOMAIN SpecialKey : SpecialKey[name] \in Key
    <2>1. DOMAIN SpecialKey = {"return", "backspace", "tab", "ctrl", "shift"}
      BY DEF SpecialKey
    <2>2. DOMAIN ControlKey = {"newline", "tab", "backspace"}
      BY DEF ControlKey
    <2>3. /\ SpecialKey["return"] = ControlKey["newline"]
          /\ SpecialKey["backspace"] = ControlKey["backspace"]
          /\ SpecialKey["tab"] = ControlKey["tab"]
          /\ SpecialKey["ctrl"] = Ctrl /\ SpecialKey["shift"] = Shift
      BY DEF SpecialKey, ControlKey, Ctrl, Shift
    <2> QED
      BY <2>1, <2>2, <2>3, ControlLetters, FixedLetters DEF Letter
  <1>2. \A ch \in DOMAIN AsciiKey : AsciiKey[ch][1] \in Key
    BY AsciiLetters DEF Letter
  <1> QED
    BY <1>1, <1>2 DEF KeyOf

LEMMA ButtonKeys == \A which : ButtonKey(which) \in Key
  BY DEF ButtonKey, Key

LEMMA Scales ==
  ASSUME NEW vp \in Viewports
  PROVE  PointerScale(vp) \in 4..60
  <1>1. vp \in [w : Nat, points_w : Nat, scale : Nat] /\ EncWidth \in Nat
    BY InjectorAssumption
  <1>2. Larger(vp.scale, 1) \in Nat /\ Larger(vp.scale, 1) > 0
    BY <1>1 DEF Larger
  <1>3. vp.w \div Larger(vp.scale, 1) \in Int
    BY <1>1, <1>2
  <1>4. Points(vp) \in Int
    BY <1>1, <1>3 DEF Points
  <1>5. Points(vp) > 1 => (10 * EncWidth) \div Points(vp) \in Int
    BY <1>1, <1>4
  <1> QED
    BY <1>5 DEF PointerScale, Smaller, Larger

LEMMA Numbers ==
  ASSUME NEW n \in Int
  PROVE  Rounded(n) \in Int /\ Saturated(n) \in Int /\ Wrapped(n) \in Int
  <1>1. IntMax \in Nat
    BY InjectorAssumption
  <1>2. Rounded(n) \in Int
    BY DEF Rounded
  <1>3. Saturated(n) \in Int
    BY <1>1 DEF Saturated, Smaller, Larger
  <1>4. Wrapped(n) \in Int
    <2>1. 2 * (IntMax + 1) \in Nat /\ 2 * (IntMax + 1) > 0 /\ n + IntMax + 1 \in Int
      BY <1>1
    <2>2. (n + IntMax + 1) % (2 * (IntMax + 1)) \in Int
      BY <2>1
    <2> QED
      BY <1>1, <2>2 DEF Wrapped
  <1> QED
    BY <1>2, <1>3, <1>4

\* A number that fits is converted and multiplied as it is.
LEMMA Fitting ==
  ASSUME NEW n \in Int, Fits(n)
  PROVE  Saturated(n) = n /\ Wrapped(n) = n
  <1>1. IntMax \in Nat /\ 0 - IntMax - 1 <= n /\ n <= IntMax
    BY InjectorAssumption DEF Fits
  <1>2. Saturated(n) = n
    BY <1>1 DEF Saturated, Smaller, Larger
  <1>3. Wrapped(n) = n
    <2> DEFINE a == n + IntMax + 1
               m == 2 * (IntMax + 1)
    <2>1. a \in Int /\ m \in Int /\ 0 <= a /\ a < m
      BY <1>1
    <2>2. Wrapped(n) = (a % m) - IntMax - 1 /\ a - IntMax - 1 = n
      BY <1>1 DEF Wrapped
    <2> HIDE DEF a, m
    <2>3. a % m = a
      BY <2>1
    <2> QED
      BY <2>2, <2>3
  <1> QED
    BY <1>2, <1>3

\* The events of an emit are the motions that were meant.
AxisEvent    == Axis \X Int
Same(evs, ms) ==
  /\ evs \in Seq(AxisEvent) /\ ms \in Seq(Seen) /\ Len(evs) = Len(ms)
  /\ \A i \in 1..Len(evs) : ms[i] = MotionOf(evs[i])

LEMMA SameBehind ==
  ASSUME NEW a, NEW b, NEW c, NEW d, Same(a, b), Same(c, d)
  PROVE  Same(a \o c, b \o d)
  <1>1. /\ a \in Seq(AxisEvent) /\ b \in Seq(Seen) /\ c \in Seq(AxisEvent) /\ d \in Seq(Seen)
        /\ Len(a) = Len(b) /\ Len(c) = Len(d)
        /\ \A i \in 1..Len(a) : b[i] = MotionOf(a[i])
        /\ \A i \in 1..Len(c) : d[i] = MotionOf(c[i])
    BY DEF Same
  <1>2. /\ a \o c \in Seq(AxisEvent) /\ Len(a \o c) = Len(a) + Len(c)
        /\ b \o d \in Seq(Seen) /\ Len(b \o d) = Len(b) + Len(d)
    BY <1>1, ConcatProperties
  <1>3. ASSUME NEW i \in 1..Len(a \o c)
        PROVE  (b \o d)[i] = MotionOf((a \o c)[i])
    <2>1. CASE i <= Len(a)
      <3>1. i \in 1..Len(a) /\ i \in 1..Len(b)
        BY <1>1, <1>2, <2>1
      <3>2. (a \o c)[i] = a[i] /\ (b \o d)[i] = b[i]
        BY <1>1, <3>1, Joined
      <3> QED
        BY <1>1, <3>1, <3>2
    <2>2. CASE i > Len(a)
      <3>1. PICK j \in 1..Len(c) : i = Len(a) + j
        <4>1. i - Len(a) \in 1..Len(c) /\ i = Len(a) + (i - Len(a))
          BY <1>1, <1>2, <2>2
        <4> QED
          BY <4>1
      <3>2. (a \o c)[Len(a) + j] = c[j]
        BY <1>1, <3>1, Joined
      <3>3. (b \o d)[Len(b) + j] = d[j]
        BY <1>1, <3>1, Joined
      <3> QED
        BY <1>1, <3>1, <3>2, <3>3
    <2> QED
      BY <1>1, <1>2, <2>1, <2>2
  <1> QED
    BY <1>1, <1>2, <1>3 DEF Same

LEMMA SameAlong ==
  ASSUME NEW axis \in Axis, NEW n \in Int
  PROVE  Same(Along(axis, n), Motion(axis, n))
  <1>1. CASE n = 0
    BY <1>1 DEF Same, Along, Motion, AxisEvent, Seen
  <1>2. CASE n # 0
    <2>1. <<axis, n>> \in AxisEvent /\ [axis |-> axis, by |-> n] \in Seen
      BY DEF Seen, AxisEvent
    <2> QED
      BY <1>2, <2>1 DEF Same, Along, Motion, MotionOf
  <1> QED
    BY <1>1, <1>2

LEMMA SameNotches ==
  ASSUME NEW hires \in Axis, NEW axis \in Axis, NEW n \in Int, Fits(120 * n)
  PROVE  Same(Notches(hires, axis, n), Motion(hires, 120 * n) \o Motion(axis, n))
  <1>1. Wrapped(n * 120) = 120 * n
    <2>1. 120 * n \in Int /\ n * 120 = 120 * n
      OBVIOUS
    <2> QED
      BY <2>1, Fitting
  <1>2. CASE n = 0
    BY <1>2 DEF Same, Notches, Motion, AxisEvent, Seen
  <1>3. CASE n # 0
    <2>1. /\ Same(<< <<hires, 120 * n>> >>, << [axis |-> hires, by |-> 120 * n] >>)
          /\ Same(<< <<axis, n>> >>, << [axis |-> axis, by |-> n] >>)
      BY DEF Same, Seen, AxisEvent, MotionOf
    <2>2. << <<hires, 120 * n>>, <<axis, n>> >> = << <<hires, 120 * n>> >> \o << <<axis, n>> >>
      OBVIOUS
    <2>3. /\ Notches(hires, axis, n) = << <<hires, 120 * n>> >> \o << <<axis, n>> >>
          /\ Motion(hires, 120 * n) = << [axis |-> hires, by |-> 120 * n] >>
          /\ Motion(axis, n) = << [axis |-> axis, by |-> n] >>
      BY <1>1, <1>3, <2>2 DEF Notches, Motion
    <2> QED
      BY <2>1, <2>3, SameBehind
  <1> QED
    BY <1>2, <1>3

\* The emit of a motion, if there is one, and what was meant by the motion.
Emitted(todos, ms) ==
  \/ todos = <<>> /\ ms = <<>>
  \/ Len(todos) = 1 /\ Same(todos[1], ms) /\ todos \in Seq(Seq(Event)) /\ ms \in Seq(Seen)

LEMMA EmittedSame ==
  ASSUME NEW evs, NEW ms, Same(evs, ms)
  PROVE  Emitted(Emission(evs), ms)
  <1>1. /\ evs \in Seq(AxisEvent) /\ ms \in Seq(Seen) /\ Len(evs) = Len(ms)
    BY DEF Same
  <1>2. CASE evs = <<>>
    BY <1>1, <1>2 DEF Emission, Emitted
  <1>3. CASE evs # <<>>
    <2>1. AxisEvent \subseteq Event
      BY DEF AxisEvent, Event
    <2>2. evs \in Seq(Event)
      BY <1>1, <2>1, SeqMonotonic
    <2>3. Emission(evs) = <<evs>>
      BY <1>3 DEF Emission
    <2> QED
      BY <1>1, <2>2, <2>3 DEF Emitted
  <1> QED
    BY <1>2, <1>3

LEMMA AxisEmits ==
  ASSUME NEW evs \in Seq(AxisEvent)
  PROVE  Emission(evs) \in Seq(Seq(AxisEvent))
  BY DEF Emission

\* They are emits of events, and of no key.
LEMMA AxisEmitEvents ==
  ASSUME NEW todos \in Seq(Seq(AxisEvent))
  PROVE  /\ todos \in Seq(Seq(Event))
         /\ \A e \in DOMAIN todos : \A i \in DOMAIN todos[e] : todos[e][i][1] \notin Key
  <1>1. AxisEvent \subseteq Event
    BY DEF AxisEvent, Event
  <1>2. Seq(AxisEvent) \subseteq Seq(Event)
    BY <1>1, SeqMonotonic
  <1>3. todos \in Seq(Seq(Event))
    BY <1>2, SeqMonotonic
  <1>4. ASSUME NEW e \in DOMAIN todos, NEW i \in DOMAIN todos[e]
        PROVE  todos[e][i][1] \notin Key
    <2>1. todos[e] \in Seq(AxisEvent)
      OBVIOUS
    <2>2. todos[e][i] \in AxisEvent
      BY <2>1
    <2>3. todos[e][i][1] \in Axis
      BY <2>2 DEF AxisEvent
    <2> QED
      BY <2>3, AxesNoKeys
  <1> QED
    BY <1>3, <1>4

LEMMA MoveTypes ==
  ASSUME NEW m \in Int \X Int, NEW scale \in Int
  PROVE  MoveEmits(m, scale) \in Seq(Seq(AxisEvent)) /\ MeantMove(m, scale) \in Seq(Seen)
  <1> DEFINE dx == Rounded(m[1] * scale)
             dy == Rounded(m[2] * scale)
  <1>1. m[1] \in Int /\ m[2] \in Int
    OBVIOUS
  <1>2. dx \in Int /\ dy \in Int /\ Saturated(dx) \in Int /\ Saturated(dy) \in Int
    BY <1>1, Numbers
  <1>3. MoveEmits(m, scale) = Emission(Along("REL_X", Saturated(dx)) \o Along("REL_Y", Saturated(dy)))
        /\ MeantMove(m, scale) = Motion("REL_X", dx) \o Motion("REL_Y", dy)
    BY DEF MoveEmits, MeantMove
  <1> HIDE DEF dx, dy
  <1>4. "REL_X" \in Axis /\ "REL_Y" \in Axis
    BY DEF Axis
  <1>5. Same(Along("REL_X", Saturated(dx)) \o Along("REL_Y", Saturated(dy)),
             Motion("REL_X", Saturated(dx)) \o Motion("REL_Y", Saturated(dy)))
    BY <1>2, <1>4, SameAlong, SameBehind
  <1>6. Along("REL_X", Saturated(dx)) \o Along("REL_Y", Saturated(dy)) \in Seq(AxisEvent)
    BY <1>5 DEF Same
  <1>7. MoveEmits(m, scale) \in Seq(Seq(AxisEvent))
    BY <1>3, <1>6, AxisEmits
  <1>8. Same(Along("REL_X", dx) \o Along("REL_Y", dy), Motion("REL_X", dx) \o Motion("REL_Y", dy))
    BY <1>2, <1>4, SameAlong, SameBehind
  <1> QED
    BY <1>3, <1>7, <1>8 DEF Same

\* A move whose numbers fit is emitted as it is meant.
LEMMA MoveAsMeant ==
  ASSUME NEW m \in Int \X Int, NEW scale \in Int, \A i \in 1..2 : Fits(Rounded(m[i] * scale))
  PROVE  Emitted(MoveEmits(m, scale), MeantMove(m, scale))
  <1> DEFINE dx == Rounded(m[1] * scale)
             dy == Rounded(m[2] * scale)
  <1>1. dx \in Int /\ dy \in Int /\ Fits(dx) /\ Fits(dy)
    <2>1. m[1] * scale \in Int /\ m[2] * scale \in Int
      OBVIOUS
    <2> QED
      BY <2>1, Numbers
  <1>2. MoveEmits(m, scale) = Emission(Along("REL_X", Saturated(dx)) \o Along("REL_Y", Saturated(dy)))
        /\ MeantMove(m, scale) = Motion("REL_X", dx) \o Motion("REL_Y", dy)
    BY DEF MoveEmits, MeantMove
  <1> HIDE DEF dx, dy
  <1>3. "REL_X" \in Axis /\ "REL_Y" \in Axis
    BY DEF Axis
  <1>4. Same(Along("REL_X", dx) \o Along("REL_Y", dy), Motion("REL_X", dx) \o Motion("REL_Y", dy))
    BY <1>1, <1>3, SameAlong, SameBehind
  <1>5. Saturated(dx) = dx /\ Saturated(dy) = dy
    BY <1>1, Fitting
  <1> QED
    BY <1>2, <1>4, <1>5, EmittedSame

LEMMA NotchEvents ==
  ASSUME NEW hires \in Axis, NEW axis \in Axis, NEW n \in Int
  PROVE  Notches(hires, axis, n) \in Seq(AxisEvent)
  <1> DEFINE w == Wrapped(n * 120)
  <1>1. w \in Int
    BY Numbers
  <1>2. Notches(hires, axis, n) = IF n = 0 THEN <<>> ELSE << <<hires, w>>, <<axis, n>> >>
    BY DEF Notches
  <1> HIDE DEF w
  <1>3. <<hires, w>> \in AxisEvent /\ <<axis, n>> \in AxisEvent
    BY <1>1 DEF AxisEvent
  <1>4. << <<hires, w>>, <<axis, n>> >> \in Seq(AxisEvent) /\ <<>> \in Seq(AxisEvent)
    BY <1>3
  <1> QED
    BY <1>2, <1>4

LEMMA MotionSeen ==
  \A axis \in Axis, n \in Int : Motion(axis, n) \in Seq(Seen)
  BY SameAlong DEF Same

LEMMA WheelTypes ==
  ASSUME NEW m \in Int \X Int
  PROVE  WheelEmits(m) \in Seq(Seq(AxisEvent)) /\ MeantWheel(m) \in Seq(Seen)
  <1>1. m[1] \in Int /\ m[2] \in Int /\ 120 * m[1] \in Int /\ 120 * m[2] \in Int
    OBVIOUS
  <1>2. /\ "REL_WHEEL_HI_RES" \in Axis /\ "REL_WHEEL" \in Axis
        /\ "REL_HWHEEL_HI_RES" \in Axis /\ "REL_HWHEEL" \in Axis
    BY DEF Axis
  <1> DEFINE a == Notches("REL_WHEEL_HI_RES", "REL_WHEEL", Saturated(m[2]))
             b == Notches("REL_HWHEEL_HI_RES", "REL_HWHEEL", Saturated(m[1]))
  <1>3. a \in Seq(AxisEvent) /\ b \in Seq(AxisEvent)
    BY <1>1, <1>2, Numbers, NotchEvents
  <1>4. WheelEmits(m) = Emission(a \o b)
    BY DEF WheelEmits
  <1> HIDE DEF a, b
  <1>5. a \o b \in Seq(AxisEvent)
    BY <1>3, ConcatProperties
  <1>6. WheelEmits(m) \in Seq(Seq(AxisEvent))
    BY <1>4, <1>5, AxisEmits
  <1> DEFINE c == Motion("REL_WHEEL_HI_RES", 120 * m[2])
             d == Motion("REL_WHEEL", m[2])
             e == Motion("REL_HWHEEL_HI_RES", 120 * m[1])
             f == Motion("REL_HWHEEL", m[1])
  <1>7. c \in Seq(Seen) /\ d \in Seq(Seen) /\ e \in Seq(Seen) /\ f \in Seq(Seen)
    BY <1>1, <1>2, MotionSeen
  <1>8. MeantWheel(m) = (c \o d) \o (e \o f)
    BY DEF MeantWheel
  <1> HIDE DEF c, d, e, f
  <1>9. MeantWheel(m) \in Seq(Seen)
    <2>1. c \o d \in Seq(Seen) /\ e \o f \in Seq(Seen)
      BY <1>7, ConcatProperties
    <2> QED
      BY <1>8, <2>1, ConcatProperties
  <1> QED
    BY <1>6, <1>9

\* A turn of the wheel whose numbers fit is emitted as it is meant.
LEMMA WheelAsMeant ==
  ASSUME NEW m \in Int \X Int, \A i \in 1..2 : Fits(120 * m[i])
  PROVE  Emitted(WheelEmits(m), MeantWheel(m))
  <1>1. m[1] \in Int /\ m[2] \in Int /\ Fits(120 * m[1]) /\ Fits(120 * m[2])
    OBVIOUS
  <1>2. Fits(m[1]) /\ Fits(m[2])
    BY <1>1, InjectorAssumption DEF Fits
  <1>3. Saturated(m[1]) = m[1] /\ Saturated(m[2]) = m[2]
    BY <1>1, <1>2, Fitting
  <1>4. /\ "REL_WHEEL_HI_RES" \in Axis /\ "REL_WHEEL" \in Axis
        /\ "REL_HWHEEL_HI_RES" \in Axis /\ "REL_HWHEEL" \in Axis
    BY DEF Axis
  <1> DEFINE a == Notches("REL_WHEEL_HI_RES", "REL_WHEEL", m[2])
             b == Notches("REL_HWHEEL_HI_RES", "REL_HWHEEL", m[1])
             v == Motion("REL_WHEEL_HI_RES", 120 * m[2]) \o Motion("REL_WHEEL", m[2])
             w == Motion("REL_HWHEEL_HI_RES", 120 * m[1]) \o Motion("REL_HWHEEL", m[1])
  <1>5. Same(a, v) /\ Same(b, w)
    BY <1>1, <1>4, SameNotches
  <1>6. WheelEmits(m) = Emission(a \o b) /\ MeantWheel(m) = v \o w
    BY <1>3 DEF WheelEmits, MeantWheel
  <1> HIDE DEF a, b, v, w
  <1> QED
    BY <1>5, <1>6, SameBehind, EmittedSame

-----------------------------------------------------------------------------
(* Types.                                                                  *)

LEMMA TypeInit == Init => TypeOK
  <1> SUFFICES ASSUME Init PROVE TypeOK
    OBVIOUS
  <1>1. hello \in Viewports /\ current \in Viewports /\ pointer_scale \in 4..60
    BY Scales DEF Init
  <1>2. down \subseteq Key /\ held \subseteq Key /\ touched \subseteq Key
    BY DEF Init
  <1>3. text \in Seq(Char) /\ todo \in Seq(Seq(Event)) /\ queue \in Seq(Event)
    BY DEF Init
  <1>4. log \in Seq(Seen) /\ meant \in Seq(Seen)
    BY DEF Init
  <1>5. typing \in Char \cup {Unknown} /\ clean \in BOOLEAN /\ failed \in BOOLEAN
        /\ messages \in Nat /\ behind \in BOOLEAN
    BY DEF Init
  <1> QED
    BY <1>1, <1>2, <1>3, <1>4, <1>5 DEF TypeOK

LEMMA TypePress ==
  ASSUME TypeOK, NEW k \in Key, NEW d \in BOOLEAN, PressOrRelease(k, d)
  PROVE  TypeOK'
  <1>1. << << <<k, d>> >> >> \in Seq(Seq(Event))
    <2>1. <<k, d>> \in Event
      BY DEF Event
    <2>2. << <<k, d>> >> \in Seq(Event)
      BY <2>1
    <2> QED
      BY <2>2
  <1>2. todo' \in Seq(Seq(Event))
    BY <1>1 DEF PressOrRelease
  <1>3. held' \subseteq Key /\ touched' \subseteq Key
    BY DEF PressOrRelease, TypeOK
  <1>4. messages' \in Nat
    BY DEF PressOrRelease, NewMessage, TypeOK
  <1>5. log' \in Seq(Seen) /\ meant' \in Seq(Seen)
    BY DEF PressOrRelease
  <1> QED
    BY <1>2, <1>3, <1>4, <1>5 DEF PressOrRelease, TypeOK, scaling

LEMMA TypeNextChar == ASSUME TypeOK, NextChar PROVE TypeOK'
  <1>1. typing' \in Char /\ text' \in Seq(Char)
    BY DEF NextChar, TypeOK
  <1>2. todo' \in Seq(Seq(Event)) /\ MeantBy(typing') \in Seq(Seen)
    BY <1>1, CharTypes DEF NextChar
  <1>3. meant' \in Seq(Seen)
    BY <1>2, ConcatProperties DEF NextChar, TypeOK
  <1>4. touched' \subseteq Key /\ clean' \in BOOLEAN
    BY DEF NextChar, TypeOK
  <1> QED
    BY <1>1, <1>2, <1>3, <1>4 DEF NextChar, TypeOK, scaling

LEMMA TypeMove ==
  ASSUME TypeOK, NEW m \in Moves, Move(m) \/ Wheel(m)
  PROVE  TypeOK'
  <1>1. m \in Int \X Int
    BY InjectorAssumption
  <1>2. NewMessage /\ messages' \in Nat
    <2>1. NewMessage
      BY DEF Move, Wheel
    <2> QED
      BY <2>1 DEF NewMessage, TypeOK
  <1>3. CASE Move(m)
    <2>1. pointer_scale \in Int /\ PointerScale(current) \in Int
      <3>1. pointer_scale \in 4..60 /\ current \in Viewports
        BY DEF TypeOK
      <3>2. PointerScale(current) \in 4..60
        BY <3>1, Scales
      <3> QED
        BY <3>1, <3>2
    <2>2. todo' \in Seq(Seq(Event)) /\ meant' \in Seq(Seen)
      BY <1>1, <1>3, <2>1, MoveTypes, AxisEmitEvents DEF Move
    <2>3. clean' \in BOOLEAN /\ log' \in Seq(Seen)
      BY <1>3 DEF Move
    <2> QED
      BY <1>2, <1>3, <2>2, <2>3 DEF Move, TypeOK, scaling
  <1>4. CASE Wheel(m)
    <2>1. todo' \in Seq(Seq(Event)) /\ meant' \in Seq(Seen)
      BY <1>1, <1>4, WheelTypes, AxisEmitEvents DEF Wheel
    <2>2. clean' \in BOOLEAN /\ log' \in Seq(Seen)
      BY <1>4 DEF Wheel
    <2> QED
      BY <1>2, <1>4, <2>1, <2>2 DEF Wheel, TypeOK, scaling
  <1> QED
    BY <1>3, <1>4

LEMMA TypeTaken ==
  ASSUME TypeOK, NEW k \in Key, KeyGoesDown(k) \/ KeyGoesUp(k)
  PROVE  TypeOK'
  <1>1. PICK ev : Taken(ev)
    BY DEF KeyGoesDown, KeyGoesUp
  <1>2. queue' \in Seq(Event)
    BY <1>1 DEF Taken, TypeOK
  <1>3. down' \subseteq Key
    BY DEF KeyGoesDown, KeyGoesUp, TypeOK
  <1>4. log' \in Seq(Seen)
    <2> DEFINE stroke == Stroke(k, Shift \in down, Ctrl \in down)
    <2>1. stroke \in Seen
      BY DEF Stroke, Seen
    <2>2. log' = log \/ log' = Append(log, stroke)
      BY Zenon DEF KeyGoesDown, KeyGoesUp
    <2>3. log \in Seq(Seen)
      BY DEF TypeOK
    <2> HIDE DEF stroke
    <2> QED
      BY <2>1, <2>2, <2>3
  <1> QED
    BY <1>1, <1>2, <1>3, <1>4 DEF Taken, TypeOK, scaling

LEMMA TypeAxis == ASSUME TypeOK, AxisMoves PROVE TypeOK'
  <1>1. queue' \in Seq(Event) /\ Head(queue) \in Event
    BY DEF AxisMoves, Taken, TypeOK
  <1>2. Head(queue) \in Axis \X Int
    BY <1>1, AxesNoKeys DEF AxisMoves, Event
  <1>3. log' \in Seq(Seen)
    <2>1. [axis |-> Head(queue)[1], by |-> Head(queue)[2]] \in Seen
      BY <1>2 DEF Seen
    <2> QED
      BY <2>1 DEF AxisMoves, TypeOK
  <1> QED
    BY <1>1, <1>3 DEF AxisMoves, Taken, TypeOK, scaling

\* Every step keeps the types.
LEMMA TypeStep == TypeOK /\ [Next]_vars => TypeOK'
  <1> SUFFICES ASSUME TypeOK, [Next]_vars PROVE TypeOK'
    OBVIOUS
  <1>1. ASSUME NEW name \in Names, NEW d \in BOOLEAN, KeyMessage(name, d) PROVE TypeOK'
    BY <1>1, NamedKeys, TypePress DEF KeyMessage
  <1>2. ASSUME NEW which \in {"left", "right", "side"}, NEW d \in BOOLEAN, Button(which, d)
        PROVE  TypeOK'
    BY <1>2, ButtonKeys, TypePress DEF Button
  <1>3. ASSUME NEW s \in Texts, Text(s) PROVE TypeOK'
    BY <1>3, InjectorAssumption DEF Text, NewMessage, TypeOK, scaling
  <1>4. ASSUME NEW m \in Moves, Move(m) PROVE TypeOK'
    BY <1>4, TypeMove
  <1>5. ASSUME NEW m \in Moves, Wheel(m) PROVE TypeOK'
    BY <1>5, TypeMove
  <1>6. ASSUME NEW vp \in Viewports, NewViewport(vp) PROVE TypeOK'
    <2>1. pointer_scale' \in 4..60
      BY <1>6, Scales DEF NewViewport
    <2>2. messages' \in Nat
      BY <1>6 DEF NewViewport, NewMessage, TypeOK
    <2> QED
      BY <1>6, <2>1, <2>2 DEF NewViewport, TypeOK, message
  <1>7. CASE UiScale
    BY <1>7, Scales DEF UiScale, NewMessage, TypeOK, message
  <1>8. CASE NextChar
    BY <1>8, TypeNextChar
  <1>9. CASE Emit
    BY <1>9 DEF Emit, TypeOK, scaling
  <1>10. CASE EmitFails
    BY <1>10 DEF EmitFails, TypeOK, scaling
  <1>11. ASSUME NEW k \in Key, KeyGoesDown(k) \/ KeyGoesUp(k) PROVE TypeOK'
    BY <1>11, TypeTaken
  <1>12. CASE AxisMoves
    BY <1>12, TypeAxis
  <1>13. CASE UNCHANGED vars
    BY <1>13 DEF vars, message, scaling, TypeOK
  <1> QED
    BY <1>1, <1>2, <1>3, <1>4, <1>5, <1>6, <1>7, <1>8, <1>9, <1>10, <1>11, <1>12, <1>13 DEF Next

\* Every variable keeps to its type: the scale of the pointer stays within its
\* clamp, and the kernel is handed events of the devices' keys and axes only.
THEOREM Types == Spec => []TypeOK
  <1> QED
    BY TypeInit, TypeStep, PTL DEF Spec

-----------------------------------------------------------------------------
(* Keys.                                                                   *)

LEMMA Apart ==
  \A k, l : /\ Press(k) # Release(l)
            /\ Press(k) = Press(l) => k = l
            /\ Release(k) = Release(l) => k = l
            /\ Press(k)[1] = k /\ Release(k)[1] = k
  BY DEF Press, Release

\* A character releases behind each press the key that it pressed.
LEMMA TapReleases ==
  ASSUME NEW k \in Letter, NEW shift \in BOOLEAN, NEW i \in DOMAIN Tap(k, shift),
         NEW l \in Key, Tap(k, shift)[i] = Press(l)
  PROVE  ReleasedIn(Tap(k, shift), i, l)
  <1>1. CASE shift = FALSE
    <2> DEFINE s == Tap(k, FALSE)
    <2>1. /\ s \in Seq(Event) /\ Len(s) = 2
          /\ s[1] = Press(k) /\ s[2] = Release(k)
      BY TapEvents
    <2>2. Tap(k, shift) = s
      BY <1>1, Zenon
    <2> HIDE DEF s
    <2>3. DOMAIN s = 1..2 /\ i \in 1..2 /\ s[i] = Press(l)
      BY <2>1, <2>2
    <2>4. i = 1 /\ l = k
      BY <2>1, <2>3, Apart
    <2>5. ReleasedIn(s, i, l)
      BY <2>1, <2>3, <2>4 DEF ReleasedIn
    <2> QED
      BY <2>2, <2>5
  <1>2. CASE shift = TRUE
    <2> DEFINE s == Tap(k, TRUE)
    <2>1. /\ s \in Seq(Event) /\ Len(s) = 4
          /\ s[1] = Press(Shift) /\ s[2] = Press(k) /\ s[3] = Release(k) /\ s[4] = Release(Shift)
      BY ShiftedTapEvents
    <2>2. Tap(k, shift) = s
      BY <1>2, Zenon
    <2> HIDE DEF s
    <2>3. DOMAIN s = 1..4 /\ i \in 1..4 /\ s[i] = Press(l)
      BY <2>1, <2>2
    <2>4. (i = 1 /\ l = Shift) \/ (i = 2 /\ l = k)
      BY <2>1, <2>3, Apart
    <2>5. ReleasedIn(s, i, l)
      BY <2>1, <2>3, <2>4 DEF ReleasedIn
    <2> QED
      BY <2>2, <2>5
  <1> QED
    BY <1>1, <1>2

LEMMA CharReleases ==
  ASSUME NEW ch \in Char, NEW e \in DOMAIN TypeChar(ch), NEW i \in DOMAIN TypeChar(ch)[e],
         NEW l \in Key, TypeChar(ch)[e][i] = Press(l)
  PROVE  ReleasedAfter(TypeChar(ch), e, i, l)
  <1>1. CASE ch \notin DOMAIN Hex
    <2>1. PICK k \in Letter : \E shift \in BOOLEAN : TypeChar(ch) = << Tap(k, shift) >>
      BY <1>1, SingleEmit, Zenon
    <2>2. PICK shift \in BOOLEAN : TypeChar(ch) = << Tap(k, shift) >>
      BY <2>1
    <2>3. e = 1 /\ TypeChar(ch)[e] = Tap(k, shift)
      BY <2>2
    <2>4. ReleasedIn(Tap(k, shift), i, l)
      BY <2>3, TapReleases
    <2> QED
      BY <2>3, <2>4 DEF ReleasedAfter
  <1>2. CASE ch \in DOMAIN Hex
    <2> DEFINE t == TypeChar(ch)
    <2>1. PICK k, m \in Letter :
           /\ t \in Seq(Seq(Event)) /\ Len(t) = 6
           /\ t[1] = <<Press(Ctrl), Press(Shift)>>
           /\ t[2] = Tap("KEY_U", FALSE)
           /\ t[3] = <<Release(Ctrl), Release(Shift)>>
           /\ t[4] = Tap(k, FALSE)
           /\ t[5] = Tap(m, FALSE)
           /\ t[6] = Tap("KEY_ENTER", FALSE)
      BY <1>2, UnicodeEmits
    <2> HIDE DEF t
    <2>2. e \in 1..6 /\ t[e][i] = Press(l) /\ i \in DOMAIN t[e]
      BY <2>1 DEF t
    <2>3. CASE e = 1
      <3>1. l = Ctrl \/ l = Shift
        BY <2>1, <2>2, <2>3, Apart
      <3>2. ReleasedIn(t[3], 0, l)
        BY <2>1, <3>1, SMTT(20) DEF ReleasedIn
      <3>3. 3 \in DOMAIN t /\ 3 > e
        BY <2>1, <2>3
      <3> QED
        BY <3>2, <3>3 DEF ReleasedAfter, t
    <2>4. CASE e = 3
      BY <2>1, <2>2, <2>4, Apart
    <2>5. CASE e \in {2, 4, 5, 6}
      <3>1. PICK n \in Letter : t[e] = Tap(n, FALSE)
        BY <2>1, <2>5, FixedLetters
      <3>2. ReleasedIn(t[e], i, l)
        BY <2>2, <3>1, TapReleases
      <3> QED
        BY <3>2 DEF ReleasedAfter, t
    <2> QED
      BY <2>2, <2>3, <2>4, <2>5
  <1> QED
    BY <1>1, <1>2

LEMMA KeysInit == Init => KeysInv
  BY DEF Init, KeysInv, PressesReleased, KeysAccounted, Waiting

\* Nothing waits between messages, nor between the characters of a text.
LEMMA DoneKeys ==
  ASSUME TypeOK, KeysAccounted, Done
  PROVE  down \subseteq held /\ held \ touched \subseteq down
  <1>1. \A ev : ~Waiting(ev)
    BY DEF Done, Waiting
  <1> QED
    BY <1>1 DEF KeysAccounted

LEMMA KeysPress ==
  ASSUME TypeOK, KeysAccounted, NEW k \in Key, NEW d \in BOOLEAN, PressOrRelease(k, d)
  PROVE  (PressesReleased /\ KeysAccounted)'
  <1> DEFINE ev == <<k, d>>
  <1>1. ev = (IF d THEN Press(k) ELSE Release(k))
    BY DEF Press, Release
  <1>2. todo' = << <<ev>> >> /\ queue' = <<>> /\ down' = down
    BY DEF PressOrRelease, NewMessage, Done
  <1>3. held' = (IF d THEN held \cup {k} ELSE held \ {k}) /\ touched' = touched \ {k}
    BY DEF PressOrRelease
  <1>4. down \subseteq held /\ held \ touched \subseteq down
    BY DoneKeys DEF PressOrRelease, NewMessage
  <1> HIDE DEF ev
  <1>5. \A e \in DOMAIN todo' : \A i \in DOMAIN todo'[e] : todo'[e][i] = ev
    BY <1>2
  <1>6. \A x : Waiting(x)' <=> x = ev
    BY <1>2 DEF Waiting
  <1>7. PressesReleased'
    BY <1>1, <1>2, <1>3, <1>5, Apart DEF PressesReleased
  <1>8. KeysAccounted'
    BY <1>1, <1>2, <1>3, <1>4, <1>6, Apart DEF KeysAccounted
  <1> QED
    BY <1>7, <1>8

LEMMA KeysNextChar ==
  ASSUME TypeOK, KeysAccounted, NextChar
  PROVE  (PressesReleased /\ KeysAccounted)'
  <1>1. PICK ch \in Char : typing' = ch
    BY DEF NextChar, TypeOK
  <1>2. todo' = TypeChar(ch) /\ queue' = <<>> /\ down' = down /\ held' = held
    BY <1>1 DEF NextChar, Done
  <1>3. touched' = touched \cup (held \cap KeysIn(todo'))
    BY DEF NextChar
  <1>4. down \subseteq held /\ held \ touched \subseteq down
    BY DoneKeys DEF NextChar
  <1>5. PressesReleased'
    BY <1>2, CharReleases DEF PressesReleased
  <1>6. ASSUME NEW k \in Key, Waiting(Release(k))'
        PROVE  k \in KeysIn(todo')
    <2>1. PICK e \in DOMAIN todo' : \E i \in DOMAIN todo'[e] : todo'[e][i] = Release(k)
      BY <1>2, <1>6 DEF Waiting
    <2>2. todo' \in Seq(Seq(Event))
      BY <1>2, CharTypes
    <2>3. todo'[e] \in ToSet(todo') /\ Release(k) \in ToSet(todo'[e])
      BY <2>1, <2>2 DEF ToSet
    <2> QED
      BY <2>3, Apart DEF KeysIn
  <1>7. KeysAccounted'
    <2>1. held \subseteq Key
      BY DEF TypeOK
    <2> QED
      BY <1>2, <1>3, <1>4, <1>6, <2>1 DEF KeysAccounted
  <1> QED
    BY <1>5, <1>7
LEMMA KeysMove ==
  ASSUME TypeOK, KeysAccounted, NEW m \in Moves, Move(m) \/ Wheel(m)
  PROVE  (PressesReleased /\ KeysAccounted)'
  <1>1. m \in Int \X Int /\ pointer_scale \in Int
    BY InjectorAssumption DEF TypeOK
  <1>2. todo' = MoveEmits(m, pointer_scale) \/ todo' = WheelEmits(m)
    BY DEF Move, Wheel
  <1>3. todo' \in Seq(Seq(AxisEvent))
    BY <1>1, <1>2, MoveTypes, WheelTypes
  <1>4. \A e \in DOMAIN todo' : \A i \in DOMAIN todo'[e] : todo'[e][i][1] \notin Key
    BY <1>3, AxisEmitEvents
  <1>5. /\ Done /\ queue' = <<>>
        /\ down' = down /\ held' = held /\ touched' = touched
    BY DEF Move, Wheel, NewMessage, Done
  <1>6. \A k \in Key : ~Waiting(Release(k))'
    BY <1>4, <1>5, Apart DEF Waiting
  <1>7. PressesReleased'
    BY <1>4, <1>5, Apart DEF PressesReleased
  <1>8. KeysAccounted'
    BY <1>5, <1>6, DoneKeys DEF KeysAccounted, TypeOK
  <1> QED
    BY <1>7, <1>8

LEMMA KeysEmit ==
  ASSUME TypeOK, PressesReleased, KeysAccounted, Emit
  PROVE  (PressesReleased /\ KeysAccounted)'
  <1>1. /\ queue = <<>> /\ todo # <<>> /\ queue' = Head(todo) /\ todo' = Tail(todo)
        /\ down' = down /\ held' = held /\ touched' = touched
    BY DEF Emit
  <1>2. todo \in Seq(Seq(Event))
    BY DEF TypeOK
  <1>3. /\ 1 \in DOMAIN todo /\ queue' = todo[1]
        /\ \A f \in DOMAIN todo' : f \in Nat /\ f + 1 \in DOMAIN todo /\ todo'[f] = todo[f + 1]
        /\ \A e \in DOMAIN todo : e \in Nat
             /\ (e > 1 => e - 1 \in DOMAIN todo' /\ todo'[e - 1] = todo[e])
             /\ (~(e > 1) => e = 1)
    BY <1>1, <1>2
  <1>4. ASSUME NEW ev PROVE Waiting(ev)' <=> Waiting(ev)
    <2>1. ASSUME NEW e \in DOMAIN todo, NEW i \in DOMAIN todo[e], todo[e][i] = ev
          PROVE  Waiting(ev)'
      <3>1. CASE e > 1
        BY <1>3, <2>1, <3>1 DEF Waiting
      <3>2. CASE ~(e > 1)
        BY <1>3, <2>1, <3>2 DEF Waiting
      <3> QED
        BY <3>1, <3>2
    <2>2. Waiting(ev)' => Waiting(ev)
      BY <1>3 DEF Waiting
    <2>3. Waiting(ev) => Waiting(ev)'
      BY <1>1, <2>1 DEF Waiting
    <2> QED
      BY <2>2, <2>3
  <1>5. KeysAccounted'
    BY <1>1, <1>4 DEF KeysAccounted
  <1>6. ASSUME NEW e \in DOMAIN todo, NEW g \in Nat, NEW i, NEW k,
               e = g + 1, ReleasedAfter(todo, e, i, k)
        PROVE  ReleasedIn(todo[e], i, k) \/ \E f \in DOMAIN todo' : f > g /\ ReleasedIn(todo'[f], 0, k)
    <2>1. CASE ReleasedIn(todo[e], i, k)
      BY <2>1
    <2>2. ASSUME NEW f \in DOMAIN todo, f > e, ReleasedIn(todo[f], 0, k)
          PROVE  \E h \in DOMAIN todo' : h > g /\ ReleasedIn(todo'[h], 0, k)
      <3>1. f - 1 \in DOMAIN todo' /\ todo'[f - 1] = todo[f] /\ f - 1 > g
        BY <1>2, <1>3, <1>6, <2>2
      <3> QED
        BY <2>2, <3>1
    <2> QED
      BY <1>6, <2>1, <2>2 DEF ReleasedAfter
  <1>7. ASSUME NEW i \in DOMAIN queue', NEW k \in Key, queue'[i] = Press(k)
        PROVE  k \in held' \/ ReleasedIn(queue', i, k)
                 \/ \E f \in DOMAIN todo' : ReleasedIn(todo'[f], 0, k)
    <2>1. todo[1][i] = Press(k) /\ i \in DOMAIN todo[1]
      BY <1>3, <1>7
    <2>2. k \in held \/ ReleasedAfter(todo, 1, i, k)
      BY <1>3, <2>1 DEF PressesReleased
    <2> QED
      BY <1>1, <1>3, <1>6, <2>2
  <1>8. ASSUME NEW e \in DOMAIN todo', NEW i \in DOMAIN todo'[e], NEW k \in Key,
               todo'[e][i] = Press(k)
        PROVE  k \in held' \/ ReleasedAfter(todo', e, i, k)
    <2>1. e + 1 \in DOMAIN todo /\ todo'[e] = todo[e + 1] /\ e \in Nat
      BY <1>3
    <2>2. k \in held \/ ReleasedAfter(todo, e + 1, i, k)
      BY <1>8, <2>1 DEF PressesReleased
    <2>3. ReleasedAfter(todo, e + 1, i, k) => ReleasedAfter(todo', e, i, k)
      BY <1>6, <2>1 DEF ReleasedAfter
    <2> QED
      BY <1>1, <2>2, <2>3
  <1>9. PressesReleased'
    BY <1>7, <1>8 DEF PressesReleased
  <1> QED
    BY <1>5, <1>9

\* What waits after the kernel took an event is what waited, but for the event.
LEMMA TakenWaits ==
  ASSUME TypeOK, NEW ev, Taken(ev)
  PROVE  /\ \A x : Waiting(x)' => Waiting(x)
         /\ \A x : Waiting(x) => Waiting(x)' \/ x = ev
         /\ Waiting(ev)
         /\ 1 \in DOMAIN queue /\ queue[1] = ev
         /\ \A i \in DOMAIN queue' : i \in Nat /\ i + 1 \in DOMAIN queue /\ queue'[i] = queue[i + 1]
         /\ \A i \in DOMAIN queue : i \in Nat
              /\ (i > 1 => i - 1 \in DOMAIN queue' /\ queue'[i - 1] = queue[i])
              /\ (~(i > 1) => i = 1)
  <1>1. queue \in Seq(Event) /\ queue # <<>> /\ Head(queue) = ev /\ queue' = Tail(queue) /\ todo' = todo
    BY DEF Taken, TypeOK
  <1>2. /\ 1 \in DOMAIN queue /\ queue[1] = ev
        /\ \A i \in DOMAIN queue' : i \in Nat /\ i + 1 \in DOMAIN queue /\ queue'[i] = queue[i + 1]
        /\ \A i \in DOMAIN queue : i \in Nat
              /\ (i > 1 => i - 1 \in DOMAIN queue' /\ queue'[i - 1] = queue[i])
              /\ (~(i > 1) => i = 1)
    BY <1>1
  <1>3. \A x : Waiting(x)' => Waiting(x)
    BY <1>1, <1>2 DEF Waiting
  <1>4. ASSUME NEW x, NEW i \in DOMAIN queue, queue[i] = x, x # ev
        PROVE  Waiting(x)'
    <2>1. i - 1 \in DOMAIN queue' /\ queue'[i - 1] = queue[i]
      BY <1>2, <1>4
    <2> QED
      BY <1>4, <2>1 DEF Waiting
  <1>5. \A x : Waiting(x) => Waiting(x)' \/ x = ev
    BY <1>1, <1>4 DEF Waiting
  <1>6. Waiting(ev)
    BY <1>2 DEF Waiting
  <1> QED
    BY <1>2, <1>3, <1>5, <1>6

LEMMA TakenReleased ==
  ASSUME TypeOK, PressesReleased, NEW ev, Taken(ev)
  PROVE  PressesReleased'
  <1>1. todo' = todo /\ held' = held
    BY DEF Taken
  <1>2. /\ \A i \in DOMAIN queue' : i \in Nat /\ i + 1 \in DOMAIN queue /\ queue'[i] = queue[i + 1]
        /\ \A i \in DOMAIN queue : i \in Nat
              /\ (i > 1 => i - 1 \in DOMAIN queue' /\ queue'[i - 1] = queue[i])
    BY TakenWaits
  <1>3. ASSUME NEW i \in DOMAIN queue', NEW k \in Key, queue'[i] = Press(k)
        PROVE  k \in held' \/ ReleasedIn(queue', i, k)
                 \/ \E f \in DOMAIN todo' : ReleasedIn(todo'[f], 0, k)
    <2>1. i + 1 \in DOMAIN queue /\ queue[i + 1] = Press(k) /\ i \in Nat
      BY <1>2, <1>3
    <2>2. \/ k \in held
          \/ ReleasedIn(queue, i + 1, k)
          \/ \E f \in DOMAIN todo : ReleasedIn(todo[f], 0, k)
      BY <2>1 DEF PressesReleased
    <2>3. ASSUME ReleasedIn(queue, i + 1, k) PROVE ReleasedIn(queue', i, k)
      <3>1. PICK j \in DOMAIN queue : j > i + 1 /\ queue[j] = Release(k)
        BY <2>3 DEF ReleasedIn
      <3>2. j - 1 \in DOMAIN queue' /\ queue'[j - 1] = Release(k) /\ j - 1 > i
        BY <1>2, <2>1, <3>1
      <3> QED
        BY <3>2 DEF ReleasedIn
    <2> QED
      BY <1>1, <2>2, <2>3
  <1> QED
    BY <1>1, <1>3 DEF PressesReleased

LEMMA KeysDown ==
  ASSUME TypeOK, PressesReleased, KeysAccounted, NEW k \in Key, KeyGoesDown(k)
  PROVE  (PressesReleased /\ KeysAccounted)'
  <1>1. Taken(Press(k)) /\ down' = down \cup {k} /\ held' = held /\ touched' = touched /\ todo' = todo
    BY DEF KeyGoesDown, Taken
  <1>2. /\ \A x : Waiting(x)' => Waiting(x)
        /\ \A x : Waiting(x) => Waiting(x)' \/ x = Press(k)
        /\ 1 \in DOMAIN queue /\ queue[1] = Press(k)
    BY <1>1, TakenWaits
  <1>3. k \in held \/ Waiting(Release(k))
    <2>1. \/ k \in held
          \/ ReleasedIn(queue, 1, k)
          \/ \E f \in DOMAIN todo : ReleasedIn(todo[f], 0, k)
      BY <1>2 DEF PressesReleased
    <2> QED
      BY <2>1 DEF ReleasedIn, Waiting
  <1>4. KeysAccounted'
    BY <1>1, <1>2, <1>3, Apart DEF KeysAccounted
  <1> QED
    BY <1>1, <1>4, TakenReleased

LEMMA KeysUp ==
  ASSUME TypeOK, PressesReleased, KeysAccounted, NEW k \in Key, KeyGoesUp(k)
  PROVE  (PressesReleased /\ KeysAccounted)'
  <1>1. Taken(Release(k)) /\ down' = down \ {k} /\ held' = held /\ touched' = touched
    BY DEF KeyGoesUp, Taken
  <1>2. /\ \A x : Waiting(x)' => Waiting(x)
        /\ \A x : Waiting(x) => Waiting(x)' \/ x = Release(k)
        /\ Waiting(Release(k))
    BY <1>1, TakenWaits
  <1>3. k \notin held \ touched
    BY <1>2 DEF KeysAccounted
  <1>4. KeysAccounted'
    BY <1>1, <1>2, <1>3, Apart DEF KeysAccounted
  <1> QED
    BY <1>1, <1>4, TakenReleased

LEMMA KeysAxis ==
  ASSUME TypeOK, PressesReleased, KeysAccounted, AxisMoves
  PROVE  (PressesReleased /\ KeysAccounted)'
  <1> DEFINE ev == Head(queue)
  <1>1. Taken(ev) /\ ev[1] \in Axis /\ down' = down /\ held' = held /\ touched' = touched
    BY DEF AxisMoves, Taken
  <1>2. /\ \A x : Waiting(x)' => Waiting(x)
        /\ \A x : Waiting(x) => Waiting(x)' \/ x = ev
    BY <1>1, TakenWaits
  <1>3. \A k \in Key : ev # Press(k) /\ ev # Release(k)
    BY <1>1, AxesNoKeys, Apart
  <1> HIDE DEF ev
  <1>4. KeysAccounted'
    <2>1. down \subseteq Key /\ held \subseteq Key
      BY DEF TypeOK
    <2> QED
      BY <1>1, <1>2, <1>3, <2>1 DEF KeysAccounted
  <1> QED
    BY <1>1, <1>4, TakenReleased

\* Actions that change nothing of what KeysInv is about.
LEMMA KeysElse ==
  ASSUME PressesReleased, KeysAccounted, UNCHANGED <<down, todo, queue, held, touched>>
  PROVE  (PressesReleased /\ KeysAccounted)'
  BY DEF PressesReleased, KeysAccounted, ReleasedIn, ReleasedAfter, Waiting

LEMMA KeysStep == TypeOK /\ KeysInv /\ [Next]_vars => KeysInv'
  <1> SUFFICES ASSUME TypeOK, KeysInv, [Next]_vars, ~failed' PROVE (PressesReleased /\ KeysAccounted)'
    BY DEF KeysInv
  <1>1. CASE EmitFails
    BY <1>1 DEF EmitFails
  <1> SUFFICES ASSUME ~EmitFails PROVE (PressesReleased /\ KeysAccounted)'
    BY <1>1
  <1>2. PressesReleased /\ KeysAccounted
    <2>1. failed' = failed
      BY DEF Next, vars, scaling, KeyMessage, Button, PressOrRelease, Text, Move, Wheel, NewViewport,
             UiScale, NextChar, Emit, KeyGoesDown, KeyGoesUp, AxisMoves, Taken
    <2> QED
      BY <2>1 DEF KeysInv
  <1>3. ASSUME NEW name \in Names, NEW d \in BOOLEAN, KeyMessage(name, d)
        PROVE  (PressesReleased /\ KeysAccounted)'
    BY <1>2, <1>3, NamedKeys, KeysPress DEF KeyMessage
  <1>4. ASSUME NEW which \in {"left", "right", "side"}, NEW d \in BOOLEAN, Button(which, d)
        PROVE  (PressesReleased /\ KeysAccounted)'
    BY <1>2, <1>4, ButtonKeys, KeysPress DEF Button
  <1>5. ASSUME NEW s \in Texts, Text(s) PROVE (PressesReleased /\ KeysAccounted)'
    BY <1>2, <1>5, KeysElse DEF Text
  <1>6. ASSUME NEW m \in Moves, Move(m) PROVE (PressesReleased /\ KeysAccounted)'
    BY <1>2, <1>6, KeysMove
  <1>7. ASSUME NEW m \in Moves, Wheel(m) PROVE (PressesReleased /\ KeysAccounted)'
    BY <1>2, <1>7, KeysMove
  <1>8. ASSUME NEW vp \in Viewports, NewViewport(vp) PROVE (PressesReleased /\ KeysAccounted)'
    BY <1>2, <1>8, KeysElse DEF NewViewport, message
  <1>9. CASE UiScale
    BY <1>2, <1>9, KeysElse DEF UiScale, message
  <1>10. CASE NextChar
    BY <1>2, <1>10, KeysNextChar
  <1>11. CASE Emit
    BY <1>2, <1>11, KeysEmit
  <1>12. ASSUME NEW k \in Key, KeyGoesDown(k) \/ KeyGoesUp(k)
         PROVE  (PressesReleased /\ KeysAccounted)'
    BY <1>2, <1>12, KeysDown, KeysUp
  <1>13. CASE AxisMoves
    BY <1>2, <1>13, KeysAxis
  <1>14. CASE UNCHANGED vars
    BY <1>2, <1>14, KeysElse DEF vars, message
  <1> QED
    BY <1>3, <1>4, <1>5, <1>6, <1>7, <1>8, <1>9, <1>10, <1>11, <1>12, <1>13, <1>14 DEF Next

\* Between messages the devices hold what the client holds, whatever texts it
\* sent, unless an emit failed or a text went over the key (type_char, tap, key).
THEOREM KeysSettled == Spec => []KeysSettle
  <1>1. TypeOK /\ KeysInv => KeysSettle
    BY DoneKeys DEF KeysSettle, Idle, KeysInv
  <1> QED
    BY <1>1, TypeInit, TypeStep, KeysInit, KeysStep, PTL DEF Spec

-----------------------------------------------------------------------------
(* Motions.                                                                *)

LEMMA ScaleInit == Init => ScaleInv
  BY DEF Init, ScaleInv

LEMMA ScaleStep == TypeOK /\ ScaleInv /\ [Next]_vars => ScaleInv'
  <1> SUFFICES ASSUME ScaleInv, [Next]_vars PROVE ScaleInv'
    OBVIOUS
  <1>1. ASSUME NEW vp \in Viewports, NewViewport(vp) PROVE ScaleInv'
    BY <1>1 DEF NewViewport, ScaleInv
  <1>2. CASE UiScale
    BY <1>2 DEF UiScale, ScaleInv
  <1>3. CASE UNCHANGED scaling
    BY <1>3 DEF scaling, ScaleInv
  <1> QED
    BY <1>1, <1>2, <1>3 DEF Next, vars, KeyMessage, Button, PressOrRelease, Text, Move, Wheel,
         NextChar, Emit, EmitFails, KeyGoesDown, KeyGoesUp, AxisMoves, Taken

LEMMA MotionInit == Init => MotionInv
  BY DEF Init, MotionInv, MotionPlace, MotionEvents

\* A motion that is clean is emitted as it is meant.
LEMMA CleanEmits ==
  ASSUME TypeOK, ScaleInv, NEW m \in Moves, Move(m) \/ Wheel(m), clean'
  PROVE  Emitted(todo', meant')
  <1>1. m \in Int \X Int /\ pointer_scale \in Int
    BY InjectorAssumption DEF TypeOK
  <1>2. CASE Move(m)
    <2>1. ~behind /\ \A i \in 1..2 : Fits(Rounded(m[i] * pointer_scale))
      <3> DEFINE fit == \A i \in 1..2 : Fits(Rounded(m[i] * pointer_scale))
      <3>1. clean' = (~behind /\ fit)
        BY <1>2 DEF Move
      <3> HIDE DEF fit
      <3>2. ~behind /\ fit
        BY <3>1
      <3> QED
        BY <3>2 DEF fit
    <2>2. PointerScale(current) = pointer_scale
      BY <2>1 DEF ScaleInv
    <2>3. Emitted(MoveEmits(m, pointer_scale), MeantMove(m, pointer_scale))
      BY <1>1, <2>1, MoveAsMeant
    <2> QED
      BY <1>2, <2>2, <2>3 DEF Move
  <1>3. CASE Wheel(m)
    <2>1. \A i \in 1..2 : Fits(120 * m[i])
      BY <1>3, Zenon DEF Wheel
    <2>2. Emitted(WheelEmits(m), MeantWheel(m))
      BY <1>1, <2>1, WheelAsMeant
    <2> QED
      BY <1>3, <2>2 DEF Wheel
  <1> QED
    BY <1>2, <1>3

LEMMA MotionMove ==
  ASSUME TypeOK, ScaleInv, NEW m \in Moves, Move(m) \/ Wheel(m), clean'
  PROVE  MotionPlace'
  <1>1. Emitted(todo', meant')
    BY CleanEmits
  <1>2. queue' = <<>> /\ log' = <<>>
    BY DEF Move, Wheel, NewMessage, Done
  <1>3. CASE todo' = <<>> /\ meant' = <<>>
    BY <1>2, <1>3 DEF MotionPlace, MotionEvents
  <1>4. CASE Len(todo') = 1 /\ Same(todo'[1], meant') /\ todo' \in Seq(Seq(Event)) /\ meant' \in Seq(Seen)
    <2>1. MotionEvents' = todo'[1] /\ todo' # <<>>
      <3>1. Len(todo') = 1 /\ Len(<<>>) = 0
        BY <1>4
      <3>2. todo' # <<>>
        <4>1. 0 # 1
          OBVIOUS
        <4> QED
          BY <3>1, <4>1, Zenon
      <3> QED
        BY <3>2 DEF MotionEvents
    <2>2. /\ todo'[1] \in Seq(AxisEvent) /\ Len(meant') = Len(todo'[1])
          /\ \A i \in 1..Len(todo'[1]) : meant'[i] = MotionOf(todo'[1][i])
      BY <1>4 DEF Same
    <2>3. \A i \in DOMAIN todo'[1] : todo'[1][i] \in AxisEvent /\ i \in 1..Len(todo'[1])
      BY <2>2
    <2>4. \A i \in DOMAIN todo'[1] : todo'[1][i][1] \in Axis
      BY <2>3 DEF AxisEvent
    <2>5. Len(log') = 0 /\ Len(todo'[1]) \in Nat /\ \A i \in DOMAIN todo'[1] : 0 + i = i
      BY <1>2, <2>2
    <2> QED
      BY <1>2, <1>4, <2>1, <2>2, <2>3, <2>4, <2>5 DEF MotionPlace
  <1> QED
    BY <1>1, <1>3, <1>4 DEF Emitted

LEMMA MotionEmit ==
  ASSUME TypeOK, MotionPlace, Emit
  PROVE  MotionPlace'
  <1>1. /\ todo # <<>> /\ queue' = Head(todo) /\ todo' = Tail(todo)
        /\ log' = log /\ meant' = meant
    BY DEF Emit
  <1>2. todo \in Seq(Seq(Event)) /\ Len(todo) <= 1
    BY DEF TypeOK, MotionPlace
  <1>3. todo' = <<>> /\ queue' = todo[1]
    BY <1>1, <1>2
  <1>4. MotionEvents' = MotionEvents
    BY <1>1, <1>3 DEF MotionEvents
  <1> QED
    BY <1>1, <1>3, <1>4 DEF MotionPlace

LEMMA MotionAxis ==
  ASSUME TypeOK, MotionPlace, AxisMoves
  PROVE  MotionPlace'
  <1> DEFINE seen == MotionOf(Head(queue))
  <1>1. /\ queue # <<>> /\ queue' = Tail(queue) /\ todo' = todo /\ meant' = meant
        /\ log' = Append(log, seen)
    BY DEF AxisMoves, Taken, MotionOf
  <1>2. todo = <<>> /\ MotionEvents = queue /\ MotionEvents' = queue'
    BY <1>1 DEF MotionPlace, MotionEvents
  <1>3. queue \in Seq(Event) /\ log \in Seq(Seen) /\ meant \in Seq(Seen)
    BY DEF TypeOK
  <1>4. meant[Len(log) + 1] = seen
    <2>1. 1 \in DOMAIN queue /\ Head(queue) = queue[1]
      BY <1>1, <1>3
    <2>2. meant[Len(log) + 1] = MotionOf(queue[1])
      BY <1>2, <2>1 DEF MotionPlace
    <2> QED
      BY <2>1, <2>2
  <1> HIDE DEF seen
  <1>5. /\ Len(log') = Len(log) + 1 /\ Len(queue) = Len(queue') + 1
        /\ \A i \in DOMAIN log' : IF i \in DOMAIN log THEN log'[i] = log[i]
                                  ELSE i = Len(log) + 1 /\ log'[i] = seen
        /\ \A i \in DOMAIN queue' : i \in Nat /\ i + 1 \in DOMAIN queue /\ queue'[i] = queue[i + 1]
    BY <1>1, <1>3
  <1>6. Len(meant) = Len(log') + Len(queue')
    BY <1>2, <1>3, <1>5 DEF MotionPlace
  <1>7. ASSUME NEW i \in DOMAIN log'
        PROVE  log'[i] = meant'[i]
    <2>1. CASE i \in DOMAIN log
      <3>1. log'[i] = log[i] /\ log[i] = meant[i]
        BY <1>5, <2>1 DEF MotionPlace
      <3> QED
        BY <1>1, <3>1
    <2>2. CASE i \notin DOMAIN log
      BY <1>1, <1>4, <1>5, <2>2
    <2> QED
      BY <2>1, <2>2
  <1>8. ASSUME NEW i \in DOMAIN queue'
        PROVE  queue'[i][1] \in Axis /\ meant'[Len(log') + i] = MotionOf(queue'[i])
    <2>1. i \in Nat /\ i + 1 \in DOMAIN queue /\ queue'[i] = queue[i + 1]
      BY <1>5
    <2>2. queue[i + 1][1] \in Axis /\ meant[Len(log) + (i + 1)] = MotionOf(queue[i + 1])
      BY <1>2, <2>1 DEF MotionPlace
    <2>3. Len(log) + (i + 1) = Len(log') + i
      BY <1>3, <1>5, <2>1
    <2> QED
      BY <1>1, <2>1, <2>2, <2>3
  <1> QED
    BY <1>1, <1>2, <1>6, <1>7, <1>8 DEF MotionPlace

LEMMA MotionElse ==
  ASSUME MotionPlace, UNCHANGED <<todo, queue, log, meant>>
  PROVE  MotionPlace'
  BY DEF MotionPlace, MotionEvents

LEMMA MotionStep == TypeOK /\ ScaleInv /\ MotionInv /\ [Next]_vars => MotionInv'
  <1> SUFFICES ASSUME TypeOK, ScaleInv, MotionInv, [Next]_vars,
                      typing' = Unknown, ~failed', clean'
               PROVE  MotionPlace'
    BY DEF MotionInv
  <1>1. \A k \in Key, d \in BOOLEAN : ~PressOrRelease(k, d)
    BY DEF PressOrRelease
  <1>2. ASSUME NEW name \in Names, NEW d \in BOOLEAN, KeyMessage(name, d) PROVE FALSE
    BY <1>1, <1>2, NamedKeys DEF KeyMessage
  <1>3. ASSUME NEW which \in {"left", "right", "side"}, NEW d \in BOOLEAN, Button(which, d) PROVE FALSE
    BY <1>1, <1>3, ButtonKeys DEF Button
  <1>4. ASSUME NEW s \in Texts, Text(s) PROVE MotionPlace'
    <2>1. todo' = <<>> /\ queue' = <<>> /\ log' = <<>> /\ meant' = <<>>
      BY <1>4 DEF Text, NewMessage, Done
    <2> QED
      BY <2>1 DEF MotionPlace, MotionEvents
  <1>5. ASSUME NEW m \in Moves, Move(m) \/ Wheel(m) PROVE MotionPlace'
    BY <1>5, MotionMove
  <1>6. ~NextChar
    <2>1. NextChar => typing' \in Char
      BY DEF NextChar, TypeOK
    <2> QED
      BY <2>1, InjectorAssumption
  <1>7. ~EmitFails
    BY DEF EmitFails
  <1> DEFINE Same3 == /\ typing' = typing /\ failed' = failed /\ clean' = clean
  <1>8. Same3 => MotionPlace
    BY DEF MotionInv
  <1>9. ASSUME NEW vp \in Viewports, NewViewport(vp) PROVE MotionPlace'
    BY <1>8, <1>9, MotionElse DEF NewViewport, message
  <1>10. CASE UiScale
    BY <1>8, <1>10, MotionElse DEF UiScale, message
  <1>11. CASE Emit
    BY <1>8, <1>11, MotionEmit DEF Emit
  <1>12. ASSUME NEW k \in Key, KeyGoesDown(k) \/ KeyGoesUp(k) PROVE FALSE
    <2>1. queue # <<>> /\ Head(queue)[1] = k /\ Same3
      BY <1>12, Apart DEF KeyGoesDown, KeyGoesUp, Taken
    <2>2. MotionEvents = queue /\ MotionPlace
      BY <1>8, <2>1 DEF MotionPlace, MotionEvents
    <2>3. Head(queue)[1] \in Axis
      <3>1. queue \in Seq(Event)
        BY DEF TypeOK
      <3>2. 1 \in DOMAIN queue /\ Head(queue) = queue[1]
        BY <2>1, <3>1
      <3> QED
        BY <2>2, <3>2 DEF MotionPlace
    <2> QED
      BY <2>1, <2>3, AxesNoKeys
  <1>13. CASE AxisMoves
    BY <1>8, <1>13, MotionAxis DEF AxisMoves, Taken
  <1>14. CASE UNCHANGED vars
    BY <1>8, <1>14, MotionElse DEF vars, message
  <1> QED
    BY <1>2, <1>3, <1>4, <1>5, <1>6, <1>7, <1>9, <1>10, <1>11, <1>12, <1>13, <1>14 DEF Next

-----------------------------------------------------------------------------
(* Texts.                                                                  *)

LEMMA TailEnds ==
  ASSUME NEW S, NEW s \in Seq(S), NEW t \in Seq(S), s # <<>>, EndOf(s, t)
  PROVE  /\ EndOf(Tail(s), t) /\ Len(Tail(s)) = Len(s) - 1
         /\ Len(t) - Len(s) + 1 \in DOMAIN t /\ s[1] = t[Len(t) - Len(s) + 1]
  <1>1. /\ Len(s) \in Nat /\ Len(s) >= 1 /\ Len(t) \in Nat /\ Len(s) <= Len(t)
        /\ DOMAIN t = 1..Len(t) /\ 1 \in DOMAIN s /\ Len(Tail(s)) = Len(s) - 1
    BY DEF EndOf
  <1>2. s[1] = t[Len(t) - Len(s) + 1]
    BY <1>1 DEF EndOf
  <1>3. ASSUME NEW i \in DOMAIN Tail(s)
        PROVE  Tail(s)[i] = t[Len(t) - Len(Tail(s)) + i]
    <2>1. i \in Nat /\ i + 1 \in DOMAIN s /\ Tail(s)[i] = s[i + 1]
      OBVIOUS
    <2>2. s[i + 1] = t[Len(t) - Len(s) + (i + 1)]
      BY <2>1 DEF EndOf
    <2>3. Len(t) - Len(s) + (i + 1) = Len(t) - Len(Tail(s)) + i
      BY <1>1, <2>1
    <2> QED
      BY <2>1, <2>2, <2>3
  <1> QED
    BY <1>1, <1>2, <1>3 DEF EndOf

\* What can be left of the emits of a character.
TapLeft(k) ==
  \/ Len(queue) = 2 /\ queue[1] = Press(k) /\ queue[2] = Release(k)
  \/ Len(queue) = 1 /\ queue[1] = Release(k)
ShiftedTapLeft(k) ==
  \/ /\ Len(queue) = 4 /\ queue[1] = Press(Shift) /\ queue[2] = Press(k)
     /\ queue[3] = Release(k) /\ queue[4] = Release(Shift)
  \/ /\ Len(queue) = 3 /\ queue[1] = Press(k) /\ queue[2] = Release(k) /\ queue[3] = Release(Shift)
  \/ /\ Len(queue) = 2 /\ queue[1] = Release(k) /\ queue[2] = Release(Shift)
  \/ /\ Len(queue) = 1 /\ queue[1] = Release(Shift)
PressesLeft ==
  \/ Len(queue) = 2 /\ queue[1] = Press(Ctrl) /\ queue[2] = Press(Shift)
  \/ Len(queue) = 1 /\ queue[1] = Press(Shift)
ReleasesLeft ==
  \/ Len(queue) = 2 /\ queue[1] = Release(Ctrl) /\ queue[2] = Release(Shift)
  \/ Len(queue) = 1 /\ queue[1] = Release(Shift)

LEMMA EndsOfTwo ==
  ASSUME NEW s \in Seq(Event), Len(s) = 2, queue \in Seq(Event), queue # <<>>, EndOf(queue, s)
  PROVE  \/ Len(queue) = 2 /\ queue[1] = s[1] /\ queue[2] = s[2]
         \/ Len(queue) = 1 /\ queue[1] = s[2]
  <1>1. Len(queue) \in Nat /\ Len(queue) >= 1 /\ Len(queue) <= 2 /\ DOMAIN queue = 1..Len(queue)
    BY DEF EndOf
  <1>2. \A i \in 1..Len(queue) : queue[i] = s[2 - Len(queue) + i]
    BY <1>1 DEF EndOf
  <1>3. Len(queue) = 2 => queue[1] = s[1] /\ queue[2] = s[2]
    BY <1>2
  <1>4. Len(queue) = 1 => queue[1] = s[2]
    BY <1>2
  <1> QED
    BY <1>1, <1>3, <1>4

LEMMA EndsOfFour ==
  ASSUME NEW s \in Seq(Event), Len(s) = 4, queue \in Seq(Event), queue # <<>>, EndOf(queue, s)
  PROVE  \/ Len(queue) = 4 /\ queue[1] = s[1] /\ queue[2] = s[2] /\ queue[3] = s[3] /\ queue[4] = s[4]
         \/ Len(queue) = 3 /\ queue[1] = s[2] /\ queue[2] = s[3] /\ queue[3] = s[4]
         \/ Len(queue) = 2 /\ queue[1] = s[3] /\ queue[2] = s[4]
         \/ Len(queue) = 1 /\ queue[1] = s[4]
  <1>1. Len(queue) \in Nat /\ Len(queue) >= 1 /\ Len(queue) <= 4 /\ DOMAIN queue = 1..Len(queue)
    BY DEF EndOf
  <1>2. \A i \in 1..Len(queue) : queue[i] = s[4 - Len(queue) + i]
    BY <1>1 DEF EndOf
  <1>3. Len(queue) = 4 => queue[1] = s[1] /\ queue[2] = s[2] /\ queue[3] = s[3] /\ queue[4] = s[4]
    BY <1>2
  <1>4. Len(queue) = 3 => queue[1] = s[2] /\ queue[2] = s[3] /\ queue[3] = s[4]
    BY <1>2
  <1>5. Len(queue) = 2 => queue[1] = s[3] /\ queue[2] = s[4]
    BY <1>2
  <1>6. Len(queue) = 1 => queue[1] = s[4]
    BY <1>2
  <1> QED
    BY <1>1, <1>3, <1>4, <1>5, <1>6

LEMMA TapLefts ==
  ASSUME NEW k \in Letter, queue \in Seq(Event), queue # <<>>, EndOf(queue, Tap(k, FALSE))
  PROVE  TapLeft(k)
  BY TapEvents, EndsOfTwo DEF TapLeft

\* Of a character of ASCII one emit is left, and a keystroke until its press.
SingleLeft(k) ==
  \/ /\ TapLeft(k) /\ Len(Begun(typing)) = 2
     /\ MeantBy(typing) = << Stroke(k, FALSE, FALSE) >>
  \/ /\ ShiftedTapLeft(k) /\ Len(Begun(typing)) = 4
     /\ MeantBy(typing) = << Stroke(k, TRUE, FALSE) >>

LEMMA SingleQueue ==
  ASSUME TypeOK, InPlace, typing \in Char, typing \notin DOMAIN Hex, queue # <<>>
  PROVE  Len(todo) = 0 /\ \E k \in Letter : SingleLeft(k)
  <1>1. PICK k \in Letter :
          \/ /\ TypeChar(typing) = << Tap(k, FALSE) >>
             /\ MeantBy(typing) = << Stroke(k, FALSE, FALSE) >>
          \/ /\ TypeChar(typing) = << Tap(k, TRUE) >>
             /\ MeantBy(typing) = << Stroke(k, TRUE, FALSE) >>
    BY SingleEmit
  <1>2. /\ Len(todo) < Len(TypeChar(typing)) /\ EndOf(queue, Begun(typing))
        /\ queue \in Seq(Event) /\ Len(todo) \in Nat
    BY DEF InPlace, TypeOK
  <1>3. ASSUME NEW s, TypeChar(typing) = << s >>
        PROVE  Len(todo) = 0 /\ Begun(typing) = s
    <2>1. Len(TypeChar(typing)) = 1 /\ TypeChar(typing)[1] = s
      BY <1>3
    <2>2. Len(todo) = 0
      BY <1>2, <2>1
    <2> QED
      BY <2>1, <2>2 DEF Begun
  <1>4. CASE /\ TypeChar(typing) = << Tap(k, FALSE) >>
             /\ MeantBy(typing) = << Stroke(k, FALSE, FALSE) >>
    <2>1. Len(todo) = 0 /\ Begun(typing) = Tap(k, FALSE)
      BY <1>3, <1>4
    <2>2. TapLeft(k) /\ Len(Begun(typing)) = 2
      BY <1>2, <2>1, TapLefts, TapEvents
    <2>3. SingleLeft(k)
      BY <1>4, <2>2, Zenon DEF SingleLeft
    <2> QED
      BY <2>1, <2>3
  <1>5. CASE /\ TypeChar(typing) = << Tap(k, TRUE) >>
             /\ MeantBy(typing) = << Stroke(k, TRUE, FALSE) >>
    <2>1. Len(todo) = 0 /\ Begun(typing) = Tap(k, TRUE)
      BY <1>3, <1>5
    <2>2. ShiftedTapLeft(k) /\ Len(Begun(typing)) = 4
      BY <1>2, <2>1, ShiftedTapEvents, EndsOfFour, ZenonT(30) DEF ShiftedTapLeft
    <2>3. SingleLeft(k)
      BY <1>5, <2>2, Zenon DEF SingleLeft
    <2> QED
      BY <2>1, <2>3
  <1> QED
    BY <1>1, <1>4, <1>5

\* Of a character outside ASCII up to six.
UnicodeLeft(k, l) ==
  /\ Len(MeantBy(typing)) = 4
  /\ MeantBy(typing)[1] = Stroke("KEY_U", TRUE, TRUE)
  /\ MeantBy(typing)[2] = Stroke(k, FALSE, FALSE)
  /\ MeantBy(typing)[3] = Stroke(l, FALSE, FALSE)
  /\ MeantBy(typing)[4] = Stroke("KEY_ENTER", FALSE, FALSE)
  /\ \/ Len(todo) = 5 /\ PressesLeft
     \/ Len(todo) = 4 /\ TapLeft("KEY_U")
     \/ Len(todo) = 3 /\ ReleasesLeft
     \/ Len(todo) = 2 /\ TapLeft(k)
     \/ Len(todo) = 1 /\ TapLeft(l)
     \/ Len(todo) = 0 /\ TapLeft("KEY_ENTER")

LEMMA UnicodeQueue ==
  ASSUME TypeOK, InPlace, typing \in DOMAIN Hex, queue # <<>>
  PROVE  \E k, l \in Letter : UnicodeLeft(k, l)
  <1> DEFINE t == TypeChar(typing)
             m == MeantBy(typing)
             open  == <<Press(Ctrl), Press(Shift)>>
             close == <<Release(Ctrl), Release(Shift)>>
  <1>1. PICK k, l \in Letter :
           /\ t \in Seq(Seq(Event)) /\ Len(t) = 6
           /\ t[1] = open
           /\ t[2] = Tap("KEY_U", FALSE)
           /\ t[3] = close
           /\ t[4] = Tap(k, FALSE)
           /\ t[5] = Tap(l, FALSE)
           /\ t[6] = Tap("KEY_ENTER", FALSE)
           /\ m \in Seq(Seen) /\ Len(m) = 4
           /\ m[1] = Stroke("KEY_U", TRUE, TRUE)
           /\ m[2] = Stroke(k, FALSE, FALSE)
           /\ m[3] = Stroke(l, FALSE, FALSE)
           /\ m[4] = Stroke("KEY_ENTER", FALSE, FALSE)
    BY UnicodeEmits
  <1>2. /\ Len(todo) < Len(t) /\ EndOf(queue, t[Len(t) - Len(todo)])
        /\ queue \in Seq(Event) /\ Len(todo) \in Nat
    BY DEF InPlace, TypeOK, Begun
  <1>3. "KEY_U" \in Letter /\ "KEY_ENTER" \in Letter
    BY FixedLetters
  <1> HIDE DEF t, m, open, close
  <1>4. Len(todo) \in 0..5 /\ EndOf(queue, t[6 - Len(todo)])
    <2>1. Len(t) = 6
      BY <1>1
    <2>2. EndOf(queue, t[6 - Len(todo)])
      BY <1>2, <2>1, Zenon
    <2>3. Len(todo) < 6 /\ Len(todo) \in Nat
      BY <1>2, <2>1, Zenon
    <2>4. Len(todo) \in 0..5
      <3>1. \A n \in Nat : n < 6 => n \in 0..5
        OBVIOUS
      <3> QED
        BY <2>3, <3>1, Zenon
    <2> QED
      BY <2>2, <2>4, Zenon
  <1>5. Len(todo) = 5 => PressesLeft
    <2>1. Len(todo) = 5 => EndOf(queue, open)
      BY <1>1, <1>4
    <2>2. open \in Seq(Event) /\ Len(open) = 2 /\ open[1] = Press(Ctrl) /\ open[2] = Press(Shift)
      BY ChordEvents DEF open
    <2> QED
      BY <1>2, <2>1, <2>2, EndsOfTwo DEF PressesLeft
  <1>6. Len(todo) = 3 => ReleasesLeft
    <2>1. Len(todo) = 3 => EndOf(queue, close)
      BY <1>1, <1>4
    <2>2. /\ close \in Seq(Event) /\ Len(close) = 2
          /\ close[1] = Release(Ctrl) /\ close[2] = Release(Shift)
      BY ChordEvents DEF close
    <2> QED
      BY <1>2, <2>1, <2>2, EndsOfTwo DEF ReleasesLeft
  <1>7. Len(todo) = 4 => TapLeft("KEY_U")
    <2>1. Len(todo) = 4 => EndOf(queue, t[2])
      BY <1>4
    <2> QED
      BY <1>1, <1>2, <1>3, <2>1, TapLefts
  <1>8. Len(todo) = 2 => TapLeft(k)
    <2>1. Len(todo) = 2 => EndOf(queue, t[4])
      BY <1>4
    <2> QED
      BY <1>1, <1>2, <2>1, TapLefts
  <1>9. Len(todo) = 1 => TapLeft(l)
    <2>1. Len(todo) = 1 => EndOf(queue, t[5])
      BY <1>4
    <2> QED
      BY <1>1, <1>2, <2>1, TapLefts
  <1>10. Len(todo) = 0 => TapLeft("KEY_ENTER")
    <2>1. Len(todo) = 0 => EndOf(queue, t[6])
      BY <1>4
    <2> QED
      BY <1>1, <1>2, <1>3, <2>1, TapLefts
  <1>11. /\ Len(m) = 4 /\ m[1] = Stroke("KEY_U", TRUE, TRUE) /\ m[2] = Stroke(k, FALSE, FALSE)
         /\ m[3] = Stroke(l, FALSE, FALSE) /\ m[4] = Stroke("KEY_ENTER", FALSE, FALSE)
    BY <1>1, Zenon
  <1>12. UnicodeLeft(k, l)
    BY <1>4, <1>5, <1>6, <1>7, <1>8, <1>9, <1>10, <1>11 DEF UnicodeLeft, m
  <1> QED
    BY <1>12

\* The kernel takes a press of a letter with the release behind it.
LettersBehind ==
  \A k \in Letter : queue[1] = Press(k) =>
     /\ 2 \in DOMAIN queue /\ queue[2] = Release(k)
     /\ \A i \in DOMAIN queue : i > 1 => queue[i] # Press(k)

LEMMA TapBehind ==
  ASSUME queue \in Seq(Event), NEW n \in Letter, TapLeft(n)
  PROVE  LettersBehind /\ queue[1][1] \in Key
  <1>1. DOMAIN queue = 1..Len(queue) /\ n \in Key
    BY DEF Letter
  <1>2. CASE Len(queue) = 2 /\ queue[1] = Press(n) /\ queue[2] = Release(n)
    <2>1. DOMAIN queue = 1..2
      BY <1>1, <1>2
    <2> QED
      BY <1>1, <1>2, <2>1, Apart DEF LettersBehind
  <1>3. CASE Len(queue) = 1 /\ queue[1] = Release(n)
    BY <1>1, <1>3, Apart DEF LettersBehind
  <1> QED
    BY <1>2, <1>3 DEF TapLeft

LEMMA ShiftedTapBehind ==
  ASSUME queue \in Seq(Event), NEW n \in Letter, ShiftedTapLeft(n)
  PROVE  LettersBehind /\ queue[1][1] \in Key
  <1>1. DOMAIN queue = 1..Len(queue) /\ n \in Key /\ Shift \in Key /\ Shift \notin Letter
    BY FixedLetters DEF Letter, Modifiers
  <1>2. CASE queue[1] = Press(Shift)
    BY <1>1, <1>2, Apart DEF LettersBehind
  <1>3. CASE /\ Len(queue) = 3 /\ queue[1] = Press(n) /\ queue[2] = Release(n) /\ queue[3] = Release(Shift)
    <2>1. DOMAIN queue = 1..3
      BY <1>1, <1>3
    <2> QED
      BY <1>1, <1>3, <2>1, Apart DEF LettersBehind
  <1>4. CASE queue[1] = Release(n) \/ queue[1] = Release(Shift)
    BY <1>1, <1>4, Apart DEF LettersBehind
  <1> QED
    BY <1>2, <1>3, <1>4 DEF ShiftedTapLeft

LEMMA TextQueue ==
  ASSUME TypeOK, InPlace, typing \in Char, queue # <<>>
  PROVE  LettersBehind /\ queue[1][1] \in Key
  <1>1. queue \in Seq(Event)
    BY DEF TypeOK
  <1>2. CASE typing \notin DOMAIN Hex
    BY <1>1, <1>2, SingleQueue, TapBehind, ShiftedTapBehind DEF SingleLeft
  <1>3. CASE typing \in DOMAIN Hex
    <2>1. PICK k, l \in Letter : UnicodeLeft(k, l)
      BY <1>3, UnicodeQueue
    <2>2. CASE \E n \in Letter : TapLeft(n)
      BY <1>1, <2>2, TapBehind
    <2>3. CASE PressesLeft \/ ReleasesLeft
      <3>1. queue[1] \in {Press(Ctrl), Press(Shift), Release(Ctrl), Release(Shift)}
        BY <2>3 DEF PressesLeft, ReleasesLeft
      <3> QED
        BY <3>1, Apart, FixedLetters DEF LettersBehind, Letter, Modifiers
    <2> QED
      BY <2>1, <2>2, <2>3, FixedLetters DEF UnicodeLeft
  <1> QED
    BY <1>2, <1>3

LEMMA BegunEmit ==
  ASSUME TypeOK, typing \in Char, Len(todo) < Len(TypeChar(typing))
  PROVE  Begun(typing) \in Seq(Event) /\ Begun(typing) \in ToSet(TypeChar(typing))
  <1> DEFINE t == TypeChar(typing)
  <1>1. t \in Seq(Seq(Event)) /\ Len(todo) \in Nat /\ Len(todo) < Len(t)
    BY CharTypes DEF TypeOK
  <1> HIDE DEF t
  <1>2. Len(t) - Len(todo) \in DOMAIN t
    BY <1>1
  <1>3. t[Len(t) - Len(todo)] \in Seq(Event) /\ t[Len(t) - Len(todo)] \in ToSet(t)
    BY <1>1, <1>2 DEF ToSet
  <1> QED
    BY <1>3 DEF Begun, t

LEMMA QueueKeys ==
  ASSUME TypeOK, InPlace, typing \in Char, queue # <<>>, NEW k \in Key, queue[1] = Press(k)
  PROVE  k \in KeysIn(TypeChar(typing))
  <1>1. /\ Begun(typing) \in Seq(Event) /\ Begun(typing) \in ToSet(TypeChar(typing))
        /\ EndOf(queue, Begun(typing)) /\ queue \in Seq(Event)
    BY BegunEmit DEF InPlace, TypeOK
  <1>2. PICK i \in DOMAIN Begun(typing) : Press(k) = Begun(typing)[i]
    BY <1>1, TailEnds
  <1>3. Press(k) \in ToSet(Begun(typing))
    BY <1>2 DEF ToSet
  <1> QED
    BY <1>1, <1>3, Apart DEF KeysIn

LEMMA PlaceEmit ==
  ASSUME TypeOK, InPlace, typing \in Char, Emit
  PROVE  InPlace'
  <1> DEFINE t == TypeChar(typing)
  <1>1. /\ todo \in Seq(Seq(Event)) /\ t \in Seq(Seq(Event))
        /\ todo # <<>> /\ EndOf(todo, t)
    BY CharTypes DEF Emit, TypeOK, InPlace
  <1>2. todo' = Tail(todo) /\ queue' = Head(todo) /\ typing' = typing /\ TypeChar(typing') = t
    BY DEF Emit
  <1> HIDE DEF t
  <1>3. /\ EndOf(todo', t) /\ Len(todo') = Len(todo) - 1
        /\ Len(t) - Len(todo) + 1 \in DOMAIN t /\ todo[1] = t[Len(t) - Len(todo) + 1]
    BY <1>1, <1>2, TailEnds
  <1>4. Len(t) \in Nat /\ Len(todo) \in Nat /\ Len(todo) <= Len(t)
    BY <1>1 DEF EndOf
  <1>5. queue' = t[Len(t) - Len(todo')]
    <2>1. Len(t) - Len(todo) + 1 = Len(t) - Len(todo') /\ Head(todo) = todo[1]
      BY <1>1, <1>3, <1>4
    <2> QED
      BY <1>2, <1>3, <2>1
  <1>6. EndOf(queue', queue')
    <2>1. queue' \in Seq(Event)
      BY <1>1, <1>2
    <2> QED
      BY <2>1 DEF EndOf
  <1>7. Len(todo') < Len(t)
    BY <1>3, <1>4
  <1> QED
    BY <1>2, <1>3, <1>5, <1>6, <1>7 DEF InPlace, Begun

LEMMA PlaceTaken ==
  ASSUME TypeOK, InPlace, typing \in Char, NEW ev, Taken(ev)
  PROVE  InPlace' /\ Begun(typing)' = Begun(typing)
  <1>1. queue # <<>> /\ queue' = Tail(queue) /\ todo' = todo /\ typing' = typing
    BY DEF Taken
  <1>2. Begun(typing)' = Begun(typing)
    BY <1>1 DEF Begun
  <1>3. /\ Len(todo) < Len(TypeChar(typing)) /\ EndOf(queue, Begun(typing))
        /\ EndOf(todo, TypeChar(typing)) /\ queue \in Seq(Event)
    BY <1>1 DEF InPlace, TypeOK
  <1>4. EndOf(queue', Begun(typing))
    BY <1>1, <1>3, BegunEmit, TailEnds
  <1> QED
    BY <1>1, <1>2, <1>3, <1>4 DEF InPlace

LEMMA LiftedTaken ==
  ASSUME TypeOK, InPlace, LettersLifted, typing \in Char,
         NEW k \in Key, KeyGoesDown(k) \/ KeyGoesUp(k)
  PROVE  LettersLifted'
  <1>1. held' = held /\ queue # <<>>
    BY DEF KeyGoesDown, KeyGoesUp, Taken
  <1>2. PICK ev \in {Press(k), Release(k)} :
          /\ Taken(ev)
          /\ \/ ev = Press(k) /\ down' = down \cup {k}
             \/ ev = Release(k) /\ down' = down \ {k}
    BY DEF KeyGoesDown, KeyGoesUp
  <1>3. /\ 1 \in DOMAIN queue /\ queue[1] = ev
        /\ \A i \in DOMAIN queue' : i \in Nat /\ i + 1 \in DOMAIN queue /\ queue'[i] = queue[i + 1]
        /\ \A i \in DOMAIN queue : i \in Nat
              /\ (i > 1 => i - 1 \in DOMAIN queue' /\ queue'[i - 1] = queue[i])
              /\ (~(i > 1) => i = 1)
    BY <1>2, TakenWaits
  <1>4. ASSUME NEW l \in down', l \notin held \cup Modifiers, l \in down, ev # Release(l)
        PROVE  /\ \E i \in DOMAIN queue' : queue'[i] = Release(l)
               /\ \A i \in DOMAIN queue' : queue'[i] # Press(l)
    <2>1. /\ \E i \in DOMAIN queue : queue[i] = Release(l)
          /\ \A i \in DOMAIN queue : queue[i] # Press(l)
      BY <1>4 DEF LettersLifted
    <2> QED
      BY <1>3, <1>4, <2>1
  <1>5. ASSUME ev = Press(k), k \notin held \cup Modifiers
        PROVE  /\ \E i \in DOMAIN queue' : queue'[i] = Release(k)
               /\ \A i \in DOMAIN queue' : queue'[i] # Press(k)
    <2>1. k \in Letter /\ LettersBehind
      BY <1>1, <1>5, TextQueue DEF Letter
    <2>2. /\ 2 \in DOMAIN queue /\ queue[2] = Release(k)
          /\ \A i \in DOMAIN queue : i > 1 => queue[i] # Press(k)
      BY <1>3, <1>5, <2>1 DEF LettersBehind
    <2>3. 1 \in DOMAIN queue' /\ queue'[1] = Release(k)
      BY <1>3, <2>2
    <2>4. \A i \in DOMAIN queue' : i + 1 > 1
      <3>1. queue \in Seq(Event) /\ queue # <<>> /\ queue' = Tail(queue)
        BY <1>2 DEF Taken, TypeOK
      <3> QED
        BY <3>1
    <2>5. ASSUME NEW i \in DOMAIN queue' PROVE queue'[i] # Press(k)
      <3>1. i + 1 \in DOMAIN queue /\ queue'[i] = queue[i + 1]
        BY <1>3
      <3>2. i + 1 > 1
        BY <2>4
      <3>3. queue[i + 1] # Press(k)
        BY <2>2, <3>1, <3>2
      <3> QED
        BY <3>1, <3>3
    <2> QED
      BY <2>3, <2>5
  <1>6. ASSUME NEW l \in down', l \notin held \cup Modifiers
        PROVE  /\ \E i \in DOMAIN queue' : queue'[i] = Release(l)
               /\ \A i \in DOMAIN queue' : queue'[i] # Press(l)
    <2>1. CASE l \in down /\ ev # Release(l)
      BY <1>4, <1>6, <2>1
    <2>2. CASE l \notin down \/ ev = Release(l)
      <3>1. l = k /\ ev = Press(k)
        BY <1>2, <1>6, <2>2, Apart
      <3> QED
        BY <1>5, <1>6, <3>1
    <2> QED
      BY <2>1, <2>2
  <1> QED
    BY <1>1, <1>6 DEF LettersLifted

\* A letter that is about to go down, in a clean text, is a keystroke.
LEMMA LetterNotDown ==
  ASSUME TypeOK, InPlace, LettersLifted, TextMeant, typing \in Char, queue # <<>>,
         NEW k \in Letter, queue[1] = Press(k)
  PROVE  k \notin down \cup Modifiers
  <1>1. k \in Key /\ k \notin Modifiers
    BY DEF Letter
  <1>2. k \notin held
    BY <1>1, QueueKeys DEF TextMeant
  <1>3. 1 \in DOMAIN queue
    BY DEF TypeOK
  <1> QED
    BY <1>1, <1>2, <1>3 DEF LettersLifted

LEMMA StrokeOf ==
  ASSUME NEW k, NEW shift \in BOOLEAN, NEW ctrl \in BOOLEAN,
         Shift \in down <=> shift, Ctrl \in down <=> ctrl
  PROVE  Stroke(k, Shift \in down, Ctrl \in down) = Stroke(k, shift, ctrl)
  BY DEF Stroke

\* The keystroke is the one that is meant at its place.
AsMeantNext(n) == \E i \in DOMAIN MeantBy(typing) :
  /\ Len(MeantBy(typing)) - i = n
  /\ log' = Append(log, MeantBy(typing)[i])

LEMMA KeystrokeGrows ==
  ASSUME TypeOK, TextMeant, typing \in Char, NEW n \in Nat, Len(meant) = Len(log) + n + 1,
         AsMeantNext(n), meant' = meant
  PROVE  Len(log') = Len(log) + 1 /\ \A i \in DOMAIN log' : log'[i] = meant'[i]
  <1> DEFINE m == MeantBy(typing)
  <1>1. m \in Seq(Seen) /\ log \in Seq(Seen) /\ meant \in Seq(Seen)
    BY CharTypes DEF TypeOK
  <1>2. EndOf(m, meant) /\ \A i \in DOMAIN log : log[i] = meant[i]
    BY DEF TextMeant
  <1>3. PICK i \in DOMAIN m : Len(m) - i = n /\ log' = Append(log, m[i])
    BY DEF AsMeantNext
  <1> HIDE DEF m
  <1>4. m[i] = meant[Len(meant) - Len(m) + i]
    BY <1>2 DEF EndOf
  <1>5. Len(meant) - Len(m) + i = Len(log) + 1
    BY <1>1, <1>3
  <1>6. m[i] \in Seen
    BY <1>1
  <1>7. log' = Append(log, meant[Len(log) + 1]) /\ meant[Len(log) + 1] \in Seen
    BY <1>3, <1>4, <1>5, <1>6
  <1>8. /\ Len(log') = Len(log) + 1
        /\ \A j \in DOMAIN log' : IF j \in DOMAIN log THEN log'[j] = log[j]
                                  ELSE j = Len(log) + 1 /\ log'[j] = meant[Len(log) + 1]
    BY <1>1, <1>7
  <1>9. ASSUME NEW j \in DOMAIN log'
        PROVE  log'[j] = meant'[j]
    <2>1. CASE j \in DOMAIN log
      <3>1. log'[j] = log[j] /\ log[j] = meant[j]
        BY <1>2, <1>8, <2>1
      <3> QED
        BY <3>1
    <2>2. CASE j \notin DOMAIN log
      BY <1>8, <2>2
    <2> QED
      BY <2>1, <2>2
  <1> QED
    BY <1>8, <1>9

LEMMA OnlyKeystroke ==
  ASSUME NEW stroke, MeantBy(typing) = << stroke >>, log' = Append(log, stroke)
  PROVE  AsMeantNext(0)
  <1>1. Len(MeantBy(typing)) = 1 /\ 1 \in DOMAIN MeantBy(typing) /\ MeantBy(typing)[1] = stroke
    OBVIOUS
  <1>2. Len(MeantBy(typing)) - 1 = 0
    BY <1>1
  <1> QED
    BY <1>1, <1>2, Zenon DEF AsMeantNext

LEMMA SingleDown ==
  ASSUME TypeOK, InPlace, LettersLifted, TextMeant, typing \in Char, typing \notin DOMAIN Hex,
         NEW k \in Key, KeyGoesDown(k)
  PROVE  SinglePlace' /\ \A i \in DOMAIN log' : log'[i] = meant'[i]
  <1>1. /\ Taken(Press(k)) /\ queue # <<>> /\ Len(queue') = Len(queue) - 1
        /\ todo' = todo /\ typing' = typing /\ meant' = meant /\ down' = down \cup {k}
    BY DEF KeyGoesDown, Taken, TypeOK
  <1>2. queue[1] = Press(k)
    BY <1>1, TakenWaits
  <1>3. Begun(typing)' = Begun(typing)
    BY <1>1, PlaceTaken
  <1>4. PICK n \in Letter : SingleLeft(n)
    BY <1>1, SingleQueue
  <1>5. Len(todo) = 0 /\ n \notin Modifiers
    BY <1>1, SingleQueue DEF Letter
  <1>6. /\ Ctrl \notin down
        /\ Shift \in down <=> (Len(queue) \in 1..3 /\ Len(Begun(typing)) = 4)
        /\ Len(meant) = Len(log) + (IF Len(queue) > 0 /\ Len(queue) > Len(Begun(typing)) \div 2
                                    THEN 1 ELSE 0)
        /\ \A i \in DOMAIN log : log[i] = meant[i]
    BY <1>5 DEF TextMeant, SinglePlace, Half
  <1>7. SinglePlace' <=>
          /\ Ctrl \notin down'
          /\ Shift \in down' <=> (Len(queue') \in 1..3 /\ Len(Begun(typing)) = 4)
          /\ Len(meant) = Len(log') + (IF Len(queue') > 0 /\ Len(queue') > Len(Begun(typing)) \div 2
                                       THEN 1 ELSE 0)
    BY <1>1, <1>3, <1>5 DEF SinglePlace, Half
  <1>8. Ctrl # Shift /\ Modifiers = {Shift, Ctrl}
    BY FixedLetters DEF Modifiers
  <1>9. k \in Letter => log' = Append(log, Stroke(k, Shift \in down, Ctrl \in down))
    BY <1>1, <1>2, LetterNotDown DEF KeyGoesDown
  <1>10. ASSUME NEW shift \in BOOLEAN, k = n, Shift \in down <=> shift,
                MeantBy(typing) = << Stroke(n, shift, FALSE) >>
         PROVE  AsMeantNext(0)
    <2>1. Stroke(k, Shift \in down, Ctrl \in down) = Stroke(n, shift, FALSE)
      BY <1>6, <1>10, StrokeOf
    <2>2. log' = Append(log, Stroke(n, shift, FALSE))
      BY <1>9, <1>10, <2>1, Zenon
    <2> QED
      BY <1>10, <2>2, OnlyKeystroke, Zenon
  <1>11. ASSUME AsMeantNext(0), Len(meant) = Len(log) + 1
         PROVE  Len(log') = Len(log) + 1 /\ \A i \in DOMAIN log' : log'[i] = meant'[i]
    BY <1>1, <1>11, KeystrokeGrows
  <1>12. CASE /\ TapLeft(n) /\ Len(Begun(typing)) = 2
              /\ MeantBy(typing) = << Stroke(n, FALSE, FALSE) >>
    <2>1. k = n /\ Len(queue) = 2
      BY <1>2, <1>12, Apart DEF TapLeft
    <2>2. /\ Shift \notin down /\ Len(meant) = Len(log) + 1
      BY <1>6, <1>12, <2>1
    <2>3. AsMeantNext(0)
      BY <1>10, <1>12, <2>1, <2>2, Zenon
    <2>4. Len(log') = Len(log) + 1 /\ \A i \in DOMAIN log' : log'[i] = meant'[i]
      BY <1>11, <2>2, <2>3
    <2>5. SinglePlace'
      BY <1>1, <1>5, <1>6, <1>7, <1>8, <1>12, <2>1, <2>2, <2>4
    <2> QED
      BY <2>4, <2>5
  <1>13. CASE /\ ShiftedTapLeft(n) /\ Len(Begun(typing)) = 4
              /\ MeantBy(typing) = << Stroke(n, TRUE, FALSE) >>
    <2>1. (k = Shift /\ Len(queue) = 4) \/ (k = n /\ Len(queue) = 3)
      BY <1>2, <1>13, Apart DEF ShiftedTapLeft
    <2>2. CASE k = Shift /\ Len(queue) = 4
      <3>1. log' = log
        BY <1>8, <2>2 DEF KeyGoesDown
      <3>2. SinglePlace'
        BY <1>1, <1>6, <1>7, <1>8, <1>13, <2>2, <3>1
      <3> QED
        BY <1>1, <1>6, <3>1, <3>2
    <2>3. CASE k = n /\ Len(queue) = 3
      <3>1. /\ Shift \in down /\ Len(meant) = Len(log) + 1
        BY <1>6, <1>13, <2>3
      <3>2. AsMeantNext(0)
        BY <1>10, <1>13, <2>3, <3>1, Zenon
      <3>3. Len(log') = Len(log) + 1 /\ \A i \in DOMAIN log' : log'[i] = meant'[i]
        BY <1>11, <3>1, <3>2
      <3>4. SinglePlace'
        BY <1>1, <1>5, <1>6, <1>7, <1>8, <1>13, <2>3, <3>1, <3>3
      <3> QED
        BY <3>3, <3>4
    <2> QED
      BY <2>1, <2>2, <2>3
  <1> QED
    BY <1>4, <1>12, <1>13 DEF SingleLeft

LEMMA SingleUp ==
  ASSUME TypeOK, InPlace, TextMeant, typing \in Char, typing \notin DOMAIN Hex,
         NEW k \in Key, KeyGoesUp(k)
  PROVE  SinglePlace'
  <1>1. /\ Taken(Release(k)) /\ queue # <<>> /\ Len(queue') = Len(queue) - 1
        /\ todo' = todo /\ typing' = typing /\ meant' = meant /\ log' = log /\ down' = down \ {k}
    BY DEF KeyGoesUp, Taken, TypeOK
  <1>2. queue[1] = Release(k)
    BY <1>1, TakenWaits
  <1>3. Begun(typing)' = Begun(typing)
    BY <1>1, PlaceTaken
  <1>4. PICK n \in Letter : SingleLeft(n)
    BY <1>1, SingleQueue
  <1>5. Len(todo) = 0 /\ n # Shift /\ n # Ctrl
    BY <1>1, SingleQueue DEF Letter, Modifiers
  <1>6. /\ Ctrl \notin down
        /\ Shift \in down <=> (Len(queue) \in 1..3 /\ Len(Begun(typing)) = 4)
        /\ Len(meant) = Len(log) + (IF Len(queue) > 0 /\ Len(queue) > Len(Begun(typing)) \div 2
                                    THEN 1 ELSE 0)
    BY <1>5 DEF TextMeant, SinglePlace, Half
  <1>7. SinglePlace' <=>
          /\ Ctrl \notin down'
          /\ Shift \in down' <=> (Len(queue') \in 1..3 /\ Len(Begun(typing)) = 4)
          /\ Len(meant) = Len(log) + (IF Len(queue') > 0 /\ Len(queue') > Len(Begun(typing)) \div 2
                                      THEN 1 ELSE 0)
    BY <1>1, <1>3, <1>5 DEF SinglePlace, Half
  <1>8. CASE TapLeft(n) /\ Len(Begun(typing)) = 2
    <2>1. k = n /\ Len(queue) = 1
      BY <1>2, <1>8, Apart DEF TapLeft
    <2> QED
      BY <1>1, <1>5, <1>6, <1>7, <1>8, <2>1
  <1>9. CASE ShiftedTapLeft(n) /\ Len(Begun(typing)) = 4
    <2>1. (k = n /\ Len(queue) = 2) \/ (k = Shift /\ Len(queue) = 1)
      BY <1>2, <1>9, Apart DEF ShiftedTapLeft
    <2>2. CASE k = n /\ Len(queue) = 2
      BY <1>1, <1>5, <1>6, <1>7, <1>9, <2>2
    <2>3. CASE k = Shift /\ Len(queue) = 1
      BY <1>1, <1>6, <1>7, <1>9, <2>3
    <2> QED
      BY <2>1, <2>2, <2>3
  <1> QED
    BY <1>4, <1>8, <1>9 DEF SingleLeft
LEMMA UnicodeDown ==
  ASSUME TypeOK, InPlace, LettersLifted, TextMeant, typing \in Char, typing \in DOMAIN Hex,
         NEW k \in Key, KeyGoesDown(k)
  PROVE  UnicodePlace' /\ \A i \in DOMAIN log' : log'[i] = meant'[i]
  <1> DEFINE e == Len(todo)
             q == Len(queue)
             lm == Len(meant)
             ll == Len(log)
             lx == Len(log')
  <1>1. /\ Taken(Press(k)) /\ queue # <<>> /\ Len(queue') = q - 1 /\ q \in Nat
        /\ todo' = todo /\ typing' = typing /\ meant' = meant /\ down' = down \cup {k}
        /\ e \in Nat /\ lm \in Nat /\ ll \in Nat
    BY DEF KeyGoesDown, Taken, TypeOK
  <1>2. queue[1] = Press(k)
    BY <1>1, TakenWaits
  <1>3. PICK m, l \in Letter : UnicodeLeft(m, l)
    BY <1>1, UnicodeQueue
  <1>4. /\ Ctrl \in down  <=> (e = 5 /\ q < 2) \/ e = 4 \/ (e = 3 /\ q = 2)
        /\ Shift \in down <=> (e = 5 /\ q = 0) \/ e = 4 \/ (e = 3 /\ q > 0)
        /\ lm = ll +
             (IF e \in {5, 6} \/ (e = 4 /\ q = 2) THEN 4
              ELSE IF e \in {3, 4} THEN 3
              ELSE IF q = 2 THEN e + 1 ELSE e)
        /\ \A i \in DOMAIN log : log[i] = meant[i]
    BY DEF TextMeant, UnicodePlace
  <1>5. UnicodePlace' <=>
          /\ Ctrl \in down'  <=> (e = 5 /\ q - 1 < 2) \/ e = 4 \/ (e = 3 /\ q - 1 = 2)
          /\ Shift \in down' <=> (e = 5 /\ q - 1 = 0) \/ e = 4 \/ (e = 3 /\ q - 1 > 0)
          /\ lm = lx +
               (IF e \in {5, 6} \/ (e = 4 /\ q - 1 = 2) THEN 4
                ELSE IF e \in {3, 4} THEN 3
                ELSE IF q - 1 = 2 THEN e + 1 ELSE e)
    BY <1>1 DEF UnicodePlace
  <1>6. Ctrl # Shift /\ Modifiers = {Shift, Ctrl} /\ \A n \in Letter : n # Shift /\ n # Ctrl
    BY FixedLetters DEF Modifiers, Letter
  <1>7. k \in Modifiers => log' = log
    BY DEF KeyGoesDown
  <1> HIDE DEF e, q, lm, ll, lx
  <1>8. ASSUME NEW n \in Letter, TapLeft(n), NEW j \in 1..4, NEW b \in BOOLEAN,
               Shift \in down <=> b, Ctrl \in down <=> b,
               MeantBy(typing)[j] = Stroke(n, b, b), lm = ll + (4 - j) + 1
        PROVE  /\ k = n /\ q = 2 /\ lx = ll + 1
               /\ \A i \in DOMAIN log' : log'[i] = meant'[i]
    <2>1. k = n /\ q = 2
      BY <1>2, <1>8, Apart DEF TapLeft, q
    <2>2. log' = Append(log, Stroke(k, Shift \in down, Ctrl \in down))
      BY <1>1, <1>2, <1>8, <2>1, LetterNotDown DEF KeyGoesDown
    <2>3. Stroke(k, Shift \in down, Ctrl \in down) = Stroke(n, b, b)
      BY <1>8, <2>1, StrokeOf
    <2>4. log' = Append(log, MeantBy(typing)[j])
      BY <1>8, <2>2, <2>3, Zenon
    <2>5. j \in DOMAIN MeantBy(typing) /\ Len(MeantBy(typing)) - j = 4 - j
      <3>1. MeantBy(typing) \in Seq(Seen)
        BY CharTypes
      <3>2. Len(MeantBy(typing)) = 4
        BY <1>3 DEF UnicodeLeft
      <3> QED
        BY <3>1, <3>2
    <2>6. AsMeantNext(4 - j)
      BY <2>4, <2>5, Zenon DEF AsMeantNext
    <2>7. 4 - j \in Nat
      OBVIOUS
    <2>8. lx = ll + 1 /\ \A i \in DOMAIN log' : log'[i] = meant'[i]
      BY <1>1, <1>8, <2>6, <2>7, KeystrokeGrows DEF lm, ll, lx
    <2> QED
      BY <2>1, <2>8
  <1>9. CASE e = 5 /\ PressesLeft
    <2>1. (q = 2 /\ k = Ctrl) \/ (q = 1 /\ k = Shift)
      BY <1>2, <1>9, Apart DEF PressesLeft, q
    <2>2. log' = log /\ lx = ll
      BY <1>6, <1>7, <2>1 DEF lx, ll
    <2> QED
      BY <1>1, <1>4, <1>5, <1>6, <1>9, <2>1, <2>2
  <1>10. CASE e = 4 /\ TapLeft("KEY_U")
    <2>1. "KEY_U" \in Letter /\ MeantBy(typing)[1] = Stroke("KEY_U", TRUE, TRUE)
      BY <1>3, FixedLetters, Zenon DEF UnicodeLeft
    <2>2. Shift \in down /\ Ctrl \in down
      BY <1>4, <1>10
    <2>3. lm = ll + (4 - 1) + 1
      <3>1. q = 2
        BY <1>2, <1>10, Apart DEF TapLeft, q
      <3> QED
        BY <1>1, <1>4, <1>10, <3>1
    <2>4. /\ k = "KEY_U" /\ q = 2 /\ lx = ll + 1
          /\ \A i \in DOMAIN log' : log'[i] = meant'[i]
      BY <1>8, <1>10, <2>1, <2>2, <2>3, 1 \in 1..4
    <2>5. UnicodePlace'
      BY <1>1, <1>4, <1>5, <1>6, <1>10, <2>1, <2>2, <2>3, <2>4
    <2> QED
      BY <2>4, <2>5
  <1>11. CASE e = 3 /\ ReleasesLeft
    BY <1>2, <1>11, Apart DEF ReleasesLeft
  <1>12. ASSUME NEW n \in Letter, TapLeft(n), e \in {0, 1, 2},
                MeantBy(typing)[4 - e] = Stroke(n, FALSE, FALSE)
         PROVE  UnicodePlace' /\ \A i \in DOMAIN log' : log'[i] = meant'[i]
    <2>1. Shift \notin down /\ Ctrl \notin down
      BY <1>4, <1>12
    <2>2. q = 2
      BY <1>2, <1>12, Apart DEF TapLeft, q
    <2>3. lm = ll + e + 1
      BY <1>1, <1>4, <1>12, <2>2
    <2>4. 4 - e \in 1..4 /\ 4 - (4 - e) = e
      BY <1>12
    <2>5. /\ k = n /\ lx = ll + 1
          /\ \A i \in DOMAIN log' : log'[i] = meant'[i]
      BY <1>8, <1>12, <2>1, <2>3, <2>4
    <2>6. UnicodePlace'
      BY <1>1, <1>4, <1>5, <1>6, <1>12, <2>1, <2>2, <2>3, <2>5
    <2> QED
      BY <2>5, <2>6
  <1>13. CASE e = 2 /\ TapLeft(m)
    <2>1. MeantBy(typing)[4 - e] = Stroke(m, FALSE, FALSE)
      <3>1. 4 - e = 2
        BY <1>13
      <3> QED
        BY <1>3, <3>1, Zenon DEF UnicodeLeft
    <2> QED
      BY <1>12, <1>13, <2>1
  <1>14. CASE e = 1 /\ TapLeft(l)
    <2>1. MeantBy(typing)[4 - e] = Stroke(l, FALSE, FALSE)
      <3>1. 4 - e = 3
        BY <1>14
      <3> QED
        BY <1>3, <3>1, Zenon DEF UnicodeLeft
    <2> QED
      BY <1>12, <1>14, <2>1
  <1>15. CASE e = 0 /\ TapLeft("KEY_ENTER")
    <2>1. MeantBy(typing)[4 - e] = Stroke("KEY_ENTER", FALSE, FALSE)
      <3>1. 4 - e = 4
        BY <1>15
      <3> QED
        BY <1>3, <3>1, Zenon DEF UnicodeLeft
    <2> QED
      BY <1>12, <1>15, <2>1, FixedLetters
  <1> QED
    BY <1>3, <1>9, <1>10, <1>11, <1>13, <1>14, <1>15, Zenon DEF UnicodeLeft, e

LEMMA UnicodeUp ==
  ASSUME TypeOK, InPlace, TextMeant, typing \in Char, typing \in DOMAIN Hex,
         NEW k \in Key, KeyGoesUp(k)
  PROVE  UnicodePlace'
  <1> DEFINE e == Len(todo)
             q == Len(queue)
             lm == Len(meant)
             ll == Len(log)
  <1>1. /\ Taken(Release(k)) /\ queue # <<>> /\ Len(queue') = q - 1 /\ q \in Nat
        /\ todo' = todo /\ typing' = typing /\ meant' = meant /\ log' = log /\ down' = down \ {k}
        /\ e \in Nat /\ lm \in Nat /\ ll \in Nat
    BY DEF KeyGoesUp, Taken, TypeOK
  <1>2. queue[1] = Release(k)
    BY <1>1, TakenWaits
  <1>3. PICK m, l \in Letter : UnicodeLeft(m, l)
    BY <1>1, UnicodeQueue
  <1>4. /\ Ctrl \in down  <=> (e = 5 /\ q < 2) \/ e = 4 \/ (e = 3 /\ q = 2)
        /\ Shift \in down <=> (e = 5 /\ q = 0) \/ e = 4 \/ (e = 3 /\ q > 0)
        /\ lm = ll +
             (IF e \in {5, 6} \/ (e = 4 /\ q = 2) THEN 4
              ELSE IF e \in {3, 4} THEN 3
              ELSE IF q = 2 THEN e + 1 ELSE e)
    BY DEF TextMeant, UnicodePlace
  <1>5. UnicodePlace' <=>
          /\ Ctrl \in down'  <=> (e = 5 /\ q - 1 < 2) \/ e = 4 \/ (e = 3 /\ q - 1 = 2)
          /\ Shift \in down' <=> (e = 5 /\ q - 1 = 0) \/ e = 4 \/ (e = 3 /\ q - 1 > 0)
          /\ lm = ll +
               (IF e \in {5, 6} \/ (e = 4 /\ q - 1 = 2) THEN 4
                ELSE IF e \in {3, 4} THEN 3
                ELSE IF q - 1 = 2 THEN e + 1 ELSE e)
    BY <1>1 DEF UnicodePlace
  <1>6. Ctrl # Shift /\ \A n \in Letter : n # Shift /\ n # Ctrl
    BY FixedLetters DEF Modifiers, Letter
  <1> HIDE DEF e, q, lm, ll
  <1>7. CASE e = 5 /\ PressesLeft
    BY <1>2, <1>7, Apart DEF PressesLeft, q
  <1>8. CASE e = 3 /\ ReleasesLeft
    <2>1. (q = 2 /\ k = Ctrl) \/ (q = 1 /\ k = Shift)
      BY <1>2, <1>8, Apart DEF ReleasesLeft, q
    <2> QED
      BY <1>1, <1>4, <1>5, <1>6, <1>8, <2>1
  <1>9. ASSUME NEW n \in Letter, TapLeft(n), e \in {0, 1, 2, 4}
        PROVE  UnicodePlace'
    <2>1. k = n /\ q = 1
      BY <1>2, <1>9, Apart DEF TapLeft, q
    <2> QED
      BY <1>1, <1>4, <1>5, <1>6, <1>9, <2>1
  <1> QED
    BY <1>3, <1>7, <1>8, <1>9, FixedLetters, Zenon DEF UnicodeLeft, e

\* Emits: the next one is written whole.
LEMMA TextEmit ==
  ASSUME TypeOK, InPlace, TextMeant, typing \in Char, Emit
  PROVE  TextMeant'
  <1> DEFINE e == Len(todo)
             lm == Len(meant)
             ll == Len(log)
  <1>1. /\ queue = <<>> /\ todo # <<>> /\ todo' = Tail(todo) /\ queue' = Head(todo)
        /\ typing' = typing /\ meant' = meant /\ log' = log /\ down' = down /\ held' = held
        /\ todo \in Seq(Seq(Event))
    BY DEF Emit, TypeOK
  <1>2. Len(todo') = e - 1 /\ e \in Nat /\ e > 0 /\ ll \in Nat /\ lm \in Nat /\ Len(queue) = 0
    BY <1>1 DEF TypeOK
  <1>3. InPlace' /\ Len(todo) <= Len(TypeChar(typing)) /\ queue' = Begun(typing)'
    <2>1. InPlace'
      BY PlaceEmit
    <2>2. Len(todo) <= Len(TypeChar(typing))
      BY DEF InPlace, EndOf
    <2>3. queue' = Begun(typing)'
      <3>1. /\ TypeChar(typing) \in Seq(Seq(Event))
            /\ todo[1] = TypeChar(typing)[Len(TypeChar(typing)) - Len(todo) + 1]
        BY <1>1, CharTypes, TailEnds DEF InPlace
      <3>2. Len(TypeChar(typing)) - Len(todo) + 1 = Len(TypeChar(typing)) - Len(todo')
        BY <1>2, <3>1
      <3>3. Head(todo) = todo[1]
        BY <1>1
      <3> QED
        BY <1>1, <3>1, <3>2, <3>3 DEF Begun
    <2> QED
      BY <2>1, <2>2, <2>3
  <1>4. /\ \A i \in DOMAIN log' : log'[i] = meant'[i]
        /\ EndOf(MeantBy(typing'), meant')
        /\ held' \cap (KeysIn(TypeChar(typing')) \cup Modifiers) = {}
    BY <1>1 DEF TextMeant
  <1>5. ASSUME typing \notin DOMAIN Hex
        PROVE  SinglePlace'
    <2>1. PICK k \in Letter : TypeChar(typing) = << Tap(k, FALSE) >> \/ TypeChar(typing) = << Tap(k, TRUE) >>
      BY <1>5, SingleEmit, Zenon
    <2>2. ASSUME NEW s, TypeChar(typing) = << s >>
          PROVE  e = 1 /\ Len(todo') = 0 /\ queue' = s /\ Begun(typing)' = s
      <3>1. Len(TypeChar(typing)) = 1
        BY <2>2
      <3>2. e = 1 /\ Len(todo') = 0
        BY <1>2, <1>3, <3>1
      <3>3. Begun(typing)' = s
        BY <1>1, <2>2, <3>1, <3>2 DEF Begun
      <3> QED
        BY <1>3, <3>2, <3>3
    <2>3. e = 1 /\ Len(todo') = 0 /\ Len(queue') \in {2, 4} /\ Begun(typing)' = queue'
      <3>1. \E s \in {Tap(k, FALSE), Tap(k, TRUE)} :
              e = 1 /\ Len(todo') = 0 /\ queue' = s /\ Begun(typing)' = s
        BY <2>1, <2>2, Zenon
      <3>2. \A s \in {Tap(k, FALSE), Tap(k, TRUE)} : Len(s) \in {2, 4}
        <4>1. Len(Tap(k, FALSE)) = 2 /\ Len(Tap(k, TRUE)) = 4
          BY TapEvents, ShiftedTapEvents
        <4> QED
          BY <4>1, Zenon
      <3> QED
        BY <3>1, <3>2, Zenon
    <2>4. Ctrl \notin down /\ Shift \notin down /\ lm = ll + 1
      BY <1>2, <1>5, <2>3 DEF TextMeant, SinglePlace
    <2> DEFINE q == Len(queue')
    <2>5. SinglePlace' <=>
            /\ Ctrl \notin down
            /\ Shift \in down <=> (q \in 1..3 /\ q = 4)
            /\ lm = ll + (IF q > 0 /\ q > q \div 2 THEN 1 ELSE 0)
      BY <1>1, <2>3 DEF SinglePlace, Half
    <2> HIDE DEF q, ll, lm
    <2>6. q \in {2, 4}
      BY <2>3 DEF q
    <2> QED
      BY <2>4, <2>5, <2>6
  <1>6. ASSUME typing \in DOMAIN Hex
        PROVE  UnicodePlace'
    <2> DEFINE t == TypeChar(typing)
               q == Len(queue')
    <2>1. PICK k, l \in Letter :
           /\ t \in Seq(Seq(Event)) /\ Len(t) = 6
           /\ t[1] = <<Press(Ctrl), Press(Shift)>>
           /\ t[2] = Tap("KEY_U", FALSE)
           /\ t[3] = <<Release(Ctrl), Release(Shift)>>
           /\ t[4] = Tap(k, FALSE)
           /\ t[5] = Tap(l, FALSE)
           /\ t[6] = Tap("KEY_ENTER", FALSE)
      BY <1>6, UnicodeEmits
    <2> HIDE DEF t
    <2>2. \A i \in 1..6 : Len(t[i]) = 2
      <3>1. Len(t[1]) = 2 /\ Len(t[3]) = 2
        BY <2>1
      <3>2. \A n \in Letter : Len(Tap(n, FALSE)) = 2
        BY TapEvents
      <3>3. Len(t[2]) = 2 /\ Len(t[4]) = 2 /\ Len(t[5]) = 2 /\ Len(t[6]) = 2
        BY <2>1, <3>2, FixedLetters, Zenon
      <3>4. \A i \in 1..6 : i \in {1, 2, 3, 4, 5, 6}
        OBVIOUS
      <3> QED
        BY <3>1, <3>3, <3>4, Zenon
    <2>3. e \in 1..6 /\ queue' = t[7 - e]
      <3>1. Len(t) = 6
        BY <2>1
      <3>2. e <= 6
        BY <1>3, <3>1, Zenon DEF t
      <3>3. e \in 1..6 /\ 6 - (e - 1) = 7 - e
        <4>1. \A n \in Nat : n > 0 /\ n <= 6 => n \in 1..6 /\ 6 - (n - 1) = 7 - n
          OBVIOUS
        <4> QED
          BY <1>2, <3>2, <4>1, Zenon
      <3>4. queue' = t[Len(t) - (e - 1)]
        BY <1>1, <1>2, <1>3 DEF Begun, t
      <3> QED
        BY <3>1, <3>3, <3>4, Zenon
    <2>4. q = 2
      <3>1. \A n \in 1..6 : 7 - n \in 1..6
        OBVIOUS
      <3> QED
        BY <2>2, <2>3, <3>1, Zenon
    <2> DEFINE r == Len(queue)
    <2>5. /\ Ctrl \in down  <=> (e = 5 /\ r < 2) \/ e = 4 \/ (e = 3 /\ r = 2)
          /\ Shift \in down <=> (e = 5 /\ r = 0) \/ e = 4 \/ (e = 3 /\ r > 0)
          /\ lm = ll +
               (IF e \in {5, 6} \/ (e = 4 /\ r = 2) THEN 4
                ELSE IF e \in {3, 4} THEN 3
                ELSE IF r = 2 THEN e + 1 ELSE e)
      BY <1>6 DEF TextMeant, UnicodePlace
    <2>6. UnicodePlace' <=>
            /\ Ctrl \in down  <=> (e - 1 = 5 /\ q < 2) \/ e - 1 = 4 \/ (e - 1 = 3 /\ q = 2)
            /\ Shift \in down <=> (e - 1 = 5 /\ q = 0) \/ e - 1 = 4 \/ (e - 1 = 3 /\ q > 0)
            /\ lm = ll +
                 (IF e - 1 \in {5, 6} \/ (e - 1 = 4 /\ q = 2) THEN 4
                  ELSE IF e - 1 \in {3, 4} THEN 3
                  ELSE IF q = 2 THEN (e - 1) + 1 ELSE e - 1)
      BY <1>1, <1>2 DEF UnicodePlace
    <2>7. r = 0 /\ e \in Nat /\ ll \in Nat
      BY <1>2
    <2> HIDE DEF q, e, ll, lm, r
    <2> QED
      BY <2>3, <2>4, <2>5, <2>6, <2>7
  <1> QED
    BY <1>1, <1>4, <1>5, <1>6 DEF TextMeant

LEMMA TextTaken ==
  ASSUME TypeOK, InPlace, LettersLifted, TextMeant, typing \in Char,
         NEW k \in Key, KeyGoesDown(k) \/ KeyGoesUp(k)
  PROVE  TextMeant'
  <1>1. typing' = typing /\ meant' = meant /\ held' = held
    BY DEF KeyGoesDown, KeyGoesUp, Taken
  <1>2. /\ EndOf(MeantBy(typing'), meant')
        /\ held' \cap (KeysIn(TypeChar(typing')) \cup Modifiers) = {}
    BY <1>1 DEF TextMeant
  <1>3. CASE KeyGoesDown(k)
    <2>1. \A i \in DOMAIN log' : log'[i] = meant'[i]
      BY <1>3, SingleDown, UnicodeDown
    <2>2. IF typing' \in DOMAIN Hex THEN UnicodePlace' ELSE SinglePlace'
      BY <1>1, <1>3, SingleDown, UnicodeDown
    <2> QED
      BY <1>2, <2>1, <2>2 DEF TextMeant
  <1>4. CASE KeyGoesUp(k)
    <2>1. \A i \in DOMAIN log' : log'[i] = meant'[i]
      BY <1>1, <1>4 DEF KeyGoesUp, TextMeant
    <2>2. IF typing' \in DOMAIN Hex THEN UnicodePlace' ELSE SinglePlace'
      BY <1>1, <1>4, SingleUp, UnicodeUp
    <2> QED
      BY <1>2, <2>1, <2>2 DEF TextMeant
  <1> QED
    BY <1>3, <1>4

\* Between messages, and between characters, what is meant has been seen.
LEMMA DoneMeant ==
  ASSUME TypeOK, ~failed, clean, TextInv, MotionInv, Done
  PROVE  log = meant
  <1>1. log \in Seq(Seen) /\ meant \in Seq(Seen) /\ todo = <<>> /\ queue = <<>>
    BY DEF TypeOK, Done
  <1>2. Len(meant) = Len(log) /\ \A i \in DOMAIN log : log[i] = meant[i]
    <2>1. CASE typing = Unknown
      <3>1. MotionPlace /\ MotionEvents = <<>>
        BY <1>1, <2>1 DEF MotionInv, MotionEvents
      <3>2. Len(meant) = Len(log) + Len(<<>>) /\ \A i \in DOMAIN log : log[i] = meant[i]
        BY <3>1 DEF MotionPlace
      <3>3. Len(<<>>) = 0
        OBVIOUS
      <3> QED
        BY <1>1, <3>2, <3>3
    <2>2. CASE typing # Unknown
      <3> DEFINE e == Len(todo)
                 q == Len(queue)
                 lm == Len(meant)
                 ll == Len(log)
      <3>1. TextMeant
        BY <2>2 DEF TextInv
      <3>2. e = 0 /\ q = 0 /\ ll \in Nat /\ lm \in Nat
        BY <1>1
      <3>3. CASE typing \in DOMAIN Hex
        <4>1. lm = ll + (IF e \in {5, 6} \/ (e = 4 /\ q = 2) THEN 4
                         ELSE IF e \in {3, 4} THEN 3
                         ELSE IF q = 2 THEN e + 1 ELSE e)
          BY <3>1, <3>3 DEF TextMeant, UnicodePlace
        <4> HIDE DEF e, q, lm, ll
        <4>2. lm = ll
          BY <3>2, <4>1
        <4> QED
          BY <3>1, <4>2 DEF TextMeant, lm, ll
      <3>4. CASE typing \notin DOMAIN Hex
        <4>1. lm = ll + (IF e = 1 \/ (q > 0 /\ Half) THEN 1 ELSE 0)
          BY <3>1, <3>4 DEF TextMeant, SinglePlace
        <4> HIDE DEF e, q, lm, ll
        <4>2. lm = ll
          BY <3>2, <4>1
        <4> QED
          BY <3>1, <4>2 DEF TextMeant, lm, ll
      <3> QED
        BY <3>3, <3>4
    <2> QED
      BY <2>1, <2>2
  <1>3. \A i \in 1..Len(log) : log[i] = meant[i]
    BY <1>1, <1>2
  <1> QED
    BY <1>1, <1>2, <1>3, SeqEqual

LEMMA TextNextChar ==
  ASSUME TypeOK, ~failed, KeysAccounted, TextInv, MotionInv, NextChar
  PROVE  InPlace' /\ LettersLifted' /\ (clean' => TextMeant')
  <1>1. PICK ch \in Char : typing' = ch
    BY DEF NextChar, TypeOK
  <1> DEFINE t == TypeChar(ch)
             m == MeantBy(ch)
  <1>2. /\ todo' = t /\ queue' = <<>> /\ down' = down /\ held' = held /\ log' = log
        /\ meant' = meant \o m /\ Done
        /\ TypeChar(typing') = t /\ MeantBy(typing') = m
    BY <1>1 DEF NextChar, Done
  <1>3. t \in Seq(Seq(Event)) /\ m \in Seq(Seen) /\ log \in Seq(Seen)
    BY CharTypes DEF TypeOK
  <1>4. down \subseteq held
    BY <1>2, DoneKeys
  <1>5. LettersLifted'
    BY <1>2, <1>4 DEF LettersLifted
  <1>6. InPlace'
    <2> HIDE DEF t
    <2>1. EndOf(t, t)
      BY <1>3 DEF EndOf
    <2> QED
      BY <1>2, <2>1 DEF InPlace
  <1>7. ASSUME clean'
        PROVE  TextMeant'
    <2>1. clean /\ held \cap (KeysIn(t) \cup Modifiers) = {}
      BY <1>2, <1>7, Zenon DEF NextChar, Modifiers
    <2>2. log = meant
      BY <1>2, <2>1, DoneMeant
    <2>3. Shift \notin down /\ Ctrl \notin down
      BY <1>4, <2>1 DEF Modifiers
    <2>4. /\ meant' = log \o m /\ Len(meant') = Len(log) + Len(m)
          /\ \A i \in DOMAIN log' : log'[i] = meant'[i]
          /\ EndOf(m, meant')
      <3> HIDE DEF m
      <3>1. /\ meant' = log \o m /\ log \o m \in Seq(Seen) /\ Len(log \o m) = Len(log) + Len(m)
            /\ \A i \in 1..Len(log) : (log \o m)[i] = log[i]
            /\ \A i \in 1..Len(m) : (log \o m)[Len(log) + i] = m[i]
        BY <1>2, <1>3, <2>2, Joined
      <3>2. DOMAIN log = 1..Len(log) /\ DOMAIN m = 1..Len(m)
        BY <1>3
      <3>3. Len(log) \in Nat /\ Len(m) \in Nat
        BY <1>3
      <3>4. EndOf(m, meant')
        <4>1. Len(m) <= Len(meant') /\ Len(meant') - Len(m) = Len(log)
          BY <3>1, <3>3
        <4> QED
          BY <3>1, <3>2, <4>1, Zenon DEF EndOf
      <3> QED
        BY <1>2, <3>1, <3>2, <3>4
    <2>5. held' \cap (KeysIn(TypeChar(typing')) \cup Modifiers) = {}
      BY <1>2, <2>1
    <2> DEFINE e == Len(todo')
               q == Len(queue')
               lm == Len(meant')
               ll == Len(log')
    <2>6. q = 0 /\ ll \in Nat
      BY <1>2, <1>3
    <2>7. CASE ch \in DOMAIN Hex
      <3>1. e = 6 /\ lm = ll + 4
        <4>1. Len(t) = 6 /\ Len(m) = 4
          BY <2>7, UnicodeEmits
        <4> QED
          BY <1>2, <2>4, <4>1
      <3>2. UnicodePlace' <=>
              /\ Ctrl \in down'  <=> (e = 5 /\ q < 2) \/ e = 4 \/ (e = 3 /\ q = 2)
              /\ Shift \in down' <=> (e = 5 /\ q = 0) \/ e = 4 \/ (e = 3 /\ q > 0)
              /\ lm = ll +
                   (IF e \in {5, 6} \/ (e = 4 /\ q = 2) THEN 4
                    ELSE IF e \in {3, 4} THEN 3
                    ELSE IF q = 2 THEN e + 1 ELSE e)
        BY DEF UnicodePlace
      <3>3. Shift \notin down' /\ Ctrl \notin down'
        BY <1>2, <2>3
      <3> HIDE DEF e, q, lm, ll
      <3>4. UnicodePlace'
        BY <2>6, <3>1, <3>2, <3>3
      <3> QED
        BY <1>1, <1>2, <2>4, <2>5, <2>7, <3>4 DEF TextMeant
    <2>8. CASE ch \notin DOMAIN Hex
      <3>1. e = 1 /\ lm = ll + 1
        <4>1. Len(t) = 1 /\ Len(m) = 1
          <5>1. PICK s, n : t = << s >> /\ m = << n >>
            BY <2>8, SingleEmit, Zenon
          <5> HIDE DEF t, m
          <5> QED
            BY <5>1
        <4> QED
          BY <1>2, <2>4, <4>1
      <3>2. SinglePlace' <=>
              /\ Ctrl \notin down'
              /\ Shift \in down' <=> (e = 0 /\ q \in 1..3 /\ Len(Begun(typing))' = 4)
              /\ lm = ll + (IF e = 1 \/ (q > 0 /\ Half') THEN 1 ELSE 0)
        BY DEF SinglePlace
      <3>3. Shift \notin down' /\ Ctrl \notin down'
        BY <1>2, <2>3
      <3> HIDE DEF e, q, lm, ll
      <3>4. SinglePlace'
        BY <2>6, <3>1, <3>2, <3>3
      <3> QED
        BY <1>1, <1>2, <2>4, <2>5, <2>8, <3>4 DEF TextMeant
    <2> QED
      BY <2>7, <2>8
  <1> QED
    BY <1>5, <1>6, <1>7

LEMMA TextInit == Init => TextInv
  BY DEF Init, TextInv

\* Actions that change nothing of what TextInv is about.
LEMMA TextElse ==
  ASSUME UNCHANGED <<down, typing, todo, queue, log, held, meant>>
  PROVE  /\ InPlace => InPlace'
         /\ LettersLifted => LettersLifted'
         /\ TextMeant => TextMeant'
  <1>1. Begun(typing)' = Begun(typing)
    BY DEF Begun
  <1>2. InPlace' <=> InPlace
    BY <1>1 DEF InPlace
  <1>3. LettersLifted' <=> LettersLifted
    BY DEF LettersLifted
  <1>4. SinglePlace' <=> SinglePlace
    <2>1. Half' <=> Half
      BY <1>1 DEF Half
    <2> QED
      BY <1>1, <2>1 DEF SinglePlace
  <1>5. UnicodePlace' <=> UnicodePlace
    BY DEF UnicodePlace
  <1>6. TextMeant' <=> TextMeant
    BY <1>4, <1>5 DEF TextMeant
  <1> QED
    BY <1>2, <1>3, <1>6

LEMMA TextStep ==
  TypeOK /\ KeysInv /\ TextInv /\ MotionInv /\ [Next]_vars => TextInv'
  <1> SUFFICES ASSUME TypeOK, KeysInv, TextInv, MotionInv, [Next]_vars,
                      typing' # Unknown, ~failed'
               PROVE  InPlace' /\ LettersLifted' /\ (clean' => TextMeant')
    BY DEF TextInv
  <1> DEFINE Kept == InPlace' /\ LettersLifted' /\ (clean' => TextMeant')
             Same3 == typing' = typing /\ failed' = failed /\ clean' = clean
  <1>1. Same3 => typing \in Char /\ InPlace /\ LettersLifted /\ (clean => TextMeant)
    BY DEF TextInv, TypeOK
  <1>2. \A k \in Key, d \in BOOLEAN : ~PressOrRelease(k, d)
    BY DEF PressOrRelease
  <1>3. ASSUME NEW name \in Names, NEW d \in BOOLEAN, KeyMessage(name, d) PROVE FALSE
    BY <1>2, <1>3, NamedKeys DEF KeyMessage
  <1>4. ASSUME NEW which \in {"left", "right", "side"}, NEW d \in BOOLEAN, Button(which, d) PROVE FALSE
    BY <1>2, <1>4, ButtonKeys DEF Button
  <1>5. ASSUME NEW s \in Texts, Text(s) PROVE FALSE
    BY <1>5 DEF Text
  <1>6. ASSUME NEW m \in Moves, Move(m) \/ Wheel(m) PROVE FALSE
    BY <1>6 DEF Move, Wheel
  <1>7. ASSUME NEW vp \in Viewports, NewViewport(vp) PROVE Kept
    BY <1>1, <1>7, TextElse DEF NewViewport, message
  <1>8. CASE UiScale
    BY <1>1, <1>8, TextElse DEF UiScale, message
  <1>9. CASE NextChar
    <2>1. ~failed /\ KeysAccounted
      BY <1>9 DEF NextChar, KeysInv
    <2> QED
      BY <1>9, <2>1, TextNextChar
  <1>10. CASE Emit
    <2>1. Same3 /\ down' = down /\ held' = held /\ queue = <<>>
      BY <1>10 DEF Emit
    <2>2. LettersLifted'
      BY <1>1, <2>1 DEF LettersLifted, TypeOK
    <2> QED
      BY <1>1, <1>10, <2>1, <2>2, PlaceEmit, TextEmit
  <1>11. ~EmitFails
    BY DEF EmitFails
  <1>12. ASSUME NEW k \in Key, KeyGoesDown(k) \/ KeyGoesUp(k) PROVE Kept
    <2>1. Same3
      BY <1>12 DEF KeyGoesDown, KeyGoesUp, Taken
    <2>2. InPlace'
      BY <1>1, <1>12, <2>1, PlaceTaken DEF KeyGoesDown, KeyGoesUp
    <2> QED
      BY <1>1, <1>12, <2>1, <2>2, LiftedTaken, TextTaken
  <1>13. ASSUME AxisMoves PROVE FALSE
    <2>1. Same3 /\ queue # <<>> /\ Head(queue)[1] \in Axis
      BY <1>13 DEF AxisMoves, Taken
    <2>2. Head(queue) = queue[1]
      BY <2>1 DEF TypeOK
    <2>3. queue[1][1] \in Key
      BY <1>1, <2>1, TextQueue
    <2> QED
      BY <2>1, <2>2, <2>3, AxesNoKeys
  <1>14. CASE UNCHANGED vars
    BY <1>1, <1>14, TextElse DEF vars, message
  <1> QED
    BY <1>3, <1>4, <1>5, <1>6, <1>7, <1>8, <1>9, <1>10, <1>11, <1>12, <1>13, <1>14 DEF Next

\* A clean text is seen as the keystrokes it stands for, and a clean motion as
\* the motion, for every text, viewport and motion (text, type_char, move_rel,
\* wheel).
THEOREM SeenAsMeant == Spec => []AsMeant
  <1> DEFINE IInv == TypeOK /\ KeysInv /\ ScaleInv /\ MotionInv /\ TextInv
  <1>1. Init => IInv
    BY TypeInit, KeysInit, ScaleInit, MotionInit, TextInit
  <1>2. IInv /\ [Next]_vars => IInv'
    BY TypeStep, KeysStep, ScaleStep, MotionStep, TextStep
  <1>3. IInv => AsMeant
    BY DoneMeant DEF AsMeant, Idle
  <1> QED
    BY <1>1, <1>2, <1>3, PTL DEF Spec


=============================================================================
