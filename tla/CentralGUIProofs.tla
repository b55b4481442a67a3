--------------------------- MODULE CentralGUIProofs -------------------------
(***************************************************************************)
(* What holds of CentralGUI for any keys, any height of the windows and    *)
(* any number of logs and errors.                                          *)
(***************************************************************************)
EXTENDS CentralGUI, SequenceTheorems, TLAPS

-----------------------------------------------------------------------------
(* Menus                                                                   *)

LEMMA ActionNames ==
    /\ DOMAIN Actions = 1..9 /\ Len(Actions) = 9
    /\ Actions[1] = "Go to" /\ Actions[2] = "Return to base" /\ Actions[3] = "Stop"
    /\ Actions[4] = "Continue" /\ Actions[5] = "Terminate central" /\ Actions[6] = Gap
    /\ Actions[7] = "Freeze" /\ Actions[8] = "Clear" /\ Actions[9] = "Close GUI"
BY DEF Actions

LEMMA GapIsNoName ==
    Gap \notin {"Go to", "Return to base", "Stop", "Continue", "Terminate central", "Freeze", "Clear",
                "Close GUI", "Taxi", "Coordinate", "Execute"}
BY DEF Gap

LEMMA OptionNames ==
    ASSUME NEW a
    PROVE  /\ Len(OptionsOf(a)) = IF a = "Go to" THEN 3 ELSE 2
           /\ DOMAIN OptionsOf(a) = 1..Len(OptionsOf(a))
           /\ \A i \in DOMAIN OptionsOf(a) : OptionsOf(a)[i] # Gap
           /\ OptionsOf(a) \in {OptionsOf("Go to"), OptionsOf("Stop")}
<1>1. Gap # "Taxi" /\ Gap # "Coordinate" /\ Gap # "Execute"
  BY GapIsNoName
<1> DEFINE o == <<"Taxi", "Coordinate", "Execute">>
           q == <<"Taxi", "Execute">>
<1>2. /\ Len(o) = 3 /\ DOMAIN o = 1..3
      /\ o[1] = "Taxi" /\ o[2] = "Coordinate" /\ o[3] = "Execute"
      /\ Len(q) = 2 /\ DOMAIN q = 1..2
      /\ q[1] = "Taxi" /\ q[2] = "Execute"
  OBVIOUS
<1>3. OptionsOf(a) = (IF a = "Go to" THEN o ELSE q) /\ OptionsOf("Go to") = o /\ OptionsOf("Stop") = q
  BY DEF OptionsOf
<1> HIDE DEF o, q
<1>4. (\A i \in 1..3 : o[i] # Gap) /\ (\A i \in 1..2 : q[i] # Gap)
  BY <1>1, <1>2
<1>5. QED BY <1>2, <1>3, <1>4

LEMMA Round ==
    ASSUME NEW n \in {2, 3, 9}, NEW i \in 1..n, NEW by \in {1, -1}
    PROVE  ((i - 1 + by) % n) + 1 = IF by = 1 THEN (IF i = n THEN 1 ELSE i + 1)
                                              ELSE (IF i = 1 THEN n ELSE i - 1)
OBVIOUS

\* The cursor stays on an option, in a menu without gaps.
LEMMA HoverOption ==
    ASSUME NEW menu, NEW n \in {2, 3}, Len(menu) = n, DOMAIN menu = 1..n,
           \A i \in 1..n : menu[i] # Gap, NEW i \in 1..n, NEW by \in {1, -1}
    PROVE  Hover(menu, i, by) \in 1..n
<1> DEFINE k == ((i - 1 + by) % n) + 1
<1>1. k \in 1..n
  BY Round
<1> HIDE DEF k
<1>2. Hover(menu, i, by) = IF menu[k] = Gap THEN ((k - 1 + by) % n) + 1 ELSE k
  BY DEF Hover, k
<1>3. QED BY <1>1, <1>2

\* The cursor of the actions jumps over the gap.
LEMMA HoverAction ==
    ASSUME NEW i \in 1..9, i # 6, NEW by \in {1, -1}
    PROVE  Hover(Actions, i, by) \in 1..9 /\ Hover(Actions, i, by) # 6
<1> DEFINE k == ((i - 1 + by) % 9) + 1
           l == ((k - 1 + by) % 9) + 1
<1>1. k = (IF by = 1 THEN (IF i = 9 THEN 1 ELSE i + 1) ELSE (IF i = 1 THEN 9 ELSE i - 1))
  BY Round
<1>2. k \in 1..9
  BY <1>1
<1> HIDE DEF k
<1>3. l = (IF by = 1 THEN (IF k = 9 THEN 1 ELSE k + 1) ELSE (IF k = 1 THEN 9 ELSE k - 1))
  BY <1>2, Round
<1>4. Hover(Actions, i, by) = IF Actions[k] = Gap THEN l ELSE k
  BY ActionNames DEF Hover, k
<1> HIDE DEF l
<1>5. k = 6 <=> Actions[k] = Gap
  <2>1. k \in {1, 2, 3, 4, 5, 6, 7, 8, 9}
    BY <1>2
  <2>2. \A a \in {1, 2, 3, 4, 5, 7, 8, 9} : Actions[a] # Gap
    BY ActionNames, GapIsNoName
  <2>3. QED BY <2>1, <2>2, ActionNames
<1>6. QED BY <1>1, <1>2, <1>3, <1>4, <1>5

-----------------------------------------------------------------------------
(* Arguments                                                               *)

\* Digits stand before blanks.
Filled(text) == \A i, j \in DOMAIN text : i < j /\ text[i] = Unset => text[j] = Unset

LEMMA TextLength ==
    ASSUME NEW n \in Nat, NEW text \in Texts(n)
    PROVE  Len(text) = n /\ DOMAIN text = 1..n
<1>1. text \in Seq(Digits \cup {Unset})
  BY SeqDef DEF Texts
<1>2. Len(text) \in Nat /\ DOMAIN text = 1..Len(text) /\ DOMAIN text = 1..n
  BY <1>1, LenProperties DEF Texts
<1>3. Len(text) = n
  <2> DEFINE l == Len(text)
  <2>1. l \in Nat /\ 1..l = 1..n
    BY <1>2
  <2> HIDE DEF l
  <2>2. l = n
    BY <2>1
  <2>3. QED BY <2>2 DEF l
<1>4. QED BY <1>2, <1>3

LEMMA BlankText ==
    ASSUME NEW n \in Nat
    PROVE  Blank(n) \in Texts(n) /\ Filled(Blank(n))
BY DEF Blank, Texts, Filled

LEMMA FirstBlankIs ==
    ASSUME NEW n \in Nat, n = 2 \/ n = 4, NEW text \in Texts(n)
    PROVE  /\ FirstBlank(text) \in 1..n + 1
           /\ FirstBlank(text) \in 1..n => text[FirstBlank(text)] = Unset
           /\ \A j \in 1..FirstBlank(text) - 1 : text[j] # Unset
<1> DEFINE First(i) == /\ i \in 1..n => text[i] = Unset
                       /\ \A j \in 1..i - 1 : text[j] # Unset
<1>1. Len(text) = n
  BY TextLength
<1>2. \E i \in 1..n + 1 : First(i)
  <2>1. CASE n = 2
    <3>1. First(1) \/ First(2) \/ First(3)
      BY <2>1
    <3>2. QED BY <2>1, <3>1
  <2>2. CASE n = 4
    <3>1. First(1) \/ First(2) \/ First(3) \/ First(4) \/ First(5)
      BY <2>2
    <3>2. QED BY <2>2, <3>1
  <2>3. QED BY <2>1, <2>2
<1>3. FirstBlank(text) = CHOOSE i \in 1..n + 1 : First(i)
  BY <1>1 DEF FirstBlank
<1> HIDE DEF First
<1>4. FirstBlank(text) \in 1..n + 1 /\ First(FirstBlank(text))
  BY <1>2, <1>3
<1>5. QED BY <1>4 DEF First

LEMMA EditedText ==
    ASSUME NEW n \in Nat, n = 2 \/ n = 4, NEW text \in Texts(n), Filled(text)
    PROVE  /\ \A digit \in Digits : Typed(text, digit) \in Texts(n) /\ Filled(Typed(text, digit))
           /\ Erased(text) \in Texts(n) /\ Filled(Erased(text))
<1> DEFINE k == FirstBlank(text)
<1>1. /\ k \in 1..n + 1
      /\ k \in 1..n => text[k] = Unset
      /\ \A j \in 1..k - 1 : text[j] # Unset
  BY FirstBlankIs
<1>2. Len(text) = n /\ DOMAIN text = 1..n /\ n \in Nat
  BY TextLength
<1> HIDE DEF k
<1>3. \A j \in 1..n : j >= k => text[j] = Unset
  BY <1>1, <1>2 DEF Filled
<1>4. ASSUME NEW digit \in Digits
      PROVE  Typed(text, digit) \in Texts(n) /\ Filled(Typed(text, digit))
  <2>1. Typed(text, digit) = IF k > n THEN text ELSE [text EXCEPT ![k] = digit]
    BY <1>2 DEF Typed, k
  <2>2. CASE k > n
    BY <2>1, <2>2
  <2>3. CASE k \in 1..n
    <3> DEFINE new == [text EXCEPT ![k] = digit]
    <3>1. new \in Texts(n) /\ DOMAIN new = 1..n
      BY <2>3 DEF Texts
    <3>2. \A j \in 1..n : new[j] = IF j = k THEN digit ELSE text[j]
      BY <1>2
    <3> HIDE DEF new
    <3>3. \A j \in 1..n : new[j] = Unset <=> j > k
      BY <1>1, <1>3, <2>3, <3>2, DigitsAssumption
    <3>4. Filled(new)
      BY <2>3, <3>1, <3>3 DEF Filled
    <3>5. QED BY <1>1, <2>1, <2>3, <3>1, <3>4 DEF new
  <2>4. QED BY <1>1, <2>2, <2>3
<1>5. Erased(text) \in Texts(n) /\ Filled(Erased(text))
  <2>1. Erased(text) = IF k - 1 = 0 THEN text ELSE [text EXCEPT ![k - 1] = Unset]
    BY DEF Erased, k
  <2>2. CASE k - 1 = 0
    BY <2>1, <2>2
  <2>3. CASE k - 1 \in 1..n
    <3> DEFINE new == [text EXCEPT ![k - 1] = Unset]
    <3>1. new \in Texts(n) /\ DOMAIN new = 1..n
      BY <2>3 DEF Texts
    <3>2. \A j \in 1..n : new[j] = IF j = k - 1 THEN Unset ELSE text[j]
      BY <1>2
    <3> HIDE DEF new
    <3>3. \A j \in 1..n : new[j] = Unset <=> j >= k - 1
      BY <1>1, <1>3, <2>3, <3>2
    <3>4. Filled(new)
      BY <2>3, <3>1, <3>3 DEF Filled
    <3>5. QED BY <1>1, <2>1, <2>3, <3>1, <3>4 DEF new
  <2>4. QED BY <1>1, <2>2, <2>3
<1>6. QED BY <1>4, <1>5

-----------------------------------------------------------------------------
(* What every turn of the loop keeps                                       *)

\* The cursors: the actions' is on no gap, and that of the options of a selected action is on one
\* of them, printed or about to be.
CursorsInv ==
    /\ actions # 6
    /\ selected => /\ Action \in {"Go to", "Return to base", "Stop", "Continue"}
                   /\ option \in DOMAIN OptionsOf(Action)
                   /\ turn \in {"listen", "key"} => options = OptionsOf(Action)

\* The texts: nothing is left of an argument that the hovered action does not have.
TextsInv ==
    /\ ~selected => option = 1 /\ arg_taxi = Blank(2)
    /\ ~(selected /\ Action = "Go to") => arg_coord = Blank(4)
    /\ Filled(arg_taxi) /\ Filled(arg_coord)

MenuInv == TypeOK /\ CursorsInv /\ TextsInv

LEMMA InvMeans == MenuInv => ArgumentsOfTheAction
BY DEF MenuInv, CursorsInv, TextsInv, ArgumentsOfTheAction, Filled

LEMMA ActionIs ==
    ASSUME TypeOK
    PROVE  /\ actions \in 1..9 /\ Action = Actions[actions]
           /\ Action = "Close GUI" <=> actions = 9
           /\ Action \in {"Terminate central", "Freeze", "Clear"} <=> actions \in {5, 7, 8}
           /\ Action \in {"Go to", "Return to base", "Stop", "Continue"} <=> actions \in {1, 2, 3, 4}
<1>1. actions \in 1..9
  BY DEF TypeOK
<1>2. actions \in {1, 2, 3, 4, 5, 6, 7, 8, 9}
  BY <1>1
<1>3. Action = Actions[actions]
  BY DEF Action
<1>4. CASE actions \in {1, 2, 3, 4}
  BY <1>1, <1>3, <1>4, ActionNames
<1>5. CASE actions \in {5, 7, 8, 9}
  BY <1>1, <1>3, <1>5, ActionNames
<1>6. CASE actions = 6
  BY <1>1, <1>3, <1>6, ActionNames, GapIsNoName
<1>7. QED BY <1>2, <1>4, <1>5, <1>6

LEMMA InitMenu == Init => MenuInv
<1> SUFFICES ASSUME Init PROVE MenuInv
  OBVIOUS
<1>1. /\ Blank(2) \in Texts(2) /\ Filled(Blank(2))
      /\ Blank(4) \in Texts(4) /\ Filled(Blank(4))
  BY BlankText
<1>2. TypeOK
  <2>1. 0 \in 0..MaxLogs /\ 0 \in 0..MaxErrors
    BY BoundsAssumption
  <2>2. /\ lst_topLogs \in Seq(0..taken) /\ lst_bottomLogs \in Seq(0..taken)
        /\ seen \in [{"top", "bottom"} -> Seq(0..taken)]
    BY DEF Init
  <2>3. selected \in BOOLEAN /\ actionExecuted \in BOOLEAN /\ frozen \in BOOLEAN
    BY DEF Init
  <2>4. turn = "listen" /\ screen = "Table" /\ taken \in 0..MaxLogs /\ errors \in 0..MaxErrors
    BY <2>1 DEF Init
  <2>5. views \in 1..2 /\ actions \in 1..9 /\ option \in 1..3 /\ options = <<>>
    BY DEF Init
  <2>6. arg_taxi \in Texts(2) /\ arg_coord \in Texts(4)
    BY <1>1 DEF Init
  <2>7. QED BY <2>2, <2>3, <2>4, <2>5, <2>6 DEF TypeOK
<1>3. CursorsInv /\ TextsInv
  <2>1. actions # 6 /\ option = 1
    BY DEF Init
  <2>2. ~selected /\ arg_taxi = Blank(2) /\ arg_coord = Blank(4)
    BY DEF Init
  <2>3. QED BY <1>1, <2>1, <2>2 DEF CursorsInv, TextsInv
<1>4. QED BY <1>2, <1>3 DEF MenuInv

-----------------------------------------------------------------------------
(* One key                                                                 *)

\* The state of the menus alone.
KeyType ==
    /\ views \in 1..2 /\ actions \in 1..9 /\ selected \in BOOLEAN
    /\ options \in {<<>>, OptionsOf("Go to"), OptionsOf("Stop")} /\ option \in 1..3
    /\ arg_taxi \in Texts(2) /\ arg_coord \in Texts(4)
    /\ actionExecuted \in BOOLEAN /\ frozen \in BOOLEAN

\* One disjunct of Handles per kind of key.
Key ==
    \/ MovesCursor("down") \/ MovesCursor("up")
    \/ ChangesView
    \/ Acts \/ Executes \/ Cancels
    \/ \E digit \in Digits : Edits(Typed(arg_taxi, digit), Typed(arg_coord, digit))
    \/ Edits(Erased(arg_taxi), Erased(arg_coord))
    \/ NothingToDo

\* After a key the menu is about to be printed.
AfterKey ==
    /\ actions' # 6
    /\ selected' => /\ Action' \in {"Go to", "Return to base", "Stop", "Continue"}
                    /\ option' \in DOMAIN OptionsOf(Action')

LEMMA CursorKeys ==
    ASSUME MenuInv, turn = "key", MovesCursor("down") \/ MovesCursor("up") \/ ChangesView
    PROVE  KeyType' /\ AfterKey /\ TextsInv'
<1>1. /\ actions \in 1..9 /\ actions # 6 /\ option \in 1..3
      /\ TypeOK
      /\ selected => /\ Action \in {"Go to", "Return to base", "Stop", "Continue"}
                     /\ option \in DOMAIN OptionsOf(Action) /\ options = OptionsOf(Action)
  BY DEF MenuInv, TypeOK, CursorsInv
<1>2. ASSUME NEW by \in {1, -1} PROVE Hover(Actions, actions, by) \in 1..9 /\ Hover(Actions, actions, by) # 6
  BY <1>1, HoverAction
<1>3. ASSUME NEW by \in {1, -1}, selected PROVE Hover(options, option, by) \in DOMAIN OptionsOf(Action)
  <2> DEFINE n == Len(OptionsOf(Action))
  <2>1. n \in {2, 3} /\ DOMAIN options = 1..n /\ Len(options) = n /\ option \in 1..n
        /\ \A i \in 1..n : options[i] # Gap
    BY <1>1, <1>3, OptionNames
  <2>2. DOMAIN OptionsOf(Action) = 1..n
    BY OptionNames
  <2> HIDE DEF n
  <2>3. QED BY <2>1, <2>2, HoverOption
<1>4. DOMAIN OptionsOf(Action) \subseteq 1..3
  <2>1. DOMAIN OptionsOf(Action) = 1..Len(OptionsOf(Action)) /\ Len(OptionsOf(Action)) \in {2, 3}
    BY OptionNames
  <2>2. QED BY <2>1
<1>5. CASE ChangesView
  <2>1. Hover(Views, views, 1) \in 1..2
    <3>1. Len(Views) = 2 /\ DOMAIN Views = 1..2 /\ Views[1] = "Logs" /\ Views[2] = "Table"
      BY DEF Views
    <3>2. \A i \in 1..2 : Views[i] # Gap
      BY <3>1 DEF Gap
    <3>3. views \in 1..2
      BY <1>1 DEF TypeOK
    <3>4. QED BY <3>1, <3>2, <3>3, HoverOption
  <2>2. QED
    BY <1>1, <1>5, <2>1 DEF ChangesView, MenuInv, TypeOK, TextsInv, KeyType, AfterKey, Action
<1>6. ASSUME NEW key \in {"down", "up"}, MovesCursor(key)
      PROVE  KeyType' /\ AfterKey /\ TextsInv'
  <2>1. Moves[key] \in {1, -1}
    BY DEF Moves
  <2>2. CASE selected
    <3>1. /\ option' = Hover(options, option, Moves[key]) /\ UNCHANGED <<actions, selected>>
          /\ actionExecuted' = FALSE
          /\ UNCHANGED <<views, options, arg_taxi, arg_coord, frozen>>
      BY <1>6, <2>2 DEF MovesCursor
    <3>2. option' \in DOMAIN OptionsOf(Action)
      BY <1>3, <2>1, <2>2, <3>1
    <3>3. QED
      BY <1>1, <1>4, <2>2, <3>1, <3>2 DEF MenuInv, TypeOK, TextsInv, KeyType, AfterKey, Action
  <2>3. CASE ~selected
    <3>1. /\ actions' = Hover(Actions, actions, Moves[key]) /\ UNCHANGED <<option, selected>>
          /\ actionExecuted' = FALSE
          /\ UNCHANGED <<views, options, arg_taxi, arg_coord, frozen>>
      BY <1>6, <2>3 DEF MovesCursor
    <3>2. actions' \in 1..9 /\ actions' # 6
      BY <1>2, <2>1, <3>1
    <3>3. QED
      BY <1>1, <2>3, <3>1, <3>2 DEF MenuInv, TypeOK, TextsInv, KeyType, AfterKey
  <2>4. QED BY <2>2, <2>3
<1>7. QED BY <1>5, <1>6
LEMMA ActionKeys ==
    ASSUME MenuInv, turn = "key", Acts \/ Executes \/ Cancels
    PROVE  KeyType' /\ AfterKey /\ TextsInv'
<1>1. /\ TypeOK /\ actions # 6 /\ actions \in 1..9
  BY DEF MenuInv, CursorsInv, TypeOK
<1>2. /\ Blank(2) \in Texts(2) /\ Filled(Blank(2))
      /\ Blank(4) \in Texts(4) /\ Filled(Blank(4))
  BY BlankText
<1>3. CASE Acts
  <2>1. /\ ~selected /\ Action # "Close GUI"
        /\ actionExecuted' \in BOOLEAN /\ frozen' \in BOOLEAN /\ selected' \in BOOLEAN
        /\ selected' => Action \notin {"Terminate central", "Freeze", "Clear"}
        /\ UNCHANGED <<views, actions, options, option, arg_taxi, arg_coord>>
    BY <1>1, <1>3 DEF Acts, TypeOK
  <2>2. option = 1 /\ arg_taxi = Blank(2) /\ arg_coord = Blank(4)
    BY <2>1 DEF MenuInv, TextsInv
  <2>3. selected' => Action' \in {"Go to", "Return to base", "Stop", "Continue"}
    <3>1. SUFFICES ASSUME selected' PROVE Action \in {"Go to", "Return to base", "Stop", "Continue"}
      BY <2>1 DEF Action
    <3>2. actions \notin {5, 7, 8, 9}
      BY <1>1, <2>1, <3>1, ActionIs
    <3>3. actions \in {1, 2, 3, 4}
      BY <1>1, <3>2
    <3>4. QED BY <1>1, <3>3, ActionIs
  <2>4. option' \in DOMAIN OptionsOf(Action')
    <3>1. \A a : 1 \in DOMAIN OptionsOf(a)
      <4>1. \A a : DOMAIN OptionsOf(a) = 1..Len(OptionsOf(a)) /\ Len(OptionsOf(a)) \in {2, 3}
        BY OptionNames
      <4>2. QED BY <4>1
    <3>2. QED BY <2>1, <2>2, <3>1
  <2>5. KeyType'
    BY <1>1, <2>1 DEF KeyType, TypeOK
  <2>6. AfterKey
    BY <1>1, <2>1, <2>3, <2>4 DEF AfterKey
  <2>7. TextsInv'
    BY <1>2, <2>1, <2>2 DEF TextsInv
  <2>8. QED BY <2>5, <2>6, <2>7
<1>4. CASE Executes \/ Cancels
  <2>1. /\ actionExecuted' \in BOOLEAN /\ selected' = FALSE /\ option' = 1
        /\ arg_taxi' = Blank(2) /\ arg_coord' = Blank(4)
        /\ UNCHANGED <<views, actions, options, frozen>>
    BY <1>4 DEF Executes, Cancels, Deselects
  <2>2. ~selected' /\ selected' \in BOOLEAN
    BY <2>1
  <2>3. KeyType'
    <3>1. arg_taxi' \in Texts(2) /\ arg_coord' \in Texts(4) /\ option' \in 1..3
      BY <1>2, <2>1
    <3>2. /\ views' \in 1..2 /\ actions' \in 1..9 /\ frozen' \in BOOLEAN
          /\ options' \in {<<>>, OptionsOf("Go to"), OptionsOf("Stop")}
      BY <1>1, <2>1 DEF TypeOK
    <3>3. QED BY <2>1, <2>2, <3>1, <3>2 DEF KeyType
  <2>4. AfterKey
    BY <1>1, <2>1, <2>2 DEF AfterKey
  <2>5. TextsInv'
    BY <1>2, <2>1, <2>2 DEF TextsInv
  <2>6. QED BY <2>3, <2>4, <2>5
<1>5. QED BY <1>3, <1>4

LEMMA EditingKeys ==
    ASSUME MenuInv, turn = "key", NEW taxi \in Texts(2), NEW coord \in Texts(4),
           Filled(taxi), Filled(coord), Edits(taxi, coord)
    PROVE  KeyType' /\ AfterKey /\ TextsInv'
<1>1. /\ TypeOK /\ CursorsInv /\ TextsInv
      /\ selected /\ actionExecuted' = FALSE
      /\ arg_taxi' = IF option = 1 THEN taxi ELSE arg_taxi
      /\ arg_coord' = IF option = 2 /\ Action = "Go to" THEN coord ELSE arg_coord
      /\ UNCHANGED <<views, actions, selected, options, option, frozen>>
      /\ Action' = Action
  BY DEF MenuInv, Edits, Action
<1>2. KeyType'
  <2>1. arg_taxi' \in Texts(2) /\ arg_coord' \in Texts(4)
    BY <1>1 DEF TypeOK
  <2>2. QED BY <1>1, <2>1 DEF KeyType, TypeOK
<1>3. AfterKey
  BY <1>1 DEF AfterKey, CursorsInv
<1>4. TextsInv'
  BY <1>1 DEF TextsInv
<1>5. QED BY <1>2, <1>3, <1>4

LEMMA EveryKey ==
    ASSUME MenuInv, turn = "key", Key
    PROVE  KeyType' /\ AfterKey /\ TextsInv'
<1>1. /\ arg_taxi \in Texts(2) /\ arg_coord \in Texts(4)
      /\ Filled(arg_taxi) /\ Filled(arg_coord)
  BY DEF MenuInv, TypeOK, TextsInv
<1>2. CASE NothingToDo
  <2>1. /\ UNCHANGED <<views, actions, selected, options, option, arg_taxi, arg_coord, frozen>>
        /\ actionExecuted' = FALSE /\ Action' = Action
    BY <1>2 DEF NothingToDo, menuVars, Action
  <2>2. KeyType'
    BY <2>1 DEF KeyType, MenuInv, TypeOK
  <2>3. AfterKey
    BY <2>1 DEF AfterKey, MenuInv, CursorsInv
  <2>4. TextsInv'
    BY <2>1 DEF MenuInv, TextsInv
  <2>5. QED BY <2>2, <2>3, <2>4
<1>3. ASSUME NEW digit \in Digits, Edits(Typed(arg_taxi, digit), Typed(arg_coord, digit))
      PROVE  KeyType' /\ AfterKey /\ TextsInv'
  <2>1. /\ Typed(arg_taxi, digit) \in Texts(2) /\ Filled(Typed(arg_taxi, digit))
        /\ Typed(arg_coord, digit) \in Texts(4) /\ Filled(Typed(arg_coord, digit))
    BY <1>1, EditedText
  <2>2. QED BY <1>3, <2>1, EditingKeys
<1>4. CASE Edits(Erased(arg_taxi), Erased(arg_coord))
  <2>1. /\ Erased(arg_taxi) \in Texts(2) /\ Filled(Erased(arg_taxi))
        /\ Erased(arg_coord) \in Texts(4) /\ Filled(Erased(arg_coord))
    BY <1>1, EditedText
  <2>2. QED BY <1>4, <2>1, EditingKeys
<1>5. QED BY <1>2, <1>3, <1>4, CursorKeys, ActionKeys DEF Key

-----------------------------------------------------------------------------
(* The loop                                                                *)

LogType ==
    /\ taken \in 0..MaxLogs /\ errors \in 0..MaxErrors
    /\ lst_topLogs \in Seq(0..taken) /\ lst_bottomLogs \in Seq(0..taken)
    /\ seen \in [{"top", "bottom"} -> Seq(0..taken)]

Loop == turn \in {"listen", "key", "print", "over"} /\ screen \in {"Logs", "Table"}

LEMMA TypeParts ==
    /\ TypeOK <=> KeyType /\ LogType /\ Loop
    /\ TypeOK' <=> KeyType' /\ LogType' /\ Loop'
BY DEF TypeOK, KeyType, LogType, Loop

LEMMA TrimmedType ==
    ASSUME NEW S, NEW lst \in Seq(S)
    PROVE  Trimmed(lst) \in Seq(S)
<1>1. CASE Len(lst) > HEIGHT
  <2>1. lst # <<>>
    BY <1>1, HeightAssumption
  <2>2. QED BY <1>1, <2>1 DEF Trimmed
<1>2. CASE ~(Len(lst) > HEIGHT)
  BY <1>2 DEF Trimmed
<1>3. QED BY <1>1, <1>2

LEMMA ListeningTypes ==
    ASSUME LogType, \/ \E window \in {"top", "bottom"} : TakesLog(window)
                    \/ TakesError
                    \/ TakesNothing
    PROVE  LogType'
<1>1. ASSUME NEW window \in {"top", "bottom"}, TakesLog(window) PROVE LogType'
  <2> DEFINE S == 0..taken + 1
  <2>1. /\ taken' = taken + 1 /\ taken < MaxLogs /\ taken \in 0..MaxLogs /\ errors' = errors
        /\ errors \in 0..MaxErrors
    BY <1>1 DEF TakesLog, LogType
  <2>2. taken' \in 0..MaxLogs /\ 0..taken \subseteq S /\ taken + 1 \in S /\ 0..taken' = S
    BY <2>1, BoundsAssumption
  <2>3. /\ lst_topLogs \in Seq(S) /\ lst_bottomLogs \in Seq(S)
        /\ seen \in [{"top", "bottom"} -> Seq(S)]
    <3>1. \A s \in Seq(0..taken) : s \in Seq(S)
      BY <2>2, SeqMonotonic
    <3>2. QED BY <3>1 DEF LogType
  <2>4. /\ Trimmed(Append(lst_topLogs, taken + 1)) \in Seq(S)
        /\ Trimmed(Append(lst_bottomLogs, taken + 1)) \in Seq(S)
        /\ \A s \in Seq(S) : Append(s, taken + 1) \in Seq(S)
    <3>1. \A s \in Seq(S) : Append(s, taken + 1) \in Seq(S)
      BY <2>2, AppendProperties
    <3>2. QED BY <2>3, <3>1, TrimmedType
  <2> HIDE DEF S
  <2>5. CASE frozen
    BY <1>1, <2>1, <2>2, <2>3, <2>5 DEF TakesLog, logVars, LogType
  <2>6. CASE ~frozen
    <3>1. seen' = [seen EXCEPT ![window] = Append(@, taken + 1)]
      BY <1>1, <2>6 DEF TakesLog, Sees
    <3>2. seen' \in [{"top", "bottom"} -> Seq(S)]
      BY <2>3, <2>4, <3>1
    <3>3. lst_topLogs' \in Seq(S) /\ lst_bottomLogs' \in Seq(S)
      BY <1>1, <2>3, <2>4, <2>6 DEF TakesLog
    <3>4. QED BY <2>1, <2>2, <3>2, <3>3 DEF LogType
  <2>7. QED BY <2>5, <2>6
<1>2. CASE TakesError
  <2>1. /\ errors' \in 0..MaxErrors /\ taken' = taken /\ lst_bottomLogs' = lst_bottomLogs
        /\ 0 \in 0..taken
    BY <1>2, BoundsAssumption DEF TakesError, LogType
  <2>2. CASE frozen
    BY <1>2, <2>1, <2>2 DEF TakesError, LogType
  <2>3. CASE ~frozen
    <3>1. /\ lst_topLogs' = Append(lst_topLogs, 0)
          /\ seen' = [seen EXCEPT !["top"] = Append(@, 0)]
      BY <1>2, <2>3 DEF TakesError, Sees, Error
    <3>2. QED BY <2>1, <3>1 DEF LogType
  <2>4. QED BY <2>2, <2>3
<1>3. CASE TakesNothing
  BY <1>3 DEF TakesNothing, logVars, topicVars, LogType
<1>4. QED BY <1>1, <1>2, <1>3

LEMMA ClearsOrKeeps ==
    ASSUME Key
    PROVE  \/ UNCHANGED logVars
           \/ /\ lst_topLogs' = <<>> /\ lst_bottomLogs' = <<>>
              /\ seen' = [w \in DOMAIN seen |-> <<>>]
BY DEF Key, MovesCursor, ChangesView, Acts, Executes, Cancels, Deselects, Edits, NothingToDo, logVars

LEMMA KeyLogs ==
    ASSUME LogType, Key, UNCHANGED topicVars
    PROVE  LogType'
<1>1. CASE UNCHANGED logVars
  BY <1>1 DEF logVars, topicVars, LogType
<1>2. CASE /\ lst_topLogs' = <<>> /\ lst_bottomLogs' = <<>>
           /\ seen' = [w \in DOMAIN seen |-> <<>>]
  BY <1>2 DEF topicVars, LogType
<1>3. QED BY <1>1, <1>2, ClearsOrKeeps
LEMMA StepMenu == MenuInv /\ [Next]_vars => MenuInv'
<1> SUFFICES ASSUME MenuInv, [Next]_vars PROVE MenuInv'
  OBVIOUS
<1>1. TypeOK /\ KeyType /\ LogType /\ Loop /\ CursorsInv /\ TextsInv
  BY TypeParts DEF MenuInv
<1>2. ASSUME UNCHANGED <<menuVars, actionExecuted, frozen>>, LogType', turn' # "print" => turn' \in {"key", "over"},
             screen' = screen, turn' = "key" => turn \in {"listen", "key"}
      PROVE  MenuInv'
  <2>1. /\ UNCHANGED <<views, actions, selected, options, option, arg_taxi, arg_coord>>
        /\ UNCHANGED <<actionExecuted, frozen>> /\ Action' = Action
    BY <1>2 DEF menuVars, Action
  <2>2. KeyType'
    BY <1>1, <2>1 DEF KeyType
  <2>3. TypeOK'
    BY <1>1, <1>2, <2>2, TypeParts DEF Loop
  <2>4. CursorsInv'
    BY <1>1, <1>2, <2>1 DEF CursorsInv
  <2>5. TextsInv'
    BY <1>1, <2>1 DEF TextsInv
  <2>6. QED BY <2>3, <2>4, <2>5 DEF MenuInv
<1>3. CASE Listens
  <2>1. LogType'
    BY <1>1, <1>3, ListeningTypes DEF Listens
  <2>2. turn = "listen" /\ turn' = "key" /\ UNCHANGED <<menuVars, actionExecuted, frozen, screen>>
    BY <1>3 DEF Listens
  <2>3. QED BY <1>2, <2>1, <2>2
<1>4. CASE Handles
  <2>1. turn = "key" /\ turn' = "print" /\ Key /\ screen' = screen /\ UNCHANGED topicVars
    BY <1>4 DEF Handles, Key
  <2>2. KeyType' /\ AfterKey /\ TextsInv'
    BY <2>1, EveryKey
  <2>3. LogType'
    BY <1>1, <2>1, KeyLogs
  <2>4. TypeOK'
    BY <1>1, <2>1, <2>2, <2>3, TypeParts DEF Loop
  <2>5. CursorsInv'
    BY <2>1, <2>2 DEF AfterKey, CursorsInv
  <2>6. QED BY <2>2, <2>4, <2>5 DEF MenuInv
<1>5. CASE NoKey \/ Quits
  <2>1. LogType'
    BY <1>1, <1>5 DEF NoKey, Quits, logVars, topicVars, LogType
  <2>2. turn' \in {"print", "over"} /\ UNCHANGED <<menuVars, actionExecuted, frozen, screen>>
    BY <1>5 DEF NoKey, Quits
  <2>3. QED BY <1>2, <2>1, <2>2
<1>6. CASE Prints
  <2>1. /\ turn' = "listen" /\ options' = (IF selected THEN OptionsOf(Action) ELSE options)
        /\ screen' = Views[views] /\ Action' = Action
        /\ UNCHANGED <<views, actions, selected, option, arg_taxi, arg_coord, actionExecuted, frozen>>
        /\ UNCHANGED <<logVars, topicVars>>
    BY <1>6 DEF Prints, Action
  <2>2. LogType'
    BY <1>1, <2>1 DEF logVars, topicVars, LogType
  <2>3. screen' \in {"Logs", "Table"}
    <3>0. views \in 1..2
      BY <1>1 DEF KeyType
    <3>1. views = 1 \/ views = 2
      BY <3>0
    <3>2. Views[1] = "Logs" /\ Views[2] = "Table"
      BY DEF Views
    <3>3. QED BY <2>1, <3>1, <3>2
  <2>4. options' \in {<<>>, OptionsOf("Go to"), OptionsOf("Stop")}
    BY <1>1, <2>1, OptionNames DEF KeyType
  <2>5. KeyType'
    BY <1>1, <2>1, <2>4 DEF KeyType
  <2>6. TypeOK'
    BY <2>1, <2>2, <2>3, <2>5, TypeParts DEF Loop
  <2>7. CursorsInv'
    BY <1>1, <2>1 DEF CursorsInv
  <2>8. TextsInv'
    BY <1>1, <2>1 DEF TextsInv
  <2>9. QED BY <2>6, <2>7, <2>8 DEF MenuInv
<1>7. CASE UNCHANGED vars
  <2>1. /\ UNCHANGED <<menuVars, actionExecuted, frozen, screen, turn, logVars, topicVars>>
    BY <1>7 DEF vars
  <2>2. UNCHANGED <<views, actions, selected, options, option, arg_taxi, arg_coord>> /\ Action' = Action
    BY <2>1 DEF menuVars, Action
  <2>3. KeyType' /\ LogType'
    BY <1>1, <2>1, <2>2 DEF KeyType, LogType, logVars, topicVars
  <2>4. TypeOK'
    BY <1>1, <2>1, <2>3, TypeParts DEF Loop
  <2>5. CursorsInv' /\ TextsInv'
    BY <1>1, <2>1, <2>2 DEF CursorsInv, TextsInv
  <2>6. QED BY <2>4, <2>5 DEF MenuInv
<1>8. QED BY <1>3, <1>4, <1>5, <1>6, <1>7 DEF Next

\* Whatever keys and logs come, the cursors stay within the menus, what has been typed fits its
\* field, and the windows hold logs that have come.
THEOREM TypeCorrect == Spec => []TypeOK
<1>1. MenuInv => TypeOK
  BY DEF MenuInv
<1>2. QED BY <1>1, InitMenu, StepMenu, PTL DEF Spec

\* Whatever keys come, in whatever order with logs and prints, what has been typed belongs to the
\* action under the cursor, and the cursor to the options that are printed.
THEOREM ArgumentsFit == Spec => []ArgumentsOfTheAction
BY InitMenu, StepMenu, InvMeans, PTL DEF Spec

-----------------------------------------------------------------------------
(* The windows                                                             *)

LEMMA SuffixMeans ==
    ASSUME NEW S, NEW s \in Seq(S), NEW t \in Seq(S)
    PROVE  IsSuffix(s, t) <=> /\ Len(s) <= Len(t)
                              /\ \A i \in 1..Len(s) : s[i] = t[Len(t) - Len(s) + i]
<1> DEFINE m == Len(s)
           n == Len(t)
           r == Reverse(s)
           q == Reverse(t)
<1>1. m \in Nat /\ n \in Nat
  BY LenProperties
<1>2. /\ r \in Seq(S) /\ Len(r) = m /\ \A i \in 1..m : r[i] = s[m - i + 1]
      /\ q \in Seq(S) /\ Len(q) = n /\ \A i \in 1..n : q[i] = t[n - i + 1]
  <2>1. ASSUME NEW u \in Seq(S)
        PROVE  /\ Reverse(u) \in Seq(S) /\ Len(Reverse(u)) = Len(u)
               /\ \A i \in 1..Len(u) : Reverse(u)[i] = u[Len(u) - i + 1]
    <3>1. Len(u) \in Nat /\ \A i \in 1..Len(u) : u[Len(u) - i + 1] \in S
      BY ElementOfSeq, LenProperties
    <3>2. QED BY <3>1 DEF Reverse
  <2>2. QED BY <2>1
<1> HIDE DEF r, q
<1>3. IsSuffix(s, t) <=> m <= n /\ SubSeq(r, 1, m) = SubSeq(q, 1, m)
  BY <1>2 DEF IsSuffix, IsPrefix, r, q
<1>4. ASSUME m <= n
      PROVE  SubSeq(r, 1, m) = SubSeq(q, 1, m) <=> \A i \in 1..m : r[i] = q[i]
  <2>1. /\ SubSeq(r, 1, m) \in Seq(S) /\ Len(SubSeq(r, 1, m)) = m
        /\ \A i \in 1..m : SubSeq(r, 1, m)[i] = r[i]
        /\ SubSeq(q, 1, m) \in Seq(S) /\ Len(SubSeq(q, 1, m)) = m
        /\ \A i \in 1..m : SubSeq(q, 1, m)[i] = q[i]
    <3>1. (\A i \in 1..m : r[i] \in S) /\ (\A i \in 1..m : q[i] \in S)
      BY <1>1, <1>2, <1>4, ElementOfSeq
    <3>2. QED BY <1>1, <3>1, SubSeqProperties
  <2>2. QED BY <2>1, SeqEqual
<1>5. ASSUME m <= n
      PROVE  (\A i \in 1..m : r[i] = q[i]) <=> \A i \in 1..m : s[i] = t[n - m + i]
  <2>1. ASSUME \A i \in 1..m : r[i] = q[i], NEW i \in 1..m PROVE s[i] = t[n - m + i]
    <3>1. m - i + 1 \in 1..m /\ m - i + 1 \in 1..n
      BY <1>1, <1>5
    <3>2. r[m - i + 1] = s[m - (m - i + 1) + 1] /\ q[m - i + 1] = t[n - (m - i + 1) + 1]
      BY <1>2, <3>1
    <3>3. m - (m - i + 1) + 1 = i /\ n - (m - i + 1) + 1 = n - m + i
      BY <1>1
    <3>4. QED BY <2>1, <3>1, <3>2, <3>3
  <2>2. ASSUME \A i \in 1..m : s[i] = t[n - m + i], NEW i \in 1..m PROVE r[i] = q[i]
    <3>1. m - i + 1 \in 1..m /\ n - m + (m - i + 1) = n - i + 1 /\ i \in 1..n
      BY <1>1, <1>5
    <3>2. QED BY <1>2, <2>2, <3>1
  <2>3. QED BY <2>1, <2>2
<1>6. QED BY <1>3, <1>4, <1>5

LEMMA SuffixSteps ==
    ASSUME NEW S, NEW s \in Seq(S), NEW t \in Seq(S), IsSuffix(s, t)
    PROVE  /\ \A x \in S : IsSuffix(Append(s, x), Append(t, x))
           /\ s # <<>> => IsSuffix(Tail(s), t)
<1> DEFINE m == Len(s)
           n == Len(t)
<1>1. m \in Nat /\ n \in Nat /\ m <= n /\ \A i \in 1..m : s[i] = t[n - m + i]
  BY SuffixMeans, LenProperties
<1>2. ASSUME NEW x \in S PROVE IsSuffix(Append(s, x), Append(t, x))
  <2>1. /\ Append(s, x) \in Seq(S) /\ Len(Append(s, x)) = m + 1
        /\ (\A i \in 1..m : Append(s, x)[i] = s[i]) /\ Append(s, x)[m + 1] = x
        /\ Append(t, x) \in Seq(S) /\ Len(Append(t, x)) = n + 1
        /\ (\A i \in 1..n : Append(t, x)[i] = t[i]) /\ Append(t, x)[n + 1] = x
    BY AppendProperties
  <2>2. ASSUME NEW i \in 1..m + 1 PROVE Append(s, x)[i] = Append(t, x)[(n + 1) - (m + 1) + i]
    <3>1. CASE i = m + 1
      <4>1. (n + 1) - (m + 1) + i = n + 1
        BY <1>1, <3>1
      <4>2. QED BY <2>1, <3>1, <4>1
    <3>2. CASE i \in 1..m
      <4>1. (n + 1) - (m + 1) + i = n - m + i /\ n - m + i \in 1..n
        BY <1>1, <3>2
      <4>2. QED BY <1>1, <2>1, <3>2, <4>1
    <3>3. QED BY <1>1, <3>1, <3>2
  <2>3. m + 1 <= n + 1
    BY <1>1
  <2>4. QED BY <2>1, <2>2, <2>3, SuffixMeans
<1>3. ASSUME s # <<>> PROVE IsSuffix(Tail(s), t)
  <2>1. Tail(s) \in Seq(S) /\ Len(Tail(s)) = m - 1 /\ \A i \in 1..m - 1 : Tail(s)[i] = s[i + 1]
    BY <1>3, HeadTailProperties
  <2>2. ASSUME NEW i \in 1..m - 1 PROVE Tail(s)[i] = t[n - (m - 1) + i]
    <3>1. i + 1 \in 1..m /\ n - m + (i + 1) = n - (m - 1) + i
      BY <1>1
    <3>2. QED BY <1>1, <2>1, <3>1
  <2>3. m - 1 <= n
    BY <1>1
  <2>4. QED BY <2>1, <2>2, <2>3, SuffixMeans
<1>4. QED BY <1>2, <1>3

LEMMA EmptyWindow == Shows(<<>>, <<>>)
<1> DEFINE nothing == <<>>
<1>1. nothing \in Seq(Nat) /\ Len(nothing) = 0
  BY EmptySeq
<1> HIDE DEF nothing
<1>2. IsSuffix(nothing, nothing)
  <2>1. /\ Len(nothing) <= Len(nothing)
        /\ \A i \in 1..Len(nothing) : nothing[i] = nothing[Len(nothing) - Len(nothing) + i]
    BY <1>1
  <2>2. QED BY <1>1, <2>1, SuffixMeans
<1>3. QED BY <1>1, <1>2 DEF Shows, nothing

\* A log comes, or an error.
LEMMA WindowSteps ==
    ASSUME NEW S, NEW lst \in Seq(S), NEW history \in Seq(S), Shows(lst, history), NEW x \in S
    PROVE  /\ Shows(Trimmed(Append(lst, x)), Append(history, x))
           /\ Shows(Append(lst, x), Append(history, x))
<1> DEFINE longer == Append(lst, x)
           all == Append(history, x)
<1>1. /\ longer \in Seq(S) /\ Len(longer) = Len(lst) + 1 /\ longer # <<>>
      /\ all \in Seq(S) /\ Len(all) = Len(history) + 1
      /\ Len(lst) \in Nat /\ Len(history) \in Nat
  BY AppendProperties, LenProperties
<1>2. IsSuffix(longer, all)
  BY SuffixSteps DEF Shows
<1>3. Len(lst) >= Len(history) \/ Len(lst) >= HEIGHT
  BY DEF Shows
<1> HIDE DEF longer, all
<1>4. Shows(longer, all)
  BY <1>1, <1>2, <1>3, HeightAssumption DEF Shows
<1>5. Shows(Trimmed(longer), all)
  <2>1. CASE Len(longer) > HEIGHT
    <3>1. Len(Tail(longer)) = Len(longer) - 1
      BY <1>1, HeadTailProperties
    <3>2. IsSuffix(Tail(longer), all)
      BY <1>1, <1>2, SuffixSteps
    <3>3. Len(Tail(longer)) >= HEIGHT
      BY <1>1, <2>1, <3>1, HeightAssumption
    <3>4. QED BY <2>1, <3>2, <3>3 DEF Trimmed, Shows
  <2>2. CASE ~(Len(longer) > HEIGHT)
    BY <1>4, <2>2 DEF Trimmed
  <2>3. QED BY <2>1, <2>2
<1>6. QED BY <1>4, <1>5 DEF longer, all
LogsInv == LogType /\ NewestLogs

LEMMA InitLogs == Init => LogsInv
<1> SUFFICES ASSUME Init PROVE LogsInv
  OBVIOUS
<1>1. LogType
  BY InitMenu DEF MenuInv, TypeOK, LogType
<1>2. /\ lst_topLogs = <<>> /\ lst_bottomLogs = <<>>
      /\ seen["top"] = <<>> /\ seen["bottom"] = <<>>
  BY DEF Init
<1>3. Shows(<<>>, <<>>)
  BY EmptyWindow
<1>4. QED BY <1>1, <1>2, <1>3 DEF LogsInv, NewestLogs

LEMMA StepLogs == LogsInv /\ [Next]_vars => LogsInv'
<1> SUFFICES ASSUME LogsInv, [Next]_vars PROVE LogsInv'
  OBVIOUS
<1>1. /\ LogType /\ Shows(lst_topLogs, seen["top"]) /\ Shows(lst_bottomLogs, seen["bottom"])
      /\ lst_topLogs \in Seq(Nat) /\ lst_bottomLogs \in Seq(Nat)
      /\ seen \in [{"top", "bottom"} -> Seq(Nat)]
  <2>1. taken \in Nat /\ 0..taken \subseteq Nat
    BY BoundsAssumption DEF LogsInv, LogType
  <2>2. \A s \in Seq(0..taken) : s \in Seq(Nat)
    BY <2>1, SeqMonotonic
  <2>3. QED BY <2>2 DEF LogsInv, NewestLogs, LogType
<1>2. CASE UNCHANGED <<logVars, topicVars>>
  BY <1>1, <1>2 DEF LogsInv, LogType, NewestLogs, logVars, topicVars
<1>3. CASE Listens
  <2>1. \/ \E window \in {"top", "bottom"} : TakesLog(window)
        \/ TakesError
        \/ TakesNothing
    BY <1>3 DEF Listens
  <2>2. LogType'
    BY <1>1, <2>1, ListeningTypes
  <2>3. \A x \in Nat : /\ Shows(Trimmed(Append(lst_topLogs, x)), Append(seen["top"], x))
                       /\ Shows(Append(lst_topLogs, x), Append(seen["top"], x))
                       /\ Shows(Trimmed(Append(lst_bottomLogs, x)), Append(seen["bottom"], x))
    BY <1>1, WindowSteps
  <2>4. taken + 1 \in Nat /\ Error \in Nat
    BY BoundsAssumption DEF LogsInv, LogType, Error
  <2>5. CASE TakesLog("top") /\ ~frozen
    <3>1. /\ lst_topLogs' = Trimmed(Append(lst_topLogs, taken + 1))
          /\ lst_bottomLogs' = lst_bottomLogs
          /\ seen' = [seen EXCEPT !["top"] = Append(@, taken + 1)]
      BY <2>5 DEF TakesLog, Sees
    <3>2. seen'["top"] = Append(seen["top"], taken + 1) /\ seen'["bottom"] = seen["bottom"]
      BY <1>1, <3>1
    <3>3. QED BY <1>1, <2>2, <2>3, <2>4, <3>1, <3>2 DEF LogsInv, NewestLogs
  <2>6. CASE TakesLog("bottom") /\ ~frozen
    <3>1. /\ lst_bottomLogs' = Trimmed(Append(lst_bottomLogs, taken + 1))
          /\ lst_topLogs' = lst_topLogs
          /\ seen' = [seen EXCEPT !["bottom"] = Append(@, taken + 1)]
      BY <2>6 DEF TakesLog, Sees
    <3>2. seen'["bottom"] = Append(seen["bottom"], taken + 1) /\ seen'["top"] = seen["top"]
      BY <1>1, <3>1
    <3>3. QED BY <1>1, <2>2, <2>3, <2>4, <3>1, <3>2 DEF LogsInv, NewestLogs
  <2>7. CASE TakesError /\ ~frozen
    <3>1. /\ lst_topLogs' = Append(lst_topLogs, Error) /\ lst_bottomLogs' = lst_bottomLogs
          /\ seen' = [seen EXCEPT !["top"] = Append(@, Error)]
      BY <2>7 DEF TakesError, Sees
    <3>2. seen'["top"] = Append(seen["top"], Error) /\ seen'["bottom"] = seen["bottom"]
      BY <1>1, <3>1
    <3>3. QED BY <1>1, <2>2, <2>3, <2>4, <3>1, <3>2 DEF LogsInv, NewestLogs
  <2>8. CASE UNCHANGED logVars
    BY <1>1, <2>2, <2>8 DEF LogsInv, NewestLogs, logVars
  <2>9. QED
    BY <2>1, <2>5, <2>6, <2>7, <2>8 DEF TakesLog, TakesError, TakesNothing, logVars
<1>4. CASE Handles
  <2>1. Key /\ UNCHANGED topicVars
    BY <1>4 DEF Handles, Key
  <2>2. LogType'
    BY <1>1, <2>1, KeyLogs
  <2>3. \/ UNCHANGED logVars
        \/ /\ lst_topLogs' = <<>> /\ lst_bottomLogs' = <<>>
           /\ seen' = [w \in DOMAIN seen |-> <<>>]
    BY <2>1, ClearsOrKeeps
  <2>4. CASE UNCHANGED logVars
    BY <1>1, <2>2, <2>4 DEF LogsInv, NewestLogs, logVars
  <2>5. CASE /\ lst_topLogs' = <<>> /\ lst_bottomLogs' = <<>>
             /\ seen' = [w \in DOMAIN seen |-> <<>>]
    <3>1. seen'["top"] = <<>> /\ seen'["bottom"] = <<>>
      BY <1>1, <2>5
    <3>2. Shows(<<>>, <<>>)
      BY EmptyWindow
    <3>3. QED BY <2>2, <2>5, <3>1, <3>2 DEF LogsInv, NewestLogs
  <2>6. QED BY <2>3, <2>4, <2>5
<1>5. QED
  BY <1>2, <1>3, <1>4 DEF Next, NoKey, Quits, Prints, vars

\* A window is never behind what came for it, nor shows anything else, for any height and any
\* number of logs, errors, freezes and clears.
THEOREM WindowsAreFresh == Spec => []NewestLogs
<1>1. LogsInv => NewestLogs
  BY DEF LogsInv
<1>2. QED BY <1>1, InitLogs, StepLogs, PTL DEF Spec
=============================================================================
