------------------------------- MODULE CentralGUI ---------------------------
(***************************************************************************)
(* EC_Central_GUI: a loop that takes one log from topic "logs", one key    *)
(* from the terminal, and prints.  Two menus interlock: while an action is *)
(* selected the keys move the cursor of its options and fill in its        *)
(* arguments, and what the options are is only settled when the menu is    *)
(* printed, after the key.  The two windows show the last HEIGHT logs.     *)
(*                                                                         *)
(* Orders are not sent: the code has a TODO in their place, and says       *)
(* "Message sent to central" all the same.  The tables get no rows.        *)
(***************************************************************************)
EXTENDS Integers, SequencesExt

CONSTANTS
    Digits,      \* the keys '0' to '9'
    HEIGHT,      \* logs a window shows
    MaxLogs,     \* bound: logs taken from the topic
    MaxErrors    \* bound: errors of the consumer

ASSUME HeightAssumption == HEIGHT \in Nat \ {0}

ASSUME BoundsAssumption == MaxLogs \in Nat /\ MaxErrors \in Nat

\* What stands for a digit that has not been typed.
Unset == "_"

ASSUME DigitsAssumption == Unset \notin Digits

Gap == "\\g\\a\\p"

\* menu_actions, in the order of the indices of actions.
Actions ==
    <<"Go to", "Return to base", "Stop", "Continue", "Terminate central", Gap, "Freeze", "Clear",
      "Close GUI">>

Views == <<"Logs", "Table">>

\* menu_options of an action.
OptionsOf(action) ==
    IF action = "Go to" THEN <<"Taxi", "Coordinate", "Execute">> ELSE <<"Taxi", "Execute">>

Blank(n) == [i \in 1..n |-> Unset]

Texts(n) == [1..n -> Digits \cup {Unset}]

VARIABLES
    turn,        \* what the loop does next: "listen", "key", "print", or "over"
    views, actions,   \* what is hovered in menu_views and menu_actions
    selected,    \* whether the action that is hovered is selected
    options,     \* what menu_options was printed with
    option,      \* what is hovered in it
    arg_taxi, arg_coord,
    actionExecuted,
    frozen,
    screen,      \* the view whose box is on the screen
    lst_topLogs, lst_bottomLogs,
    seen,        \* history: what came for either window since the last Clear, unless frozen
    taken,       \* logs taken from the topic
    errors       \* errors of the consumer

menuVars == <<views, actions, selected, options, option, arg_taxi, arg_coord>>
logVars == <<lst_topLogs, lst_bottomLogs, seen>>
topicVars == <<taken, errors>>
vars == <<turn, menuVars, actionExecuted, frozen, screen, logVars, topicVars>>

Action == Actions[actions]

\* A log is its number in the topic; an error has none.
Error == 0

TypeOK ==
    /\ turn \in {"listen", "key", "print", "over"}
    /\ views \in 1..2 /\ actions \in 1..9
    /\ selected \in BOOLEAN
    /\ options \in {<<>>, OptionsOf("Go to"), OptionsOf("Stop")}
    /\ option \in 1..3
    /\ arg_taxi \in Texts(2) /\ arg_coord \in Texts(4)
    /\ actionExecuted \in BOOLEAN /\ frozen \in BOOLEAN
    /\ screen \in {"Logs", "Table"}
    /\ taken \in 0..MaxLogs /\ errors \in 0..MaxErrors
    /\ lst_topLogs \in Seq(0..taken) /\ lst_bottomLogs \in Seq(0..taken)
    /\ seen \in [{"top", "bottom"} -> Seq(0..taken)]

\* initWindows leaves the box of the tables' window, and initGlobals and main print the menu once.
Init ==
    /\ turn = "listen"
    /\ views = 1 /\ actions = 1
    /\ selected = FALSE
    /\ options = <<>> /\ option = 1
    /\ arg_taxi = Blank(2) /\ arg_coord = Blank(4)
    /\ actionExecuted = FALSE /\ frozen = FALSE
    /\ screen = "Table"
    /\ lst_topLogs = <<>> /\ lst_bottomLogs = <<>>
    /\ seen = [window \in {"top", "bottom"} |-> <<>>]
    /\ taken = 0 /\ errors = 0

-----------------------------------------------------------------------------
(* listenKafka                                                             *)

\* Mutant: the log that leaves is the one that came.
TrimmedAtTheEnd(lst) == IF Len(lst) > HEIGHT THEN Front(lst) ELSE lst

Trimmed(lst) == IF Len(lst) > HEIGHT THEN Tail(lst) ELSE lst

Sees(window, log) == seen' = [seen EXCEPT ![window] = Append(@, log)]

\* A log for one of the windows.  It is taken from the topic whether or not it will be shown.
TakesLog(window) ==
    /\ taken < MaxLogs
    /\ taken' = taken + 1
    /\ UNCHANGED errors
    /\ IF frozen THEN UNCHANGED logVars
       ELSE /\ Sees(window, taken + 1)
            /\ IF window = "bottom"
               THEN /\ lst_bottomLogs' = Trimmed(Append(lst_bottomLogs, taken + 1))
                    /\ UNCHANGED lst_topLogs
               ELSE /\ lst_topLogs' = Trimmed(Append(lst_topLogs, taken + 1))
                    /\ UNCHANGED lst_bottomLogs

\* The error becomes a log, and the list is not trimmed.
TakesError ==
    /\ errors < MaxErrors
    /\ errors' = errors + 1
    /\ UNCHANGED <<taken, lst_bottomLogs>>
    /\ IF frozen THEN UNCHANGED <<lst_topLogs, seen>>
       ELSE /\ Sees("top", Error)
            /\ lst_topLogs' = Append(lst_topLogs, Error)

\* Nothing came in 0 ms, or a log without a message.
TakesNothing == UNCHANGED <<logVars, topicVars>>

Listens ==
    /\ turn = "listen"
    /\ turn' = "key"
    /\ \/ \E window \in {"top", "bottom"} : TakesLog(window)
       \/ TakesError
       \/ TakesNothing
    /\ UNCHANGED <<menuVars, actionExecuted, frozen, screen>>

-----------------------------------------------------------------------------
(* handleUserInput                                                         *)

\* Menu::hoverNext and Menu::hoverPrevious: round the menu to the next option that is no gap.
Hover(menu, hovered, by) ==
    LET after(i) == ((i - 1 + by) % Len(menu)) + 1
    IN  IF menu[after(hovered)] = Gap THEN after(after(hovered)) ELSE after(hovered)

Moves == [down |-> 1, up |-> -1]

MovesCursor(key) ==
    /\ key \in DOMAIN Moves
    /\ IF selected
       THEN option' = Hover(options, option, Moves[key]) /\ UNCHANGED actions
       ELSE actions' = Hover(Actions, actions, Moves[key]) /\ UNCHANGED option
    /\ actionExecuted' = FALSE
    /\ UNCHANGED <<views, selected, options, arg_taxi, arg_coord, frozen, logVars>>

ChangesView ==
    /\ views' = Hover(Views, views, 1)
    /\ actionExecuted' = FALSE
    /\ UNCHANGED <<actions, selected, options, option, arg_taxi, arg_coord, frozen, logVars>>

\* Enter on an action.  "Close GUI" is Quits.
Acts ==
    /\ ~selected
    /\ Action # "Close GUI"
    /\ actionExecuted' = (Action = "Terminate central")
    /\ frozen' = IF Action = "Freeze" THEN ~frozen ELSE frozen
    /\ IF Action = "Clear"
       THEN lst_topLogs' = <<>> /\ lst_bottomLogs' = <<>> /\ seen' = [w \in DOMAIN seen |-> <<>>]
       ELSE UNCHANGED logVars
    /\ selected' = (Action \notin {"Terminate central", "Freeze", "Clear"})
    /\ UNCHANGED <<views, actions, options, option, arg_taxi, arg_coord>>

\* Mutant: the arguments stay.
KeepsArguments ==
    /\ selected' = FALSE
    /\ option' = 1
    /\ UNCHANGED <<views, actions, options, arg_taxi, arg_coord, frozen, logVars>>

\* The action is over, executed or not.
Deselects ==
    /\ selected' = FALSE
    /\ option' = 1
    /\ arg_taxi' = Blank(2) /\ arg_coord' = Blank(4)
    /\ UNCHANGED <<views, actions, options, frozen, logVars>>

\* Enter on an option: only on the last one, with whatever arguments.
Executes ==
    /\ selected
    /\ option = Len(options)
    /\ actionExecuted' = TRUE
    /\ Deselects

Cancels ==
    /\ selected
    /\ actionExecuted' = FALSE
    /\ Deselects

\* ranges::find(text, '_'), one past the end when there is none.
FirstBlank(text) ==
    CHOOSE i \in 1..Len(text) + 1 :
        /\ i \in 1..Len(text) => text[i] = Unset
        /\ \A j \in 1..i - 1 : text[j] # Unset

\* A digit more.  A fifth one for the coordinate goes where the text ends, to the terminator, which
\* nothing reads: the test is against the end of arg_taxi.
Typed(text, digit) ==
    IF FirstBlank(text) > Len(text) THEN text ELSE [text EXCEPT ![FirstBlank(text)] = digit]

Erased(text) ==
    LET last == FirstBlank(text) - 1
    IN  IF last = 0 THEN text ELSE [text EXCEPT ![last] = Unset]

\* A digit or backspace: the text of the option that is hovered, if it has one.
Edits(taxi, coord) ==
    /\ selected
    /\ arg_taxi' = IF option = 1 THEN taxi ELSE arg_taxi
    /\ arg_coord' = IF option = 2 /\ Action = "Go to" THEN coord ELSE arg_coord
    /\ actionExecuted' = FALSE
    /\ UNCHANGED <<views, actions, selected, options, option, frozen, logVars>>

\* Any other key, a digit or 'b' when no action is selected, or Enter on an argument.
NothingToDo ==
    /\ actionExecuted' = FALSE
    /\ UNCHANGED <<menuVars, frozen, logVars>>

Handles ==
    /\ turn = "key"
    /\ turn' = "print"
    /\ \/ MovesCursor("down") \/ MovesCursor("up")
       \/ ChangesView
       \/ Acts \/ Executes \/ Cancels
       \/ \E digit \in Digits : Edits(Typed(arg_taxi, digit), Typed(arg_coord, digit))
       \/ Edits(Erased(arg_taxi), Erased(arg_coord))
       \/ NothingToDo
    /\ UNCHANGED <<screen, topicVars>>

\* No key, in no time.
NoKey ==
    /\ turn = "key"
    /\ turn' = "print"
    /\ UNCHANGED <<menuVars, actionExecuted, frozen, screen, logVars, topicVars>>

\* 'q', at any time, or Enter on "Close GUI".
Quits ==
    /\ turn = "key"
    /\ turn' = "over"
    /\ UNCHANGED <<menuVars, actionExecuted, frozen, screen, logVars, topicVars>>

-----------------------------------------------------------------------------
(* printMenu, printLogs and printTableView                                 *)

Prints ==
    /\ turn = "print"
    /\ turn' = "listen"
    /\ options' = IF selected THEN OptionsOf(Action) ELSE options
    /\ screen' = Views[views]
    /\ UNCHANGED <<views, actions, selected, option, arg_taxi, arg_coord, actionExecuted, frozen,
                   logVars, topicVars>>

Next == Listens \/ Handles \/ NoKey \/ Quits \/ Prints

Spec == Init /\ [][Next]_vars

-----------------------------------------------------------------------------
(* Properties                                                              *)

\* What is typed is for the action under the cursor: an action is selected with its cursor on the
\* taxi and both arguments blank, only "Go to" has a coordinate, digits stand before blanks, and a
\* key always finds the cursor on an option that is printed.
ArgumentsOfTheAction ==
    /\ ~selected => option = 1 /\ arg_taxi = Blank(2)
    /\ ~(selected /\ Action = "Go to") => arg_coord = Blank(4)
    /\ selected => Action \in {"Go to", "Return to base", "Stop", "Continue"}
    /\ selected /\ turn = "key" => options = OptionsOf(Action) /\ option \in DOMAIN options
    /\ \A text \in {arg_taxi, arg_coord} : \A i, j \in DOMAIN text :
            i < j /\ text[i] = Unset => text[j] = Unset

\* The windows show the newest logs, HEIGHT of them if there were as many, in their order; those
\* that come while the windows are frozen are never shown, and errors do not push out more than
\* they should.
Shows(lst, history) ==
    /\ IsSuffix(lst, history)
    /\ Len(lst) >= Len(history) \/ Len(lst) >= HEIGHT

NewestLogs == Shows(lst_topLogs, seen["top"]) /\ Shows(lst_bottomLogs, seen["bottom"])
=============================================================================
