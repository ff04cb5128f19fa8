------------------------------ MODULE Lxdialog ------------------------------
(***************************************************************************)
(* The dialogs of menuconfig, tools/kconfig/lxdialog: the menu             *)
(* (menubox.c), the radio list (checklist.c), the text viewer (textbox.c), *)
(* the input line (inputbox.c), the question (yesno.c), and the item list  *)
(* they share (util.c).                                                    *)
(*                                                                         *)
(* The screen is part of the state, as the code redraws only what it       *)
(* thinks has changed: rows, lit (the button print_buttons drew as         *)
(* selected) and field are what the terminal shows.  Left out: colours,    *)
(* frames, titles, the scroll indicators, the position in percent.         *)
(*                                                                         *)
(* A text is a number of lines; its last line has no newline, and is empty *)
(* exactly when the text ends in one.                                      *)
(***************************************************************************)
EXTENDS Integers, Sequences

CONSTANTS
  Lists,         \* the item lists a menu or a radio list is given
  Hot(_),        \* Hot(i): the letter that selects item i
  Heights,       \* menu_height: the rows the terminal leaves to a menu
  ListHeight,    \* CHECKLIST_HEIGTH_MIN
  Texts,         \* texts: [lines, empty (is the last line), jumps (to targets)]
  BoxHeight,     \* boxh: the rows of a text
  MaxScroll,     \* MAX_LEN of a horizontal scroll
  Chars, MaxLen, \* the printable characters, and MAX_LEN of an input
  Width,         \* box_width of an input line
  Initial        \* the strings an input line may start with

ASSUME LxdialogAssumption ==
  /\ Lists \subseteq Seq(Nat) /\ Heights \subseteq Nat \ {0}
  /\ Initial \subseteq Seq(Chars)
  /\ Texts \subseteq [lines : Nat \ {0}, empty : BOOLEAN, jumps : BOOLEAN]
  /\ \A text \in Texts : text.jumps => text.empty     \* get_relations_str
  /\ ListHeight \in Nat \ {0} /\ BoxHeight \in Nat \ {0}
  /\ MaxLen \in Nat /\ MaxScroll \in Nat /\ Width \in Nat \ {0}

VARIABLES
  box,        \* the dialog on the screen
  resized     \* has the window been resized since a button was last chosen?

Least(a, b) == IF a < b THEN a ELSE b
Most(a, b) == IF a > b THEN a ELSE b
Times(k, op(_), b) == LET f[i \in 0..k] == IF i = 0 THEN b ELSE op(f[i - 1]) IN f[k]
First(P(_), lo, hi) == CHOOSE i \in lo..hi : P(i) /\ \A j \in lo..(i - 1) : ~P(j)

----------------------------------------------------------------------------
\* The item list and the rows that show it

Null == 0       \* item_set past the end leaves no item, and item_str reads it
item_count(b) == Len(b.items)
item_set(b, i) == IF i < Len(b.items) THEN b.items[i + 1] ELSE Null

Blank == [item |-> Null, lit |-> FALSE]
print_item(b, i, y, lit) == [b EXCEPT !.rows[y] = [item |-> item_set(b, i), lit |-> lit]]

\* wscrl moves the rows and leaves a blank one.
do_scroll(b, k) ==
  [b EXCEPT !.scroll = b.scroll + k,
            !.rows = [r \in DOMAIN b.rows |->
                        IF r + k \in DOMAIN b.rows THEN b.rows[r + k] ELSE Blank]]

max_choice(b) == Least(b.height, item_count(b))

\* Printing a list from its first-th item.
Printed(b, first) ==
  [b EXCEPT !.rows = [r \in 0..(max_choice(b) - 1) |->
                        [item |-> item_set(b, first + r), lit |-> r = b.choice]]]

Around(i, last) == IF i < 0 THEN last ELSE IF i > last THEN 0 ELSE i

\* TAB and the arrows, among the buttons 0..last.
Button(b, by, last) ==
  LET to == Around(b.button + by, last) IN [b EXCEPT !.button = to, !.lit = to]

----------------------------------------------------------------------------
\* dialog_menu

\* do_resize: the selected item is sought, and the saved scroll is used when it
\* fits.  choice and first_item have the values they had.
MenuDrawn(b, height) ==
  LET count == item_count(b)
      max == Least(height, count)
      found == {i \in 0..(count - 1) : item_set(b, i) = b.selected}
      at == IF found = {} THEN b.choice ELSE CHOOSE i \in found : \A j \in found : j <= i
      fits == /\ b.s_scroll <= at /\ b.s_scroll + max > at
              /\ b.s_scroll >= 0 /\ b.s_scroll + max <= count
      scroll == IF fits THEN b.s_scroll ELSE 0
      choice == at - scroll
      moved == IF at >= count - max \div 2 THEN count - max ELSE at - max \div 2
      seen == fits \/ choice < max
      first == IF fits THEN scroll ELSE IF seen THEN b.first ELSE moved
      to == IF seen THEN scroll ELSE moved
  IN  Printed([b EXCEPT !.height = height, !.first = first, !.scroll = to,
                        !.choice = IF seen THEN choice ELSE at - moved,
                        !.top = to, !.lit = 0], first)

MenuOf(items, selected, s_scroll, height) ==
  MenuDrawn([is |-> "menu", items |-> items, selected |-> selected, s_scroll |-> s_scroll,
             height |-> height, first |-> 0, scroll |-> 0, choice |-> 0, top |-> 0,
             button |-> 0, lit |-> 0, rows |-> <<>>], height)

\* The highlight is taken off its row before a key moves it, and put on after.
Unlit(b) == print_item(b, b.scroll + b.choice, b.choice, FALSE)
Lit(b) == print_item(b, b.scroll + b.choice, b.choice, TRUE)

ScrollBack(b) == LET b1 == do_scroll(b, -1) IN print_item(b1, b1.scroll, 0, FALSE)
\* Mutant: the row that a scroll uncovers is filled with the item below it.
ScrollOn_Next(b) ==
  LET b1 == do_scroll(b, 1)
  IN  print_item(b1, b1.scroll + max_choice(b), max_choice(b) - 1, FALSE)

ScrollOn(b) ==
  LET b1 == do_scroll(b, 1)
  IN  print_item(b1, b1.scroll + max_choice(b) - 1, max_choice(b) - 1, FALSE)
Above(b) == [b EXCEPT !.choice = Most(b.choice - 1, 0)]
Below(b) == [b EXCEPT !.choice = Least(b.choice + 1, max_choice(b) - 1)]
MoreBelow(b) == b.scroll + max_choice(b) < item_count(b)

MenuUp(b) == IF b.choice < 2 /\ b.scroll # 0 THEN ScrollBack(b) ELSE Above(b)
MenuDown(b) == IF b.choice > max_choice(b) - 3 /\ MoreBelow(b) THEN ScrollOn(b) ELSE Below(b)
MenuPageUp(b) ==
  Times(max_choice(b), LAMBDA a : IF a.scroll > 0 THEN ScrollBack(a) ELSE Above(a), b)
MenuPageDown(b) ==
  Times(max_choice(b), LAMBDA a : IF MoreBelow(a) THEN ScrollOn(a) ELSE Below(a), b)

\* A letter: the next row on the screen with it, from the top after the last.
LetterRow(b, letter) ==
  LET Is(i) == Hot(item_set(b, b.scroll + i)) = letter
      last == max_choice(b) - 1
  IN  IF \E i \in (b.choice + 1)..last : Is(i) THEN First(Is, b.choice + 1, last)
      ELSE First(Is, 0, last)

OnScreen(b) == {Hot(item_set(b, b.scroll + i)) : i \in 0..(max_choice(b) - 1)}

MenuKey ==
  /\ box.is = "menu"
  /\ \/ /\ item_count(box) # 0 /\ UNCHANGED resized
        /\ LET b == Unlit(box)
           IN  \/ box' = Lit(MenuUp(b))
               \/ box' = Lit(MenuDown(b))
               \/ box' = Lit(MenuPageUp(b))
               \/ box' = Lit(MenuPageDown(b))
               \/ \E letter \in OnScreen(box) :
                    box' = Lit([b EXCEPT !.choice = LetterRow(box, letter)])
     \/ \E by \in {-1, 1} : box' = Button(box, by, 4) /\ resized' = FALSE
     \/ \E height \in Heights : box' = MenuDrawn(box, height) /\ resized' = TRUE

\* Enter, y, n, m, the space bar...: the scroll is saved, conf acts on the item,
\* builds its list again and shows it with that item selected.
MenuSelect ==
  /\ box.is = "menu" /\ resized' = FALSE
  /\ \E items \in Lists :
       box' = MenuOf(items, item_set(box, box.scroll + box.choice), box.scroll, box.height)

----------------------------------------------------------------------------
\* dialog_checklist: the list scrolls when the highlight would leave it, and a
\* letter is sought from the top.

CheckDrawn(b) ==
  LET past == Most(b.choice - ListHeight + 1, 0)
      scroll == IF past > 0 THEN past ELSE b.scroll
      b1 == [b EXCEPT !.scroll = scroll, !.choice = b.choice - past,
                      !.first = scroll, !.top = scroll, !.lit = 0]
  IN  Printed(b1, scroll)

\* The item that is on, or the one whose help was asked for, is highlighted.
CheckOf(items, at) ==
  CheckDrawn([is |-> "check", items |-> items, height |-> ListHeight, first |-> 0,
              scroll |-> 0, choice |-> at, top |-> 0, button |-> 0, lit |-> 0, rows |-> <<>>])

\* With one row there is nothing to scroll: it is printed over.
CheckScroll(b, k) ==
  IF ListHeight > 1 THEN Lit(do_scroll(Unlit(b), k)) ELSE Lit([b EXCEPT !.scroll = b.scroll + k])

CheckUp(b) ==
  IF b.choice # 0 THEN Lit(Above(Unlit(b)))
  ELSE IF b.scroll = 0 THEN b ELSE CheckScroll(b, -1)
CheckDown(b) ==
  IF b.choice # max_choice(b) - 1 THEN Lit(Below(Unlit(b)))
  ELSE IF b.scroll + b.choice >= item_count(b) - 1 THEN b ELSE CheckScroll(b, 1)
CheckLetter(b, letter) ==
  LET Is(i) == Hot(item_set(b, b.scroll + i)) = letter
  IN  Lit([Unlit(b) EXCEPT !.choice = First(Is, 0, max_choice(b) - 1)])

CheckKey ==
  /\ box.is = "check"
  /\ \/ /\ UNCHANGED resized
        /\ \/ box' = CheckUp(box)
           \/ box' = CheckDown(box)
           \/ \E letter \in OnScreen(box) : box' = CheckLetter(box, letter)
     \/ \E by \in {-1, 1} : box' = Button(box, by, 1) /\ resized' = FALSE
     \/ box' = CheckDrawn(box) /\ resized' = TRUE      \* KEY_RESIZE

----------------------------------------------------------------------------
\* dialog_textbox.  page is the line the next get_line returns; past the last
\* line is page = lines + 1, which for an empty last line is its start.

End(t) == IF t.empty THEN t.lines ELSE t.lines + 1

get_line(t) ==
  IF t.page >= t.lines THEN [t EXCEPT !.end_reached = TRUE, !.page = End(t)]
  ELSE [t EXCEPT !.end_reached = FALSE, !.page = t.page + 1]
\* What a row shows of it; an empty last line again and again.
LineAt(t) == IF t.page <= t.lines THEN t.page ELSE 0

\* Mutant: the end of the text is not counted as a line.
back_lines_NoEnd(t, k) ==
  LET to == Most(t.page - k, 1)
  IN  [t EXCEPT !.end_reached = FALSE, !.begin_reached = (to = 1 /\ k > 0), !.page = to]

\* The end of the text, when it has been reached, counts as a line.
back_lines(t, k) ==
  LET atEnd == t.page = End(t) /\ t.end_reached /\ k > 0
      to == t.page - (IF atEnd THEN k - 1 ELSE k)
  IN  [t EXCEPT !.end_reached = t.end_reached /\ ~atEnd,
                !.begin_reached = IF atEnd THEN to <= 1 /\ k > 1 ELSE to <= 1 /\ k > 0,
                !.page = Most(to, 1)]

\* print_page.  With jumps the page is first moved so that it fills the window,
\* and the keys of the targets on it are collected.
print_page(t0) ==
  LET through == Times(BoxHeight, get_line, t0)
      t == IF t0.jumps THEN back_lines(through, BoxHeight) ELSE t0
      line[i \in 0..BoxHeight] == IF i = 0 THEN t ELSE get_line(line[i - 1])
      ends == {i \in 1..BoxHeight : line[i].end_reached}
      shown == [i \in 0..(BoxHeight - 1) |-> [line |-> LineAt(line[i]), from |-> t.hscroll]]
  IN  [line[BoxHeight] EXCEPT
         !.page_length = IF ends = {} THEN BoxHeight ELSE First(LAMBDA i : i \in ends, 1, BoxHeight),
         !.rows = shown]

TextOf(text, vscroll, hscroll) ==
  LET t == [is |-> "text", lines |-> text.lines, empty |-> text.empty, jumps |-> text.jumps,
            page |-> 1, begin_reached |-> vscroll = 0, end_reached |-> FALSE,
            page_length |-> 0, hscroll |-> hscroll, rows |-> <<>>, key |-> "open"]
  IN  print_page(Times(vscroll, get_line, t))

\* What a key does before the page is printed again.
TextMoved(t, key) ==
  CASE key = "home"   -> [t EXCEPT !.begin_reached = TRUE, !.page = 1]
    [] key = "end"    -> back_lines([t EXCEPT !.end_reached = TRUE, !.page = End(t)], BoxHeight)
    [] key = "up"     -> back_lines(t, t.page_length + 1)
    [] key = "pgup"   -> back_lines(t, t.page_length + BoxHeight)
    [] key = "down"   -> back_lines(t, t.page_length - 1)
    [] key = "pgdn"   -> [t EXCEPT !.begin_reached = FALSE]
    [] key = "left"   -> back_lines([t EXCEPT !.hscroll = t.hscroll - 1], t.page_length)
    [] key = "0"      -> back_lines([t EXCEPT !.hscroll = 0], t.page_length)
    [] key = "right"  -> back_lines([t EXCEPT !.hscroll = t.hscroll + 1], t.page_length)
    [] key = "resize" -> back_lines(t, BoxHeight + 4)      \* the height of the whole box

TextIgnores(t, key) ==
  \/ key \in {"home", "up", "pgup"} /\ t.begin_reached
  \/ key \in {"down", "pgdn"} /\ t.end_reached
  \/ key \in {"left", "0"} /\ t.hscroll <= 0
  \/ key = "right" /\ t.hscroll >= MaxScroll

TextKeys == {"home", "end", "up", "pgup", "down", "pgdn", "left", "0", "right", "resize"}

TextKey ==
  /\ box.is = "text" /\ UNCHANGED resized
  /\ \E key \in TextKeys :
       /\ ~TextIgnores(box, key)
       /\ box' = [print_page(TextMoved(box, key)) EXCEPT !.key = key]

\* A jump key ends the dialog; search_conf shows the results again, which may
\* have changed, with the scroll that dialog_textbox stored.
TextAgain ==
  /\ box.is = "text" /\ box.jumps /\ UNCHANGED resized
  /\ \E text \in Texts :
       /\ text.jumps
       /\ box' = TextOf(text, back_lines(box, box.page_length).page - 1, box.hscroll)

----------------------------------------------------------------------------
\* dialog_inputbox: the cursor is at column x of the field, which shows the
\* string from show on, and pos is its place in the string.

InputDrawn(b) ==
  LET len == Len(b.str)
      show == Most(len - Width + 1, 0)
  IN  [b EXCEPT !.pos = len, !.show = show, !.x = len - show, !.lit = 0,
                !.field = [i \in 0..(Width - 1) |->
                             IF show + i < len THEN b.str[show + i + 1] ELSE " "]]

InputOf(str) ==
  InputDrawn([is |-> "input", str |-> str, pos |-> 0, show |-> 0, x |-> 0,
              button |-> -1, lit |-> 0, field |-> <<>>])

\* The field is printed up to a space at the end of the string, and no further.
Reprinted(b) ==
  [b EXCEPT !.field = [i \in 0..(Width - 1) |->
                         IF b.show + i < Len(b.str) THEN b.str[b.show + i + 1]
                         ELSE IF b.show + i = Len(b.str) THEN " " ELSE b.field[i]]]

CursorBack(b) ==
  [b EXCEPT !.pos = b.pos - 1, !.show = IF b.x = 0 THEN b.show - 1 ELSE b.show,
            !.x = IF b.x = 0 THEN 0 ELSE b.x - 1]
CursorOn(b) ==
  [b EXCEPT !.pos = b.pos + 1, !.show = IF b.x = Width - 1 THEN b.show + 1 ELSE b.show,
            !.x = IF b.x = Width - 1 THEN b.x ELSE b.x + 1]

Backspace(b) ==
  Reprinted([CursorBack(b) EXCEPT
               !.str = SubSeq(b.str, 1, b.pos - 1) \o SubSeq(b.str, b.pos + 1, Len(b.str))])
Typed(b, c) ==
  Reprinted([CursorOn(b) EXCEPT
               !.str = SubSeq(b.str, 1, b.pos) \o <<c>> \o SubSeq(b.str, b.pos + 1, Len(b.str))])
\* An arrow prints the field only when it moves.
Arrow(b, moved) == IF moved.show = b.show THEN moved ELSE Reprinted(moved)

\* The buttons, and the line itself at -1.
InputButton(b, by) ==
  LET to == IF b.button + by < -1 THEN 1 ELSE IF b.button + by > 1 THEN -1 ELSE b.button + by
  IN  [b EXCEPT !.button = to, !.lit = Most(to, 0)]

InputKey ==
  /\ box.is = "input"
  /\ \/ /\ box.button = -1 /\ UNCHANGED resized
        /\ \/ box.pos > 0 /\ box' = Backspace(box)
           \/ box.pos > 0 /\ box' = Arrow(box, CursorBack(box))
           \/ box.pos < Len(box.str) /\ box' = Arrow(box, CursorOn(box))
           \/ \E c \in Chars : Len(box.str) < MaxLen /\ box' = Typed(box, c)
     \/ \E by \in {-1, 1} : box' = InputButton(box, by) /\ resized' = FALSE
     \/ box' = InputDrawn(box) /\ resized' = TRUE      \* KEY_RESIZE

\* "You have made an invalid entry", or help: the same line is asked for again.
InputAgain == box.is = "input" /\ box' = InputOf(box.str) /\ resized' = FALSE

----------------------------------------------------------------------------
\* dialog_yesno

YesnoOf == [is |-> "yesno", button |-> 0, lit |-> 0]
YesnoKey ==
  /\ box.is = "yesno"
  /\ \/ \E by \in {-1, 1} : box' = Button(box, by, 1) /\ resized' = FALSE
     \/ box' = [box EXCEPT !.lit = 0] /\ resized' = TRUE      \* KEY_RESIZE

----------------------------------------------------------------------------
\* conf opens a menu with an item of it selected or none, and its own saved
\* scroll at 0.  Nothing is kept when a dialog ends but what MenuSelect,
\* TextAgain and InputAgain pass on, so each is followed from its opening.

Opened ==
  (UNION {{MenuOf(items, i, 0, height) : i \in {Null} \cup {items[j] : j \in DOMAIN items}} :
            items \in Lists, height \in Heights})
    \cup (UNION {{CheckOf(items, i) : i \in 0..(Len(items) - 1)} : items \in Lists \ {<<>>}})
    \cup {TextOf(text, 0, 0) : text \in Texts}
    \cup {InputOf(str) : str \in Initial}
    \cup {YesnoOf}

DialogInit == box \in Opened /\ resized = FALSE

DialogNext == MenuKey \/ MenuSelect \/ CheckKey \/ TextKey \/ TextAgain
                \/ InputKey \/ InputAgain \/ YesnoKey

----------------------------------------------------------------------------
\* Properties

\* Each row shows the item a key would act on there, and the one that Enter or
\* y would act on, scroll + choice, is the one that is highlighted.
RowsShowTheirItems ==
  /\ item_count(box) > 0 => box.choice \in DOMAIN box.rows
  /\ \A r \in DOMAIN box.rows :
       box.rows[r] = [item |-> item_set(box, box.scroll + r), lit |-> r = box.choice]

\* Whatever was pressed (dialog_menu, dialog_checklist); a menu that has been
\* resized is excepted where its rows were printed from another item than it was
\* scrolled to.
ListsShowTheirItems ==
  box.is \in {"menu", "check"} /\ box.first = box.top => RowsShowTheirItems

\* The first line on the screen after a key, for a text that ends in a newline:
\* whatever the page pointer, the lengths of pages and the flags went through,
\* a line down is one line, left and right stay, and a page with jumps is full.
Top(t) == t.rows[0].line
Full(t) == Most(1, t.lines - BoxHeight + 1)
TopAfter(t, key) ==
  CASE key \in {"left", "right", "0"} -> Top(t)
    [] key = "down" -> Top(t) + 1
    [] key = "up" -> Most(1, Top(t) - 1)
    [] key = "pgdn" -> Top(t) + BoxHeight
    [] key = "pgup" -> Most(1, Top(t) - BoxHeight)
    [] key = "home" -> 1
    [] key = "end" -> Full(t)
TextKeepsItsPlace ==
  [][/\ TextKey /\ box.empty /\ box'.key # "resize" =>
          LET to == TopAfter(box, box'.key)
          IN  Top(box') = IF box.jumps THEN Least(to, Full(box)) ELSE to
     /\ TextAgain /\ box'.lines = box.lines => Top(box') = Top(box)]_box

\* What the terminal shows of an input line is what the string holds there, and
\* the cursor is where the next character goes (dialog_inputbox).
InputIsShown ==
  box.is = "input" =>
    /\ box.x \in 0..(Width - 1) /\ box.show >= 0
    /\ box.pos = box.show + box.x /\ box.pos <= Len(box.str)
    /\ \A i \in 0..(Width - 1) :
         box.field[i] = IF box.show + i < Len(box.str) THEN box.str[box.show + i + 1] ELSE " "

\* The button that Enter acts on; on the line itself, at -1, that is the first.
ActedOn(b) == IF b.is = "input" /\ b.button = -1 THEN 0 ELSE b.button

\* It is the one shown as selected (print_buttons), whatever other keys came
\* between; excepted is a dialog resized since a button was last chosen, where
\* do_resize prints the first button as selected and leaves button as it was.
ButtonIsLit ==
  box.is \in {"menu", "check", "input", "yesno"} /\ ~resized => box.lit = ActedOn(box)

\* The terminal shows what the keys act on: the rows of a list, the field and the
\* cursor of an input line, and the button of a menu, a radio list, an input line
\* or a question, with the two exceptions named.
ScreenIsCurrent == ListsShowTheirItems /\ InputIsShown /\ ButtonIsLit
============================================================================
