------------------------------ MODULE Terminal ------------------------------
(***************************************************************************)
(* The terminal on the linear frame buffer (kernel/device/lfb_terminal.rs  *)
(* with graphic/lfb.rs and buffered_lfb.rs): a cursor, a buffer of         *)
(* characters, a back buffer that is drawn into and the frame buffer that  *)
(* is seen, the escape sequences, and the thread that makes the cursor     *)
(* blink.                                                                  *)
(*                                                                         *)
(* A string is a sequence of tokens, one for each character and for each   *)
(* control code, two for an escape sequence: its introducer and its end.   *)
(* Positions are <<column, row>> as in the code; row 0 is the status bar.  *)
(* A screen is a function from cells to what is drawn there.  u16          *)
(* arithmetic that overflows panics, as in the development build.          *)
(***************************************************************************)
EXTENDS Integers, Sequences, SequencesExt

CONSTANTS
  TermCols, TermRows,  \* DisplayState::size
  TabSpaces,           \* TAB_SPACES
  Writers,             \* threads that write
  TermCfgs             \* [strings, count, writers, plain]: what is written, how many
                       \* strings, by whom; plain: nothing that moves the cursor alone

ASSUME TermAssumption ==
  /\ TermCols \in Nat \ {0} /\ TermRows \in Nat \ {0, 1} /\ TabSpaces \in Nat \ {0}

VARIABLES
  term,     \* LFBTerminal: pos, saved, color, buf, back, front; visible of CursorThread
  parser,   \* the parser's state
  writer,   \* per thread: its clone of the parser and the tokens still to be advanced
  torn,     \* an end of a sequence was printed, or text taken for an end
  begun,    \* strings begun
  termCfg

termVars == <<term, parser, writer, torn, begun, termCfg>>

Cells == 0 .. TermCols * TermRows - 1
CellAt(pos) == pos[2] * TermCols + pos[1]
RowOf(i) == i \div TermCols
TextCells == {i \in Cells : RowOf(i) > 0}

-----------------------------------------------------------------------------
(* Colours: <<base, brighter, dimmer>>.                                    *)

White == <<<<7>>, FALSE, FALSE>>
Black == <<<<0>>, FALSE, FALSE>>
Invisible == <<<<>>, FALSE, FALSE>>

NewColor ==
    [fg |-> White, bg |-> Black, fg_base |-> <<7>>, bg_base |-> <<0>>,
     fg_bright |-> FALSE, bg_bright |-> FALSE, invert |-> FALSE,
     bright |-> FALSE, dim |-> FALSE]

\* The colour and the parameters that are left; no colour is <<>>.
parse_complex_color(ps) ==
    IF ps = <<>> THEN [col |-> <<>>, rest |-> ps]
    ELSE IF Head(ps) = 2
    THEN IF Len(ps) < 4 THEN [col |-> <<>>, rest |-> <<>>]
         ELSE [col |-> <<512>> \o SubSeq(ps, 2, 4), rest |-> SubSeq(ps, 5, Len(ps))]
    ELSE IF Head(ps) = 5
    THEN IF Len(ps) < 2 THEN [col |-> <<>>, rest |-> <<>>]
         ELSE [col |-> IF ps[2] <= 255 THEN <<256, ps[2]>> ELSE <<>>,
               rest |-> SubSeq(ps, 3, Len(ps))]
    ELSE [col |-> <<>>, rest |-> Tail(ps)]

ansi_color(code, ps) ==
    CASE code \in 0..7 -> [col |-> <<code>>, rest |-> ps]
      [] code = 9 -> [col |-> <<7>>, rest |-> ps]
      [] code = 8 -> parse_complex_color(ps)
      [] OTHER -> [col |-> <<>>, rest |-> ps]

handle_ansi_graphic_rendition(c, code) ==
    CASE code = 0 -> NewColor
      [] code = 1 -> [c EXCEPT !.bright = TRUE]
      [] code = 2 -> [c EXCEPT !.dim = TRUE]
      [] code = 7 -> [c EXCEPT !.invert = TRUE]
      [] code = 22 -> [c EXCEPT !.bright = FALSE, !.dim = FALSE]
      [] code = 27 -> [c EXCEPT !.invert = FALSE]
      [] OTHER -> c

\* The loop of handle_ansi_color.
RECURSIVE Rendition(_, _)
Rendition(c, ps) ==
    IF ps = <<>> THEN c
    ELSE LET code == Head(ps)
             Fore(r, bright) == Rendition(IF r.col = <<>> THEN c
                                   ELSE [c EXCEPT !.fg_base = r.col, !.fg_bright = bright], r.rest)
             Back(r, bright) == Rendition(IF r.col = <<>> THEN c
                                   ELSE [c EXCEPT !.bg_base = r.col, !.bg_bright = bright], r.rest)
         IN  CASE code \in 0..29 -> Rendition(handle_ansi_graphic_rendition(c, code), Tail(ps))
               [] code \in 30..39 -> Fore(ansi_color(code - 30, Tail(ps)), FALSE)
               [] code \in 40..49 -> Back(ansi_color(code - 40, Tail(ps)), FALSE)
               [] code \in 90..97 -> Fore(ansi_color(code - 90, Tail(ps)), TRUE)
               [] code \in 100..107 -> Back(ansi_color(code - 100, Tail(ps)), TRUE)
               [] OTHER -> Rendition(c, Tail(ps))

handle_ansi_color(c, ps) ==
    LET d == Rendition(c, ps)
        fg == IF d.invert THEN d.bg_base ELSE d.fg_base
        bg == IF d.invert THEN d.fg_base ELSE d.bg_base
    IN  [d EXCEPT !.fg = <<fg, d.bright \/ d.fg_bright, d.dim>>,
                  !.bg = <<bg, d.bg_bright, FALSE>>]

-----------------------------------------------------------------------------
(* Drawing.  A cell of char_buffer has a value and two colours; what a      *)
(* screen shows in a cell is the same, and a blank has no foreground.       *)

Cell(v, fg, bg) == [v |-> v, fg |-> fg, bg |-> bg]
Drawn(v, fg, bg) == IF v = " " THEN Cell(" ", Invisible, bg) ELSE Cell(v, fg, bg)

\* draw_char: the glyph's width in columns; "none" has no glyph.
Width(v) == CASE v = "wide" -> 2 [] v = "none" -> 0 [] OTHER -> 1

\* draw_pixel leaves out what is outside the frame buffer or transparent.
draw_char(scr, pos, fg, bg, v) ==
    IF fg = Invisible THEN scr
    ELSE [i \in DOMAIN scr |->
            LET part == i - CellAt(pos)
            IN  IF RowOf(i) = pos[2] /\ part \in 0 .. Width(v) - 1
                THEN Drawn(IF part = 0 THEN v ELSE "half", fg, bg) ELSE scr[i]]

print_char_at(t, v, pos) ==
    [t EXCEPT !.back = draw_char(@, pos, t.color.fg, t.color.bg, v),
              !.front = draw_char(@, pos, t.color.fg, t.color.bg, v)]

fill_rect(t, S) ==
    [t EXCEPT !.back = [i \in Cells |-> IF i \in S THEN Drawn(" ", White, t.color.bg) ELSE @[i]]]

\* The characters of S are cleared in char_buffer.
Erased(t, S, v) ==
    [t EXCEPT !.buf = [i \in DOMAIN @ |->
                         IF i \in S THEN Cell(v, t.color.fg, t.color.bg) ELSE @[i]]]

flush(t) == [t EXCEPT !.front = t.back]

\* The bar is drawn into the back buffer, and only its lines are flushed.
draw_status_bar(t) ==
    LET Bar(scr) == [i \in Cells |-> IF RowOf(i) = 0 THEN Cell("status", White, Black) ELSE scr[i]]
    IN  [t EXCEPT !.back = Bar(@), !.front = Bar(@)]

Shown(t) == flush(IF t.pos[2] = 0 THEN draw_status_bar(t) ELSE t)

RowCells(t) == {i \in Cells : RowOf(i) = t.pos[2]}

\* The cells from the cursor to the end of its line.
FromCursor(t) == {i \in RowCells(t) : i >= CellAt(t.pos)}
ToCursor(t) == {i \in RowCells(t) : i < CellAt(t.pos)}

clear_line_from_cursor(t) == Shown(Erased(fill_rect(t, FromCursor(t)), FromCursor(t), "nul"))
clear_line_to_cursor(t) == Shown(Erased(fill_rect(t, ToCursor(t)), ToCursor(t), "nul"))

\* The buffer gets the letter a.
clear_line(t) == Shown(Erased(fill_rect(t, RowCells(t)), RowCells(t), "a"))

clear_screen(t) == flush(draw_status_bar(Erased(fill_rect(t, Cells), DOMAIN t.buf, "nul")))

clear_screen_to_cursor(t) ==
    LET S == {i \in Cells : i < CellAt(t.pos)}
    IN  flush(draw_status_bar(Erased(fill_rect(t, S), S, "nul")))

clear_screen_from_cursor(t) ==
    LET S == {i \in DOMAIN t.buf : i >= CellAt(t.pos)}
    IN  flush(draw_status_bar(Erased(fill_rect(t, S), S, "nul")))

scroll_up(t) ==
    LET last == (TermRows - 1) * TermCols
        Up(f, new) == [i \in DOMAIN f |-> IF i < last THEN f[i + TermCols] ELSE new]
    IN  flush(draw_status_bar(
            [t EXCEPT !.buf = Up(@, Cell("nul", t.color.fg, t.color.bg)),
                      !.back = Up(@, Drawn(" ", White, t.color.bg))]))

position(t, pos) ==
    LET row == IF pos[2] = 0 THEN 1 ELSE pos[2]
        over == IF row < TermRows THEN 0 ELSE row - (TermRows - 1)
    IN  FoldLeft(LAMBDA u, n : scroll_up(u), [t EXCEPT !.pos = <<pos[1], row - over>>],
                 [n \in 1..over |-> n])

-----------------------------------------------------------------------------
(* What the parser calls.                                                  *)

Panic(t) == [t EXCEPT !.panic = TRUE]

handle_tab(t) ==
    position(t, IF t.pos[1] + TabSpaces >= TermCols THEN <<0, t.pos[2] + 1>>
                ELSE <<((t.pos[1] + TabSpaces) \div TabSpaces) * TabSpaces, t.pos[2]>>)

\* The character at the cursor's old place, where it may have been blinking.
Restored(t, pos) ==
    LET v == t.buf[CellAt(pos)].v
    IN  print_char_at(t, IF v = "nul" THEN " " ELSE v, pos)

Backspace(t) ==
    IF t.pos[1] = 0 THEN Panic(t)
    ELSE LET new == <<t.pos[1] - 1, t.pos[2]>>
             u == Erased([t EXCEPT !.pos = new], {CellAt(new)}, " ")
         IN  print_char_at(Restored(u, t.pos), " ", new)

\* A character with a glyph: it is drawn, stored, and the cursor moves on.
Glyph(t, v) ==
    LET n == Width(v)
        i == CellAt(t.pos)
        u == print_char_at(t, v, t.pos)
        w == Erased(u, {i}, v)
        x == [w EXCEPT !.buf = [j \in DOMAIN @ |->
                IF j > i /\ j < i + n /\ t.pos[1] + (j - i) < TermCols
                THEN Cell("nul", Invisible, Invisible) ELSE @[j]]]
    IN  IF n = 0 THEN u
        ELSE IF t.pos[1] + n >= TermCols THEN position(x, <<0, t.pos[2] + 1>>)
        ELSE [x EXCEPT !.pos = <<t.pos[1] + n, t.pos[2]>>]

\* The end of print_char: the cursor has left the line or the screen.
Wrapped(t) ==
    LET u == IF t.pos[1] >= TermCols THEN [t EXCEPT !.pos = <<0, t.pos[2] + 1>>] ELSE t
    IN  IF u.pos[2] < TermRows THEN u
        ELSE print_char_at([scroll_up(u) EXCEPT !.pos = <<0, TermRows - 1>>], "_", <<0, TermRows>>)

print_char(t, v) ==
    IF v = "bs" THEN Backspace(t)
    ELSE IF v = "nl"
    THEN Wrapped([clear_line_from_cursor(t) EXCEPT !.pos = <<0, t.pos[2] + 1>>])
    ELSE Wrapped(Glyph(t, v))

Lesser(x, y) == IF x < y THEN x ELSE y
OrOne(n) == IF n = 0 THEN 1 ELSE n

\* handle_ansi_cursor_sequence.  Without a parameter most do nothing.
handle_ansi_cursor_sequence(t, action, ps) ==
    LET x == t.pos[1]
        y == t.pos[2]
        Given(n) == Len(ps) >= n
        Goto(col, row) == IF col < 0 \/ row < 0 THEN Panic(t) ELSE position(t, <<col, row>>)
        Inner(n, size) == IF n > size THEN size - 1 ELSE n
    IN  CASE action = "A" /\ Given(1) -> Goto(x, y - OrOne(ps[1]))
          [] action = "B" /\ Given(1) -> Goto(x, Lesser(y + OrOne(ps[1]), TermRows - 1))
          [] action = "C" /\ Given(1) -> Goto(Lesser(x + OrOne(ps[1]), TermCols - 1), y)
          [] action = "D" /\ Given(1) -> Goto(x - OrOne(ps[1]), y)
          [] action = "E" /\ Given(1) -> Goto(0, Lesser(y + ps[1] + 1, TermRows - 1))
          [] action = "F" /\ Given(1) -> Goto(0, y - ps[1] - 1)
          [] action = "G" /\ Given(1) -> Goto(Lesser(ps[1], TermCols - 1), y)
          [] action \in {"H", "f"} /\ Given(2) ->
                Goto(Inner(ps[1], TermCols), Inner(ps[2], TermRows))
          [] action \in {"H", "f"} /\ ~Given(2) -> Goto(0, 0)
          [] action = "s" -> [t EXCEPT !.saved = t.pos]
          [] action = "u" -> Goto(t.saved[1], t.saved[2])
          [] OTHER -> t

handle_ansi_erase_sequence(t, action, ps) ==
    LET code == IF ps = <<>> THEN 0 ELSE ps[1]
    IN  CASE action = "J" /\ code = 0 -> clear_screen_from_cursor(t)
          [] action = "J" /\ code = 1 -> clear_screen_to_cursor(t)
          [] action = "J" /\ code = 2 -> position(clear_screen(t), <<0, 0>>)
          [] action = "K" /\ code = 0 -> clear_line_from_cursor(t)
          [] action = "K" /\ code = 1 -> clear_line_to_cursor(t)
          [] action = "K" /\ code = 2 -> clear_line(t)
          [] OTHER -> t

csi_dispatch(t, action, ps) ==
    CASE action \in {"A", "B", "C", "D", "E", "F", "G", "H", "f", "n", "s", "u"} ->
           handle_ansi_cursor_sequence(t, action, ps)
      [] action \in {"J", "K"} -> handle_ansi_erase_sequence(t, action, ps)
      [] action = "m" -> [t EXCEPT !.color = handle_ansi_color(@, ps)]
      [] OTHER -> t

execute(t, code) ==
    CASE code \in {"bs", "nl"} -> print_char(t, code)
      [] code = "tab" -> handle_tab(t)
      [] OTHER -> t

-----------------------------------------------------------------------------
(* Tokens: <<"print", v>>, <<"exec", code>>, <<"csi">>, <<"end", action, ps>>. *)

\* anstyle_parse: what a token does to a parser in mode m.
Apply(t, m, tok) ==
    CASE tok[1] = "print" -> print_char(t, tok[2])
      [] tok[1] = "exec" -> execute(t, tok[2])
      [] tok[1] = "csi" -> t
      [] tok[1] = "end" -> IF m = "csi" THEN csi_dispatch(t, tok[2], tok[3])
                           ELSE print_char(t, "a")
After(m, tok) ==
    CASE tok[1] = "csi" -> "csi" [] tok[1] = "exec" -> m [] OTHER -> "ground"
Misread(m, tok) ==
    \/ tok[1] = "end" /\ m = "ground"
    \/ tok[1] = "print" /\ m = "csi"

TermInit ==
    LET dark == Drawn(" ", White, Black)
        scr == [i \in Cells |-> dark]
    IN  /\ termCfg \in TermCfgs
        /\ term = [pos |-> <<0, 1>>, saved |-> <<0, 1>>, color |-> NewColor,
                   buf |-> [i \in 0 .. TermCols * TermRows |-> Cell(" ", White, Black)],
                   back |-> scr, front |-> scr, visible |-> TRUE, panic |-> FALSE]
        /\ parser = "ground" /\ torn = FALSE /\ begun = 0
        /\ writer = [w \in Writers |-> [mode |-> "ground", rest |-> <<>>, busy |-> FALSE]]

\* write_str: the parser is cloned under its lock, ...
WriteBegin(w) ==
    /\ ~writer[w].busy /\ begun < termCfg.count
    /\ \E s \in termCfg.strings :
          writer' = [writer EXCEPT ![w] = [mode |-> parser, rest |-> s, busy |-> TRUE]]
    /\ begun' = begun + 1
    /\ UNCHANGED <<term, parser, torn>>


\* ... advanced byte by byte, each under the locks of the terminal, ...
Advance(w) ==
    /\ writer[w].busy /\ writer[w].rest # <<>>
    /\ LET tok == Head(writer[w].rest)
           m == writer[w].mode
       IN  /\ term' = Apply(term, m, tok)
           /\ torn' = (torn \/ Misread(m, tok))
           /\ writer' = [writer EXCEPT ![w].rest = Tail(@), ![w].mode = After(m, tok)]
    /\ UNCHANGED <<parser, begun>>

\* ... and swapped with the one of the terminal.
WriteEnd(w) ==
    /\ writer[w].busy /\ writer[w].rest = <<>>
    /\ parser' = writer[w].mode
    /\ writer' = [writer EXCEPT ![w].busy = FALSE, ![w].mode = "ground"]
    /\ UNCHANGED <<term, torn, begun>>

\* Terminal::clear.
ClearTerminal ==
    /\ begun < termCfg.count
    /\ term' = position(clear_screen(term), <<0, 0>>)
    /\ begun' = begun + 1
    /\ UNCHANGED <<parser, writer, torn>>

\* CursorThread::run: the cursor or the character below it is drawn on the
\* screen that is seen; every second the status bar is drawn too.
Blink ==
    LET ch == term.buf[CellAt(term.pos)]
        v == IF ~term.visible THEN "block" ELSE IF ch.v = "nul" THEN " " ELSE ch.v
        t == [term EXCEPT !.front = draw_char(@, term.pos, ch.fg, ch.bg, v), !.visible = ~@]
    IN  /\ term' \in {t, draw_status_bar(t)}
        /\ UNCHANGED <<parser, writer, torn, begun>>

TermNext ==
    /\ ~term.panic
    /\ \/ \E w \in termCfg.writers : WriteBegin(w) \/ Advance(w) \/ WriteEnd(w)
       \/ ClearTerminal
       \/ Blink
    /\ UNCHANGED termCfg

TermSpec == TermInit /\ [][TermNext]_termVars

-----------------------------------------------------------------------------
\* Whatever is printed and whichever sequences move it, the cursor stays below the
\* status bar and, but for one column that H can name behind the last, on the screen:
\* so print_char and the blinking cursor find its cell in char_buffer.
CursorInside == term.pos \in (0 .. TermCols) \X (1 .. TermRows - 1)

\* char_buffer, from which the blinking cursor restores what it has covered, says
\* what has been drawn, in its colours: after scrolling, erasing ("Clear line in
\* character buffer", clear_line) and wide glyphs.  It does not where the whole line
\* is erased (K with 2), where text is printed behind the last column, and where
\* backspace draws a character again in another colour.
BufferMatchesBack ==
    \A i \in TextCells :
        LET c == term.buf[i]
        IN  c.fg = Invisible
            \/ term.back[i] = Drawn(IF c.v = "nul" THEN " " ELSE c.v, c.fg, c.bg)

\* The comment in print_char: the cursor "might have been blinking before moving,
\* leaving a filled rectangle at the old position".  Printing, line breaks and
\* backspaces leave none: only at the cursor the seen screen differs from the drawn one.
NoBlockLeft ==
    termCfg.plain => \A i \in Cells \ {CellAt(term.pos)} : term.front[i] = term.back[i]

\* A writer that is interrupted within an escape sequence goes on with its own
\* state of the parser, whatever other writers print meanwhile.
SequencesWhole == ~torn

=============================================================================
