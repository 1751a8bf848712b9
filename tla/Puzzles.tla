------------------------------- MODULE Puzzles -------------------------------
(***************************************************************************)
(* The generators behind the daily puzzles, as the steps of their loops:   *)
(* packing a crossword (services/crossword.py), hiding the words of a word *)
(* search (services/word_search.py), emptying a sudoku                     *)
(* (services/sudoku.py) and measuring a word ladder                        *)
(* (services/daily_games.py).  Sizes are parameters; a random choice is    *)
(* any choice.  A word is a sequence of letters, 0 an empty cell.          *)
(***************************************************************************)
EXTENDS Integers, Sequences, FiniteSets

CONSTANTS
    Size,       \* SIZE of the crossword and of the word search
    Bank,       \* WORD_BANK, or the bank from APIVerve
    Hidden,     \* the words of the theme
    MaxPlaced,  \* 16: words of a crossword
    Box,        \* 3: side of a sudoku's box
    MinGivens,  \* 36
    LadderWords

VARIABLES
    algo,   \* the generator at work
    grid, placed,           \* crossword and word search
    board, solution, todo,  \* sudoku: todo is what removal_order has left
    from, to, visited, frontier, steps  \* word ladder

pvars == <<algo, grid, placed, board, solution, todo, from, to, visited, frontier, steps>>

Cell == (1 .. Size) \X (1 .. Size)
Along(c, d, i) == <<c[1] + i * d[1], c[2] + i * d[2]>>
Across == <<0, 1>>
Down == <<1, 0>>
EmptyGrid == [c \in Cell |-> 0]
Filled(g, c) == c \in Cell /\ g[c] # 0
Cells(s) == {Along(s.at, s.dir, i - 1) : i \in 1 .. Len(s.word)}
Put(g, s) == [c \in Cell |-> IF c \in Cells(s)
                THEN s.word[CHOOSE i \in 1 .. Len(s.word) : Along(s.at, s.dir, i - 1) = c] ELSE g[c]]

-----------------------------------------------------------------------------
(* _can_place and _pack_word_bank.                                         *)

Sides(d) == IF d = Across THEN {<<1, 0>>, <<-1, 0>>} ELSE {<<0, 1>>, <<0, -1>>}

\* A letter meets an equal one, or an empty cell with nothing beside it.
Fits(g, s, i) ==
    LET c == Along(s.at, s.dir, i - 1) IN
    \/ g[c] = s.word[i]
    \/ g[c] = 0 /\ \A o \in Sides(s.dir) : ~Filled(g, Along(c, o, 1))

\* Mutant of CanPlace: the cells before and after the word do not matter.
CanPlaceAnywhere(g, s) ==
    /\ Cells(s) \subseteq Cell
    /\ \A i \in 1 .. Len(s.word) : Fits(g, s, i)
    /\ \E c \in Cells(s) : g[c] # 0

CanPlace(g, s) ==
    /\ Cells(s) \subseteq Cell
    /\ ~Filled(g, Along(s.at, s.dir, -1)) /\ ~Filled(g, Along(s.at, s.dir, Len(s.word)))
    /\ \A i \in 1 .. Len(s.word) : Fits(g, s, i)
    /\ \E c \in Cells(s) : g[c] # 0

Words(p) == {p[i].word : i \in DOMAIN p}

PlaceFirst ==
    /\ algo = "crossword" /\ placed = <<>>
    /\ \E w \in Bank :
        LET s == [word |-> w, at |-> <<(Size \div 2) + 1, ((Size - Len(w)) \div 2) + 1>>, dir |-> Across]
        IN  grid' = Put(grid, s) /\ placed' = <<s>>
    /\ UNCHANGED <<algo, board, solution, todo, from, to, visited, frontier, steps>>

PlaceCrossing ==
    /\ algo = "crossword" /\ placed # <<>> /\ Len(placed) < MaxPlaced
    /\ \E w \in Bank \ Words(placed), c \in Cell, d \in {Across, Down} :
        LET s == [word |-> w, at |-> c, dir |-> d]
        IN  CanPlace(grid, s) /\ grid' = Put(grid, s) /\ placed' = Append(placed, s)
    /\ UNCHANGED <<algo, board, solution, todo, from, to, visited, frontier, steps>>

-----------------------------------------------------------------------------
(* _entries: the slots of three and more cells that validate_and_normalize *)
(* numbers, and its conditions on a grid without symmetry.                 *)

Run(g, c, d) == CHOOSE n \in 1 .. Size : ~Filled(g, Along(c, d, n)) /\ \A i \in 0 .. n - 1 : Filled(g, Along(c, d, i))
Starts(g, d) == {c \in Cell : Filled(g, c) /\ ~Filled(g, Along(c, d, -1))}
Entries(g) ==
    {[at |-> c, dir |-> d, len |-> Run(g, c, d)] : <<c, d>> \in
        {<<x, e>> \in Cell \X {Across, Down} : x \in Starts(g, e) /\ \A i \in 1 .. 2 : Filled(g, Along(x, e, i))}}

White(g) == {c \in Cell : g[c] # 0}
Covered(g) == UNION {{Along(e.at, e.dir, i) : i \in 0 .. e.len - 1} : e \in Entries(g)}
NoPairs(g) == \A d \in {Across, Down} : \A c \in Starts(g, d) : Run(g, c, d) # 2
RECURSIVE Flood(_, _)
Flood(g, seen) ==
    LET more == {c \in White(g) \ seen : \E d \in Sides(Across) \cup Sides(Down) : Along(c, d, 1) \in seen}
    IN  IF more = {} THEN seen ELSE Flood(g, seen \cup more)
Connected(g) == Flood(g, {CHOOSE c \in White(g) : TRUE}) = White(g)

\* _grid_to_puzzle: the clue of a slot is that of the last word placed there.
SlotWords(p, e) == {i \in DOMAIN p : p[i].at = e.at /\ p[i].dir = e.dir}
ClueWord(p, e) == p[CHOOSE i \in SlotWords(p, e) : \A j \in SlotWords(p, e) : j <= i].word

-----------------------------------------------------------------------------
(* place_words: longest word first, in any of eight directions.            *)

Compass == {-1, 0, 1} \X {-1, 0, 1} \ {<<0, 0>>}

Agrees(g, s) ==
    /\ Cells(s) \subseteq Cell
    /\ \A i \in 1 .. Len(s.word) : g[Along(s.at, s.dir, i - 1)] \in {0, s.word[i]}

HideWord ==
    /\ algo = "search"
    /\ \E w \in Hidden \ Words(placed), c \in Cell, d \in Compass :
        LET s == [word |-> w, at |-> c, dir |-> d] IN
        /\ \A x \in Hidden \ Words(placed) : Len(x) <= Len(w)
        /\ Agrees(grid, s)
        /\ grid' = Put(grid, s) /\ placed' = Append(placed, s)
    /\ UNCHANGED <<algo, board, solution, todo, from, to, visited, frontier, steps>>

-----------------------------------------------------------------------------
(* generate_daily_sudoku and _count_solutions.                             *)

Side == Box * Box
Square == (0 .. Side - 1) \X (0 .. Side - 1)
SameHouse(a, b) ==
    a[1] = b[1] \/ a[2] = b[2] \/ (a[1] \div Box = b[1] \div Box /\ a[2] \div Box = b[2] \div Box)
Candidates(b, s) == (1 .. Side) \ {b[x] : x \in {y \in Square : SameHouse(y, s)}}

\* The pattern that the shuffled rows, columns and numbers rearrange.
Pattern == [s \in Square |-> ((s[1] * Box + s[1] \div Box + s[2]) % Side) + 1]
\* shuffled_groups: groups change places, and so do the lines of a group.
Swaps == {[i \in 0 .. Side - 1 |-> i],
          [i \in 0 .. Side - 1 |-> IF i < Box THEN (i + Box) % Side ELSE (i + 1) % Box]}
Shuffled == {[s \in Square |-> Pattern[<<r[s[1]], c[s[2]]>>]] : r, c \in Swaps}

Blank(b) == {s \in Square : b[s] = 0}
Tightest(b) == CHOOSE s \in Blank(b) : \A x \in Blank(b) : Cardinality(Candidates(b, s)) <= Cardinality(Candidates(b, x))

Cap(n) == IF n > 2 THEN 2 ELSE n

\* Up to two solutions are counted.
RECURSIVE CountSolutions(_)
RECURSIVE CountBranches(_, _, _)
CountSolutions(b) == IF Blank(b) = {} THEN 1 ELSE CountBranches(b, Tightest(b), Candidates(b, Tightest(b)))
CountBranches(b, s, vs) ==
    IF vs = {} THEN 0
    ELSE LET v == CHOOSE x \in vs : TRUE
             n == CountSolutions([b EXCEPT ![s] = v])
         IN  IF n >= 2 THEN 2 ELSE Cap(n + CountBranches(b, s, vs \ {v}))

Unique(b) == CountSolutions(b) = 1

Empty(s) ==
    /\ algo = "sudoku" /\ s \in todo
    /\ Cardinality(Square \ Blank(board)) > MinGivens
    /\ todo' = todo \ {s}
    /\ board' = IF Unique([board EXCEPT ![s] = 0]) THEN [board EXCEPT ![s] = 0] ELSE board
    /\ UNCHANGED <<algo, grid, placed, solution, from, to, visited, frontier, steps>>

-----------------------------------------------------------------------------
(* _shortest_ladder_steps: breadth first.                                  *)

OneApart(v, w) == Len(v) = Len(w) /\ Cardinality({i \in 1 .. Len(v) : v[i] # w[i]}) = 1

Climb ==
    LET next == {w \in LadderWords \ visited : \E v \in frontier : OneApart(v, w)} IN
    /\ algo = "ladder" /\ frontier # {} /\ to \notin visited
    /\ steps' = steps + 1
    /\ visited' = visited \cup next /\ frontier' = next
    /\ UNCHANGED <<algo, grid, placed, board, solution, todo, from, to>>

PuzzlesInit ==
    /\ algo \in {"crossword", "search", "sudoku", "ladder"}
    /\ grid = EmptyGrid /\ placed = <<>>
    /\ solution \in IF algo = "sudoku" THEN Shuffled ELSE {Pattern}
    /\ board = solution /\ todo = Square
    /\ from \in LadderWords /\ to \in LadderWords /\ steps = 0
    /\ algo # "ladder" => from = to /\ from = CHOOSE w \in LadderWords : TRUE
    /\ visited = {from} /\ frontier = {from}

PuzzlesNext == PlaceFirst \/ PlaceCrossing \/ HideWord \/ Climb \/ \E s \in Square : Empty(s)

-----------------------------------------------------------------------------
(* Properties.                                                             *)

\* Whatever has been packed passes validate_and_normalize, and every slot
\* it numbers has the clue of the letters that are in it: _grid_to_puzzle
\* finds no slot without a clue, which would be an error for the reader.
PackedGridIsAPuzzle ==
    (algo = "crossword" /\ placed # <<>>) =>
        /\ NoPairs(grid) /\ Covered(grid) = White(grid) /\ Connected(grid)
        /\ \A e \in Entries(grid) :
            /\ SlotWords(placed, e) # {}
            /\ ClueWord(placed, e) = [i \in 1 .. e.len |-> grid[Along(e.at, e.dir, i - 1)]]

\* No word hidden later takes a letter from an earlier one (place_words).
WordsStayFound ==
    algo = "search" => \A i \in DOMAIN placed :
        \A j \in 1 .. Len(placed[i].word) : grid[Along(placed[i].at, placed[i].dir, j - 1)] = placed[i].word[j]

\* The grids that solve a board, without heuristics and limits.
Grids == LET RECURSIVE Fill(_, _)
             Fill(bs, ss) == IF ss = {} THEN bs ELSE
                LET s == CHOOSE x \in ss : TRUE
                IN  Fill(UNION {{[b EXCEPT ![s] = v] : v \in Candidates(b, s)} : b \in bs}, ss \ {s})
         IN  Fill({[s \in Square |-> 0]}, Square)

\* However many cells have been emptied, the stored solution is the only
\* one (generate_daily_sudoku serves both).
OneSolution ==
    algo = "sudoku" => {g \in Grids : \A s \in Square : board[s] # 0 => g[s] = board[s]} = {solution}

\* The number of steps a ladder is scored against is that of a shortest way.
Ways(n) == {p \in [0 .. n -> LadderWords] : p[0] = from /\ p[n] = to /\ \A i \in 1 .. n : OneApart(p[i - 1], p[i])}
ShortestLadder ==
    (algo = "ladder" /\ to \in visited) => Ways(steps) # {} /\ \A n \in 0 .. steps - 1 : Ways(n) = {}

\* What is stored can be solved, and only in the stored way.
PuzzlesAreSolvable == PackedGridIsAPuzzle /\ WordsStayFound /\ OneSolution /\ ShortestLadder
=============================================================================
