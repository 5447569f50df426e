------------------------------ MODULE PnoxOmok ------------------------------
(***************************************************************************)
(* omok0001, a service that plays a board game: the message is the board   *)
(* after the player's stone, the reply the board after the computer's.     *)
(* The program is started for every message and keeps nothing.             *)
(*                                                                         *)
(* The code's board has MaxRow = 15 and a line has Five = 5.  ai_determine *)
(* chooses the best rated cell, the nearest to the middle among equals,    *)
(* but never one in the first row or column, whose distance is 0: then     *)
(* the cell is left uninitialized, and is any cell here or none.           *)
(***************************************************************************)
EXTENDS Integers, Sequences, SequencesExt

CONSTANTS
  MaxRow,     \* MAX_ROW
  Five,       \* stones in a line that wins
  Patterns,   \* lines of omok.cfg: a flag and a sequence of marks
  MaxMoves    \* bound: stones of the player

\* init_pattern keeps only the lines whose flag is 'D' or 'A'.
ASSUME OmokAssumption ==
  /\ MaxRow \in Nat /\ Five \in Nat
  /\ 2 <= Five /\ Five <= MaxRow
  /\ MaxMoves \in Nat
  /\ Patterns \in Seq([flag : {"D", "A"}, p : Seq(Int)])

MAN == 121
COM == 122
MAX_NICE == 99
DEFENSE_RATE == 5

Index == 0 .. MaxRow - 1
Cell == Index \X Index
Least(a, b) == IF a <= b THEN a ELSE b

VARIABLES
  board,   \* stones and empty cells, 0
  turn,    \* whose turn it is
  stat,    \* as in the reply: 1 the player has won, 2 the computer
  moves

gameVars == <<board, turn, stat, moves>>

GameInit ==
  /\ board = [c \in Cell |-> 0]
  /\ turn = "man"
  /\ stat = 0
  /\ moves = 0

-----------------------------------------------------------------------------
(* ai_isend: a stone with enough of its kind to the right, down, down      *)
(* right or up right of it, looked for where a line still fits.            *)

Step(drec) ==
  CASE drec = 0 -> <<0, 1>> [] drec = 1 -> <<1, 0>>
    [] drec = 2 -> <<1, 1>> [] drec = 3 -> <<-1, 1>>

\* Wrong variant: rows begin one too late for lines that go up.
LateStarts(drec) ==
  (CASE drec = 0 -> Index [] drec = 3 -> Five .. MaxRow - 1
     [] OTHER -> 0 .. MaxRow - Five)
  \X (IF drec = 1 THEN Index ELSE 0 .. MaxRow - Five)

\* Rows and columns where a line begins: idx_start, idx_i and idx_j.
Starts(drec) ==
  (CASE drec = 0 -> Index [] drec = 3 -> Five - 1 .. MaxRow - 1
     [] OTHER -> 0 .. MaxRow - Five)
  \X (IF drec = 1 THEN Index ELSE 0 .. MaxRow - Five)

Along(c, step, k) == <<c[1] + k * step[1], c[2] + k * step[2]>>

ai_isend(b, who) ==
  \E drec \in 0 .. 3 : \E c \in Starts(drec) :
    \A k \in 0 .. Five - 1 :
      LET d == Along(c, Step(drec), k) IN d \in Cell /\ b[d] = who

-----------------------------------------------------------------------------
(* ai_pattern: the rating of empty cells by a pattern.                     *)

Rates(mark) == mark # 0 /\ mark <= MAX_NICE

\* ai_nice: a rating is kept between 0 and MAX_NICE.
Nicer(rating, val) ==
  IF rating + val > MAX_NICE THEN MAX_NICE
  ELSE IF rating + val < 0 THEN 0 ELSE rating + val

\* A mark with a rating fits an empty cell, another one its own stone.
Fits(b, c, mark) ==
  c \in Cell /\ IF Rates(mark) THEN b[c] <= MAX_NICE ELSE b[c] = mark

Matches(b, c, step, p) ==
  \A k \in DOMAIN p : Fits(b, Along(c, step, k - 1), p[k])

\* What every match in one direction adds to each cell, the match that begins
\* farthest back first.  Ratings leave stones and empty cells what they are, so
\* that the matches are those on the board as it was at first.
RateAlong(b, rated, step, p, rate) ==
  [d \in Cell |->
    FoldLeft(LAMBDA v, k : IF Rates(p[k]) /\ Matches(b, Along(d, step, 1 - k), step, p)
                           THEN Nicer(v, p[k] * rate) ELSE v,
             rated[d], Reverse([k \in DOMAIN p |-> k]))]

\* To the right, down, down left, and down right.
ai_pattern(b, pattern, mode, rate) ==
  IF pattern.flag # mode THEN b
  ELSE FoldLeft(LAMBDA rated, step : RateAlong(b, rated, step, pattern.p, rate), b,
                << <<0, 1>>, <<1, 0>>, <<1, -1>>, <<1, 1>> >>)

-----------------------------------------------------------------------------
(* ai_npgo.                                                                *)

Nice(b) == {b[c] : c \in {d \in Cell : b[d] \in 1 .. MAX_NICE}}

ai_maxnice(b) ==
  IF Nice(b) = {} THEN 0 ELSE CHOOSE v \in Nice(b) : \A w \in Nice(b) : w <= v

\* Where the loop over the patterns stops.
Ends(pattern) == pattern.flag \in {"D", "A"}

RateBy(b, pattern) ==
  LET defence == ai_pattern(b, pattern, "D", 1)
  IN  ai_pattern(defence, pattern, "A",
                 IF ai_maxnice(defence) < DEFENSE_RATE THEN 3 ELSE 1)

RateByAll(b) ==
  FoldLeft(LAMBDA acc, pattern :
             IF acc.done \/ Ends(pattern) THEN [acc EXCEPT !.done = TRUE]
             ELSE [acc EXCEPT !.b = RateBy(@, pattern)],
           [b |-> b, done |-> FALSE], Patterns).b

Distance(i) == Least(i, MaxRow - i)
Area(c) == Distance(c[1]) * Distance(c[2])

\* Wrong variant: the middle, whatever is there.
NearMiddle(b) == Cell

\* The cells with the best rating.
Best(b) == LET max == ai_maxnice(b) IN {c \in Cell : b[c] = max}

\* The first one of the largest area in the order of the scan, or garbage.
ai_determine(b) ==
  LET inner == {c \in Best(b) : Area(c) > 0}
      large == {c \in inner : \A d \in inner : Area(d) <= Area(c)}
      before(c, d) == c[1] * MaxRow + c[2] <= d[1] * MaxRow + d[2]
  IN  IF inner = {} THEN Cell \union {<<MaxRow, MaxRow>>}
      ELSE {CHOOSE c \in large : \A d \in large : before(c, d)}

-----------------------------------------------------------------------------
(* The game.                                                               *)

\* The player, by a client that keeps to the rules.
ManMoves(c) ==
  /\ turn = "man" /\ stat = 0
  /\ board[c] = 0
  /\ moves < MaxMoves /\ moves' = moves + 1
  /\ board' = [board EXCEPT ![c] = MAN]
  /\ turn' = "com"
  /\ UNCHANGED stat

\* omok0001; a stone at <<MaxRow, MaxRow>> is one outside the board.
ComMoves ==
  /\ turn = "com"
  /\ turn' = "man"
  /\ UNCHANGED moves
  /\ \/ /\ ai_isend(board, MAN)
        /\ stat' = 1
        /\ UNCHANGED board
     \/ /\ ~ai_isend(board, MAN)
        /\ \E c \in ai_determine(RateByAll(board)) :
             LET b == [d \in Cell |-> IF d = c THEN COM ELSE board[d]]
             IN  /\ board' = b
                 /\ stat' = IF ai_isend(b, COM) THEN 2 ELSE 0

GameNext == ComMoves \/ \E c \in Cell : ManMoves(c)

Game == GameInit /\ [][GameNext]_gameVars

-----------------------------------------------------------------------------
(* Properties.                                                             *)

Stones(b, who) == {c \in Cell : b[c] = who}

\* A line in the sense of the game: some cells next to each other in one of
\* eight directions, wherever it lies.
Line(who, b) ==
  \E c \in Stones(b, who), s \in (-1 .. 1) \X (-1 .. 1) :
    s # <<0, 0>> /\ \A k \in 0 .. Five - 1 : Along(c, s, k) \in Stones(b, who)

\* ai_isend, which looks in four directions and from where a line fits, finds
\* a line exactly when there is one, and a reply names the one who has it.
EndExact ==
  /\ \A who \in {MAN, COM} : ai_isend(board, who) <=> Line(who, board)
  /\ turn = "man" => /\ stat = 1 <=> Line(MAN, board)
                     /\ stat # 1 => (stat = 2 <=> Line(COM, board))

\* The computer puts one stone on an empty cell, as long as there is one
\* outside the first row and column.
PlaysFree ==
  [][turn = "com" /\ stat' # 1 /\ (\E c \in Cell : board[c] = 0 /\ Area(c) > 0) =>
       \E c \in Cell : board[c] = 0 /\ board' = [board EXCEPT ![c] = COM]]_gameVars
=============================================================================
