--------------------------- MODULE Console_proofs ---------------------------
(***************************************************************************)
(* The prompt, for any lines, any songs and any size of an int.  The words *)
(* of a line are counted without following strtok along it: a word but the *)
(* first has a space right before it, which is an injection of the words   *)
(* into the spaces.  The rest is the invariant ConsoleInv, which says what *)
(* the variables of a line are at each place of the main thread.           *)
(***************************************************************************)
EXTENDS Console, FiniteSetTheorems, FunctionTheorems, SequenceTheorems,
        WellFoundedInduction, TLAPS

-----------------------------------------------------------------------------
(* The words of a line.                                                     *)

LEMMA LeastNumber ==
    ASSUME NEW S \in SUBSET Nat, S # {}
    PROVE  \E m \in S : \A k \in S : m <= k
<1> DEFINE R == OpToRel(<, Nat)
<1>1. IsWellFoundedOn(R, Nat)
  BY NatLessThanWellFounded
<1>2. \A a, b \in Nat : a < b => << a, b >> \in R
  BY DEF OpToRel
<1> HIDE DEF R
<1>3. PICK m \in S : \A k \in S : ~(<< k, m >> \in R)
  BY <1>1, WFMin
<1>4. \A k \in S : ~(k < m) /\ k \in Nat /\ m \in Nat
  BY <1>2, <1>3
<1> QED
  BY <1>4

\* The n-th of a finite set of numbers is there, for every n up to its size:
\* the numbers counted grow by at most one from one place to the next.
LEMMA Nth ==
    ASSUME NEW len \in Nat, NEW S \in SUBSET (1 .. len), NEW n \in 1 .. Cardinality(S)
    PROVE  \E i \in S : Cardinality({j \in S : j <= i}) = n
<1> DEFINE Upto(i) == {j \in S : j <= i}
           Enough == {i \in Nat : i <= len /\ Cardinality(Upto(i)) >= n}
<1>0. \A j \in S : j \in Nat /\ 1 <= j /\ j <= len
  OBVIOUS
<1>1. IsFiniteSet(S)
  <2>1. IsFiniteSet(1 .. len) /\ S \in SUBSET (1 .. len)
    BY FS_Interval
  <2> QED
    BY <2>1, FS_Subset
<1>2. \A i : IsFiniteSet(Upto(i)) /\ Cardinality(Upto(i)) \in Nat
  <2> TAKE i
  <2>1. Upto(i) \in SUBSET S
    OBVIOUS
  <2> QED
    BY <1>1, <2>1, FS_Subset, FS_CardinalityType
<1>3. Cardinality(S) \in Nat /\ n \in Nat /\ n >= 1 /\ n <= Cardinality(S)
  BY <1>1, FS_CardinalityType
<1>4. len \in Enough
  <2>1. Upto(len) = S
    BY <1>0
  <2> QED
    BY <1>3, <2>1
<1>5. PICK m \in Enough : \A k \in Enough : m <= k
  <2>1. Enough \in SUBSET Nat /\ Enough # {}
    BY <1>4
  <2> HIDE DEF Enough
  <2> QED
    BY <2>1, LeastNumber
<1>6. m \in Nat /\ m <= len /\ Cardinality(Upto(m)) >= n
  BY <1>5
<1>7. m # 0
  <2>1. \A j \in S : ~(j <= 0)
    BY <1>0
  <2>2. Upto(0) = {}
    BY <2>1
  <2> QED
    BY <1>3, <1>6, <2>2, FS_EmptySet
<1>8. Cardinality(Upto(m - 1)) < n
  <2>1. m - 1 \in Nat /\ m - 1 <= len /\ ~(m <= m - 1)
    BY <1>6, <1>7
  <2>2. m - 1 \notin Enough
    BY <1>5, <2>1
  <2>3. ~(Cardinality(Upto(m - 1)) >= n)
    BY <2>1, <2>2
  <2> HIDE DEF Upto
  <2> QED
    BY <1>2, <1>3, <2>3
<1>9. Upto(m) = IF m \in S THEN Upto(m - 1) \cup {m} ELSE Upto(m - 1)
  <2>1. ASSUME NEW j \in S
        PROVE  j <= m <=> (j <= m - 1 \/ j = m)
    BY <1>0, <1>6
  <2>2. CASE m \in S
    BY <2>1, <2>2
  <2>3. CASE m \notin S
    BY <2>1, <2>3
  <2> QED
    BY <2>2, <2>3
<1>10. m \in S /\ m \notin Upto(m - 1)
  <2>1. m \notin Upto(m - 1)
    BY <1>6
  <2> HIDE DEF Upto
  <2>2. m \in S
    BY <1>2, <1>3, <1>6, <1>8, <1>9
  <2> QED
    BY <2>1, <2>2
<1>11. Cardinality(Upto(m)) = Cardinality(Upto(m - 1)) + 1
  <2> HIDE DEF Upto
  <2> QED
    BY <1>2, <1>9, <1>10, FS_AddElement
<1>12. Cardinality(Upto(m)) = n
  <2> HIDE DEF Upto
  <2> QED
    BY <1>2, <1>3, <1>6, <1>8, <1>11
<1> QED
  BY <1>10, <1>12

\* What a line is.
LEMMA LineTyped ==
    ASSUME NEW l \in Lines
    PROVE  /\ l \in Seq(Tokens) /\ Len(l) \in Nat /\ DOMAIN l = 1 .. Len(l)
           /\ WordsOf(l) \in SUBSET (1 .. Len(l)) /\ SpacesOf(l) \in SUBSET (1 .. Len(l))
           /\ IsFiniteSet(WordsOf(l)) /\ IsFiniteSet(SpacesOf(l))
           /\ Cardinality(WordsOf(l)) \in Nat /\ Cardinality(SpacesOf(l)) \in Nat
<1>1. l \in Seq(Tokens)
  BY ConsoleAssumption
<1>2. Len(l) \in Nat /\ DOMAIN l = 1 .. Len(l)
  BY <1>1
<1>3. WordsOf(l) \in SUBSET (1 .. Len(l)) /\ SpacesOf(l) \in SUBSET (1 .. Len(l))
  BY <1>2 DEF WordsOf, SpacesOf
<1>4. IsFiniteSet(1 .. Len(l))
  BY <1>2, FS_Interval
<1>5. IsFiniteSet(WordsOf(l)) /\ IsFiniteSet(SpacesOf(l))
  BY <1>3, <1>4, FS_Subset
<1> QED
  BY <1>1, <1>2, <1>3, <1>5, FS_CardinalityType

\* Every word is one of the line.
LEMMA WordsTyped ==
    ASSUME NEW l \in Lines
    PROVE  /\ Words(l) \in Seq(Tokens)
           /\ Len(Words(l)) = Cardinality(WordsOf(l))
<1>1. \A n \in 1 .. Cardinality(WordsOf(l)) : WordAt(l, n) \in WordsOf(l)
  <2> TAKE n \in 1 .. Cardinality(WordsOf(l))
  <2>1. \E i \in WordsOf(l) : Cardinality({j \in WordsOf(l) : j <= i}) = n
    BY LineTyped, Nth
  <2> QED
    BY <2>1 DEF WordAt
<1>2. \A i \in WordsOf(l) : l[i] \in Tokens
  BY LineTyped
<1>3. Words(l) \in [1 .. Cardinality(WordsOf(l)) -> Tokens]
  BY <1>1, <1>2 DEF Words
<1>4. Cardinality(WordsOf(l)) \in Nat
  BY LineTyped
<1> QED
  BY <1>3, <1>4

\* There is room for the words where parse_line makes it (utils.c:41-45): there
\* is at most one word more than spaces.
LEMMA WordsFit ==
    ASSUME NEW l \in Lines
    PROVE  Len(Words(l)) <= count_words(l)
<1> DEFINE W == WordsOf(l)
           B == SpacesOf(l) \cup {0}
           Before == [i \in W |-> i - 1]
<1>1. /\ W \in SUBSET (1 .. Len(l)) /\ Len(l) \in Nat /\ IsFiniteSet(SpacesOf(l))
      /\ DOMAIN l = 1 .. Len(l)
  BY LineTyped
<1>2. ASSUME NEW i \in W, i # 1
      PROVE  i - 1 \in SpacesOf(l)
  <2>1. i \in 2 .. Len(l) /\ i - 1 \in 1 .. Len(l) - 1 /\ (i - 1) + 1 = i
    BY <1>1, <1>2
  <2>2. Space \in {l[i - 1], l[(i - 1) + 1]}
    BY <2>1, ConsoleAssumption
  <2>3. l[i] # Space
    BY <1>1, <2>1 DEF WordsOf, SpacesOf
  <2>4. l[i - 1] = Space /\ i - 1 \in DOMAIN l
    BY <1>1, <2>1, <2>2, <2>3
  <2> QED
    BY <2>4 DEF SpacesOf
<1>3. Before \in [W -> B]
  BY <1>1, <1>2
<1>4. \A i, k \in W : Before[i] = Before[k] => i = k
  BY <1>1
<1>5. Before \in Injection(W, B)
  <2> HIDE DEF Before, W, B
  <2> QED
    BY <1>3, <1>4 DEF Injection, IsInjective
<1>6. IsFiniteSet(B) /\ Cardinality(B) = Cardinality(SpacesOf(l)) + 1
  <2>1. 0 \notin SpacesOf(l)
    BY <1>1 DEF SpacesOf
  <2> QED
    BY <1>1, <2>1, FS_AddElement
<1>7. Cardinality(W) <= Cardinality(B)
  <2> HIDE DEF Before, W, B
  <2> QED
    BY <1>5, <1>6, FS_Injection
<1> QED
  BY <1>6, <1>7, WordsTyped DEF count_words

-----------------------------------------------------------------------------
(* The inductive invariant.                                                 *)

\* While a line is dispatched, args are its words; a handler that runs was
\* given its argument.
LineInv ==
    /\ args \in Seq(Tokens)
    /\ pc = "line" =>
          line \in Lines /\ args = Words(line) /\ nwords = count_words(line)
    /\ pc = "call" =>
          called \in {<< name >> : name \in Plain} \cup (WithArgument \X Tokens)

\* A player that plays has something to play.
Playable(p) == p \in Players /\ (p.status = "playing" => p.playlist # << >>)
PlayerInv == player # NoPlayer => Playable(player)

ConsoleInv ==
    /\ FailsOnlyWhere
    /\ LineInv
    /\ PlayerInv
    /\ pc = "setup" => sockfd = "none"

-----------------------------------------------------------------------------
(* What the handlers do to a player, and to an int.                         *)

LEMMA IntTyped ==
    ASSUME NEW n \in Int
    PROVE  AsInt(n) \in Int /\ (n \in 0 .. INT_MAX => AsInt(n) = n)
<1> DEFINE m == INT_MAX + 1
           a == n + m
<1>1. m \in Nat /\ m > 0 /\ a \in Int
  BY ConsoleAssumption
<1>2. /\ a % (2 * m) \in Int
      /\ a \in 0 .. 2 * m - 1 => a % (2 * m) = a
  <2> HIDE DEF a, m
  <2> QED
    BY <1>1, SMTT(30)
<1>3. AsInt(n) = (a % (2 * m)) - m
  BY ConsoleAssumption DEF AsInt
<1>4. n \in 0 .. INT_MAX => a \in 0 .. 2 * m - 1
  BY ConsoleAssumption
<1>5. a = n + m
  OBVIOUS
<1> HIDE DEF a, m
<1> QED
  BY <1>1, <1>2, <1>3, <1>4, <1>5

LEMMA QuotientTyped ==
    ASSUME NEW n \in Int
    PROVE  /\ Quotient(n, 100) \in Int
           /\ n >= 0 => Quotient(n, 100) * 100 <= n /\ n < (Quotient(n, 100) + 1) * 100
BY SMTT(30) DEF Quotient

LEMMA TickTyped ==
    ASSUME NEW percent \in Int, NEW total \in Nat
    PROVE  TickOf(percent, total) \in Int
<1>1. percent * total \in Int
  OBVIOUS
<1> QED
  BY <1>1, IntTyped, QuotientTyped DEF TickOf

LEMMA PlayerFields ==
    ASSUME NEW p \in Players
    PROVE  /\ p.status \in Status /\ p.playlist \in Seq(Songs) /\ p.current \in Nat
           /\ p.loop \in Int /\ p.total \in Nat /\ p.tick \in Nat /\ p.seek \in Int
BY DEF Players

LEMMA PlayerEdited ==
    ASSUME NEW p \in Players
    PROVE  /\ \A n \in Nat : /\ [p EXCEPT !.current = n] \in Players
                            /\ [p EXCEPT !.total = n] \in Players
                            /\ [p EXCEPT !.tick = n] \in Players
           /\ \A k \in Int : /\ [p EXCEPT !.loop = k] \in Players
                            /\ [p EXCEPT !.seek = k] \in Players
BY DEF Players

LEMMA SetupTyped ==
    ASSUME NEW p, NEW song \in Songs
    PROVE  Playable(player_add(player_setup(p), song))
<1>1. Append(<< >>, song) \in Seq(Songs)
  OBVIOUS
<1>2. player_add(player_setup(p), song)
        = [status |-> "ready", playlist |-> Append(<< >>, song), current |-> 0, loop |-> 1,
           total |-> 0, tick |-> 0, seek |-> -1]
  BY DEF player_add, player_setup, new_fluid_player
<1>3. player_add(player_setup(p), song) \in Players
  BY <1>1, <1>2 DEF Players, Status
<1>4. player_add(player_setup(p), song).status = "ready"
  BY <1>2
<1> QED
  BY <1>3, <1>4 DEF Playable

LEMMA ControlsTyped ==
    ASSUME NEW p, Playable(p), NEW tick \in Int, NEW n \in Int
    PROVE  /\ Playable(player_play(p)) /\ Playable(player_pause(p))
           /\ Playable(player_setloop(p, n)) /\ Playable(player_seek(p, tick))
           /\ Playable(player_restart(p))
<1> USE DEF Playable, Players, Status
<1>1. Playable(player_play(p))
  BY DEF player_play
<1>2. Playable(player_pause(p))
  BY DEF player_pause
<1>3. Playable(player_setloop(p, n))
  BY DEF player_setloop
<1>4. \A t \in Int : Playable(player_seek(p, t))
  BY DEF player_seek
<1>5. Playable(player_restart(p))
  BY <1>4 DEF player_restart
<1> HIDE DEF Playable, Players, Status
<1> QED
  BY <1>1, <1>2, <1>3, <1>4, <1>5

LEMMA AdvanceTyped ==
    ASSUME NEW p, Playable(p), p.status = "playing"
    PROVE  Playable(Advance(p)) /\ Playable(Forgets(Advance(p)))
<1>1. /\ p \in Players /\ p.playlist # << >>
      /\ p.playlist \in Seq(Songs) /\ p.current \in Nat /\ p.total \in Nat
      /\ p.tick \in Nat /\ p.seek \in Int /\ p.loop \in Int
  BY PlayerFields DEF Playable
<1>2. NextFile(p) \in 0 .. Len(p.playlist)
  BY <1>1 DEF NextFile
<1>3. Playable(LoadsNext(p))
  <2> DEFINE next == NextFile(p)
  <2>1. CASE next = 0
    BY <1>1, <2>1 DEF LoadsNext, Playable, Players, Status
  <2>2. CASE next # 0
    <3>1. next \in 1 .. Len(p.playlist) /\ next \in Nat
      BY <1>1, <1>2, <2>2
    <3>2. Length[p.playlist[next]] \in Nat
      BY <1>1, <3>1, PlayerAssumption
    <3>3. (IF next = 1 /\ p.loop > 0 THEN p.loop - 1 ELSE p.loop) \in Int
      BY <1>1
    <3>4. LoadsNext(p) = [p EXCEPT !.current = next,
              !.loop = IF next = 1 /\ p.loop > 0 THEN p.loop - 1 ELSE p.loop,
              !.total = Length[p.playlist[next]],
              !.tick = 0]
      BY <2>2, <1>1 DEF LoadsNext, Players
    <3>5. LoadsNext(p).status = p.status /\ LoadsNext(p).playlist = p.playlist
      <4> HIDE DEF next
      <4> QED
        BY <1>1, <3>4 DEF Players
    <3>6. LoadsNext(p) \in Players
      <4> HIDE DEF next
      <4> QED
        <5> DEFINE loop == IF next = 1 /\ p.loop > 0 THEN p.loop - 1 ELSE p.loop
                   total == Length[p.playlist[next]]
        <5>1. loop \in Int /\ total \in Nat /\ next \in Nat /\ 0 \in Nat
          BY <3>1, <3>2, <3>3
        <5>2. LoadsNext(p) = [[[[p EXCEPT !.current = next] EXCEPT !.loop = loop]
                                   EXCEPT !.total = total] EXCEPT !.tick = 0]
          BY <3>4
        <5> HIDE DEF loop, total
        <5>3. [p EXCEPT !.current = next] \in Players
          BY <1>1, <5>1, PlayerEdited
        <5>4. [[p EXCEPT !.current = next] EXCEPT !.loop = loop] \in Players
          BY <5>1, <5>3, PlayerEdited
        <5>5. [[[p EXCEPT !.current = next] EXCEPT !.loop = loop]
                  EXCEPT !.total = total] \in Players
          BY <5>1, <5>4, PlayerEdited
        <5> QED
          BY <5>1, <5>2, <5>5, PlayerEdited
    <3> QED
      BY <1>1, <3>5, <3>6 DEF Playable
  <2> QED
    BY <2>1, <2>2
<1>4. Playable(Advance(p))
  <2>1. CASE p.current = 0 \/ (p.tick >= p.total /\ p.seek < 0)
    BY <1>3, <2>1 DEF Advance
  <2>2. CASE ~(p.current = 0 \/ (p.tick >= p.total /\ p.seek < 0)) /\ p.seek >= 0
    <3>1. Advance(p) = [p EXCEPT !.tick = p.seek, !.seek = -1]
      BY <1>1, <2>2 DEF Advance
    <3>2. p.seek \in Nat
      BY <1>1, <2>2
    <3>3. Advance(p) \in Players
      <4>1. Advance(p) = [[p EXCEPT !.tick = p.seek] EXCEPT !.seek = -1]
        BY <3>1
      <4>2. [p EXCEPT !.tick = p.seek] \in Players
        BY <1>1, <3>2, PlayerEdited
      <4>3. \A q \in Players : [q EXCEPT !.seek = -1] \in Players
        BY DEF Players
      <4> QED
        BY <4>1, <4>2, <4>3
    <3>4. Advance(p).playlist = p.playlist
      BY <1>1, <3>1 DEF Players
    <3> QED
      BY <1>1, <3>3, <3>4 DEF Playable
  <2>3. CASE ~(p.current = 0 \/ (p.tick >= p.total /\ p.seek < 0)) /\ ~(p.seek >= 0)
    <3> DEFINE tick == IF p.tick + Beat > p.total THEN p.total ELSE p.tick + Beat
    <3>1. Advance(p) = [p EXCEPT !.tick = tick]
      BY <1>1, <2>3 DEF Advance
    <3>2. tick \in Nat
      BY <1>1, PlayerAssumption
    <3> HIDE DEF tick
    <3> QED
      BY <1>1, <3>1, <3>2 DEF Playable, Players
  <2> QED
    BY <2>1, <2>2, <2>3
<1> HIDE DEF Advance
<1> QED
  BY <1>4 DEF Forgets, Playable, Players

-----------------------------------------------------------------------------
(* The invariant is inductive.                                              *)

LEMMA NoLine == << >> \in Seq(Tokens) /\ Len(<< >>) = 0 /\ Len(<< >>) <= 0
OBVIOUS

LEMMA NotEmpty == \A x, y : << x >> # << >> /\ << x, y >> # << >>
OBVIOUS

LEMMA Pair ==
    ASSUME NEW S, NEW T, NEW p \in S \X T
    PROVE  \E a \in S, b \in T : p = << a, b >>
OBVIOUS

LEMMA Bounds == 0 \in 0 .. MaxClients /\ MaxClients \in Nat
<1>1. MaxClients \in Nat
  BY ConsoleAssumption
<1> QED
  BY <1>1

LEMMA ConsoleInit == Init => ConsoleInv
<1> SUFFICES ASSUME Init PROVE ConsoleInv
  OBVIOUS
<1> USE DEF Init
<1>1. TypeOK
  BY NoLine, Bounds DEF TypeOK
<1> QED
  BY <1>1, NoLine DEF ConsoleInv, FailsOnlyWhere, LineInv, PlayerInv

\* What becomes of a line when its command is over, when the process is, and
\* when neither is.
LEMMA LineAfter ==
    ASSUME LineInv,
           Returns \/ (UNCHANGED lineVars /\ (pc' = pc \/ pc' \notin {"line", "call"}))
    PROVE  LineInv'
<1>1. CASE Returns
  BY <1>1 DEF Returns, LineInv
<1>2. CASE UNCHANGED lineVars /\ (pc' = pc \/ pc' \notin {"line", "call"})
  BY <1>2 DEF lineVars, LineInv
<1> QED
  BY <1>1, <1>2

LEMMA Typed == ConsoleInv => TypeOK
BY DEF ConsoleInv, FailsOnlyWhere

\* The end of the process keeps the types.
LEMMA EndsTyped ==
    ASSUME ConsoleInv, NEW how, Ends(how),
           how \in {"quit", "setup", "select", "parse", "play", "worker", "crash"},
           UNCHANGED << songVars, player, sockfd >>,
           sigwinch_received' \in BOOLEAN, freed' \in BOOLEAN
    PROVE  TypeOK'
BY Typed DEF TypeOK, Ends, lineVars, songVars

LEMMA SetupStep ==
    ASSUME ConsoleInv, setup_server
    PROVE  ConsoleInv'
<1> USE DEF ConsoleInv, setup_server
<1>1. LineInv'
  BY LineAfter DEF Ends, Returns
<1>2. FailsOnlyWhere'
  <2>1. CASE Returns /\ sockfd' \in {"socket", "stdout"}
    <3>1. TypeOK'
      BY <2>1, NoLine DEF FailsOnlyWhere, TypeOK, Returns, songVars
    <3> QED
      BY <2>1, <3>1 DEF FailsOnlyWhere, TypeOK, Returns
  <2>2. CASE Ends("setup") /\ UNCHANGED sockfd
    BY <2>2 DEF FailsOnlyWhere, TypeOK, Ends, lineVars, songVars
  <2> QED
    BY <2>1, <2>2
<1>3. PlayerInv' /\ pc' # "setup"
  BY DEF PlayerInv, Returns, Ends
<1> QED
  BY <1>1, <1>2, <1>3

LEMMA SignalStep ==
    ASSUME ConsoleInv, Resize \/ Interrupt
    PROVE  ConsoleInv'
<1> USE DEF ConsoleInv
<1>1. LineInv'
  BY LineAfter DEF Resize, Interrupt, ShellExit, Ends, lineVars
<1>2. FailsOnlyWhere'
  <2>1. CASE Resize
    <3>1. TypeOK'
      <4>1. CASE pc = "select"
        BY <2>1, <4>1, Typed, EndsTyped DEF Resize, TypeOK
      <4>2. CASE pc # "select"
        BY <2>1, <4>2, Typed DEF Resize, TypeOK, lineVars, songVars
      <4> QED
        BY <4>1, <4>2
    <3> QED
      BY <2>1, <3>1, Typed DEF Resize, FailsOnlyWhere, TypeOK, Ends, lineVars
  <2>2. CASE Interrupt
    <3>1. TypeOK'
      BY <2>2, Typed DEF Interrupt, ShellExit, TypeOK, Ends, lineVars, songVars
    <3> QED
      BY <2>2, <3>1, Typed DEF Interrupt, ShellExit, FailsOnlyWhere, TypeOK, Ends, lineVars
  <2> QED
    BY <2>1, <2>2
<1>3. PlayerInv' /\ pc' # "setup"
  BY DEF PlayerInv, Resize, Interrupt, ShellExit, Ends
<1> QED
  BY <1>1, <1>2, <1>3

LEMMA WorkerStep ==
    ASSUME ConsoleInv, WorkerEnds
    PROVE  ConsoleInv'
<1> USE DEF ConsoleInv, WorkerEnds
<1>1. LineInv'
  BY LineAfter DEF Ends
<1>2. FailsOnlyWhere'
  BY Typed DEF FailsOnlyWhere, TypeOK, Ends, lineVars, songVars
<1>3. PlayerInv' /\ pc' # "setup"
  BY DEF PlayerInv, Ends
<1> QED
  BY <1>1, <1>2, <1>3

LEMMA SocketStep ==
    ASSUME ConsoleInv, handle_socket
    PROVE  ConsoleInv'
<1> USE DEF ConsoleInv, handle_socket, Selected
<1>1. LineInv'
  BY LineAfter DEF lineVars
<1>2. nclients' \in 0 .. MaxClients
  <2>1. nclients \in 0 .. MaxClients /\ nclients < MaxClients /\ nclients' = nclients + 1
    BY Typed DEF TypeOK
  <2> HIDE DEF ConsoleInv, handle_socket
  <2> QED
    BY <2>1, Bounds
<1>3. FailsOnlyWhere'
  BY <1>2 DEF FailsOnlyWhere, TypeOK, lineVars
<1>4. PlayerInv' /\ pc' # "setup"
  BY DEF PlayerInv
<1> QED
  BY <1>1, <1>3, <1>4

LEMMA LineStep ==
    ASSUME ConsoleInv, NEW l \in Lines, cb_linehandler(l)
    PROVE  ConsoleInv'
<1> USE DEF ConsoleInv, Selected
<1>1. CASE l = EOF
  <2>1. LineInv'
    BY <1>1, LineAfter DEF cb_linehandler, ShellExit, Ends
  <2>2. FailsOnlyWhere'
    BY <1>1 DEF cb_linehandler, FailsOnlyWhere, TypeOK, ShellExit, Ends, lineVars, songVars
  <2>3. PlayerInv' /\ pc' # "setup"
    BY <1>1 DEF PlayerInv, cb_linehandler, ShellExit, Ends
  <2> QED
    BY <2>1, <2>2, <2>3
<1>2. CASE l # EOF
  <2>1. /\ pc = "select" /\ pc' = "line" /\ line' = l /\ args' = Words(l)
        /\ nwords' = count_words(l) /\ sigwinch_received' = FALSE
        /\ UNCHANGED << called, freed, end, songVars, player, sockfd >>
    BY <1>2 DEF cb_linehandler
  <2>2. /\ Words(l) \in Seq(Tokens) /\ Len(Words(l)) <= count_words(l)
        /\ count_words(l) \in Nat
    BY WordsTyped, WordsFit, LineTyped DEF count_words
  <2>3. LineInv'
    BY <2>1, <2>2 DEF LineInv
  <2>4. FailsOnlyWhere'
    BY <2>1, <2>2 DEF FailsOnlyWhere, TypeOK, songVars
  <2>5. PlayerInv' /\ pc' # "setup"
    BY <2>1 DEF PlayerInv
  <2> QED
    BY <2>3, <2>4, <2>5
<1> QED
  BY <1>1, <1>2

LEMMA DispatchStep ==
    ASSUME ConsoleInv, Dispatch
    PROVE  ConsoleInv'
<1> USE DEF ConsoleInv
<1>1. /\ pc = "line" /\ args \in Seq(Tokens) /\ args # << >>
      /\ line \in Lines /\ args = Words(line) /\ nwords = count_words(line)
      /\ UNCHANGED << songVars, player, sockfd, sigwinch_received, freed >>
  BY DEF Dispatch, Named, LineInv
<1>2. CASE \E command \in {<< name >> : name \in Plain} \cup (WithArgument \X Tokens) :
             Calls(command)
  <2>1. LineInv'
    BY <1>1, <1>2 DEF LineInv, Calls
  <2>2. FailsOnlyWhere'
    BY <1>1, <1>2 DEF Calls, FailsOnlyWhere, TypeOK, songVars
  <2>3. PlayerInv' /\ pc' # "setup"
    BY <1>1, <1>2 DEF PlayerInv, Calls
  <2> QED
    BY <2>1, <2>2, <2>3
<1>3. CASE Named(WithArgument) /\ ~MissingArgument /\ Uninitialised /\ Ends("crash")
  <2>1. LineInv'
    BY <1>1, <1>3, LineAfter DEF Ends
  <2>2. Len(args) < nwords /\ Len(args) < 2
    <3>1. nwords \in Nat
      BY Typed DEF TypeOK
    <3>2. ~(nwords < 2) /\ Len(args) < 2
      BY <1>3 DEF MissingArgument, Uninitialised
    <3>3. Len(args) \in Nat
      BY <1>1
    <3> HIDE DEF ConsoleInv
    <3> QED
      BY <3>1, <3>2, <3>3
  <2>3. FailsOnlyWhere'
    BY <1>1, <1>3, <2>2 DEF FailsOnlyWhere, TypeOK, Ends, lineVars, songVars
  <2>4. PlayerInv' /\ pc' # "setup"
    BY <1>1, <1>3 DEF PlayerInv, Ends
  <2> QED
    BY <2>1, <2>3, <2>4
<1>4. ASSUME Named(Plain), Calls(<< args[1].text >>)
      PROVE  \E name \in Plain : Calls(<< name >>)
  BY <1>4 DEF Named
<1>5. ASSUME Named(WithArgument),
             NEW arg \in IF Uninitialised THEN AnyWord ELSE {args[2]},
             Calls(<< args[1].text, arg >>)
      PROVE  \E command \in WithArgument \X Tokens : Calls(command)
  <2>1. AnyWord \subseteq Tokens
    <3> SUFFICES ASSUME NEW w \in AnyWord PROVE w \in Tokens
      OBVIOUS
    <3>1. PICK k \in Lines : w \in ToSet(Words(k))
      BY DEF AnyWord
    <3>2. PICK i \in DOMAIN Words(k) : w = Words(k)[i]
      BY <3>1 DEF ToSet
    <3> QED
      BY <3>2, WordsTyped
  <2>2. ~Uninitialised => args[2] \in Tokens
    BY <1>1 DEF Uninitialised
  <2>3. arg \in Tokens
    BY <1>5, <2>1, <2>2
  <2>4. << args[1].text, arg >> \in WithArgument \X Tokens
    BY <1>5, <2>3 DEF Named
  <2> QED
    BY <1>5, <2>4
<1> QED
  BY <1>2, <1>3, <1>4, <1>5 DEF Dispatch

LEMMA NotFoundStep ==
    ASSUME ConsoleInv, NotFound
    PROVE  ConsoleInv'
<1> USE DEF ConsoleInv, NotFound
<1>1. pc = "line"
  BY DEF Named
<1>2. LineInv'
  <2>1. Returns \/ Ends("crash")
    OBVIOUS
  <2>2. CASE Returns
    BY <2>2, LineAfter
  <2>3. CASE Ends("crash")
    BY <2>3, LineAfter DEF Ends
  <2> QED
    BY <2>1, <2>2, <2>3
<1>3. args = << >> => Len(args) < nwords /\ Len(args) < 2
  <2>1. count_words(line) \in Nat /\ count_words(line) >= 1
    BY <1>1, LineTyped DEF LineInv, count_words
  <2> QED
    BY <1>1, <2>1, NoLine DEF LineInv
<1>4. FailsOnlyWhere'
  <2>1. CASE Returns
    <3>1. TypeOK'
      BY <1>1, <2>1, NoLine DEF FailsOnlyWhere, TypeOK, Returns, songVars
    <3> QED
      BY <1>1, <2>1, <3>1 DEF FailsOnlyWhere, TypeOK, Returns
  <2>2. CASE args = << >> /\ Ends("crash")
    <3>1. TypeOK'
      BY <2>2, Typed, EndsTyped DEF TypeOK
    <3> QED
      BY <1>1, <1>3, <2>2, <3>1 DEF FailsOnlyWhere, Ends, lineVars
  <2> QED
    BY <2>1, <2>2
<1>5. PlayerInv' /\ pc' # "setup"
  BY DEF PlayerInv, Ends, Returns
<1> QED
  BY <1>2, <1>4, <1>5

LEMMA CalledSomething ==
    ConsoleInv /\ pc = "call" => called # << >>
<1>1. \A x \in {<< name >> : name \in Plain} : x # << >>
  BY NotEmpty
<1>2. \A x \in WithArgument \X Tokens : x # << >>
  <2> TAKE x \in WithArgument \X Tokens
  <2>1. PICK name \in WithArgument, arg \in Tokens : x = << name, arg >>
    BY Pair
  <2> QED
    BY <2>1, NotEmpty
<1> QED
  BY <1>1, <1>2 DEF ConsoleInv, LineInv

\* A handler returns, or the process ends for a reason that FailsOnlyWhere names.
LEMMA HandlerEnds ==
    ASSUME ConsoleInv, pc = "call", PlayerInv',
           mfile' \in Songs \cup {""}, nclients' \in 0 .. MaxClients,
           served' \in BOOLEAN, accepting_clients' \in BOOLEAN,
           barrier_initialized' \in BOOLEAN,
           UNCHANGED << sockfd, sigwinch_received, freed >>,
           \/ Returns
           \/ (UNCHANGED << lineVars, end >> /\ pc' = "barrier")
           \/ Ends("parse") /\ called[1] = "load" /\ called[2].text \in Songs
           \/ Ends("play") /\ called = << "play" >> /\ mfile' # "" /\ nclients' > 0
           \/ /\ Ends("crash") /\ UNCHANGED player
              /\ \/ player = NoPlayer /\ called[1] \in {"pause", "resume", "loop", "noloop",
                                                       "restart", "seek"}
                 \/ called = << "status" >> /\ player # NoPlayer /\ player.total = 0
    PROVE  ConsoleInv'
<1>1. LineInv'
  <2>1. LineInv
    BY DEF ConsoleInv
  <2>2. CASE Returns
    BY <2>1, <2>2, LineAfter
  <2>3. CASE UNCHANGED << lineVars, end >> /\ pc' = "barrier"
    BY <2>1, <2>3, LineAfter
  <2>4. CASE \E how \in {"parse", "play", "crash"} : Ends(how)
    BY <2>1, <2>4, LineAfter DEF Ends
  <2> QED
    BY <2>2, <2>3, <2>4
<1>2. called # << >>
  BY CalledSomething
<1>3. player' = NoPlayer \/ player' \in Players
  BY DEF PlayerInv, Playable
<1>4. end = "running"
  BY Typed DEF TypeOK
<1>5. TypeOK'
  <2>1. CASE Returns
    BY <1>3, <1>4, <2>1, Typed, NoLine DEF TypeOK, Returns
  <2>2. CASE UNCHANGED << lineVars, end >> /\ pc' = "barrier"
    BY <1>3, <1>4, <2>2, Typed DEF TypeOK, lineVars
  <2>3. CASE \E how \in {"parse", "play", "crash"} : Ends(how)
    BY <1>3, <2>3, Typed DEF TypeOK, Ends, lineVars
  <2> QED
    BY <2>1, <2>2, <2>3
<1>6. FailsOnlyWhere'
  <2>1. CASE Returns \/ UNCHANGED end
    BY <1>4, <1>5, <2>1 DEF FailsOnlyWhere, Returns
  <2>2. CASE Ends("crash") /\ ~UNCHANGED end
    BY <1>2, <1>5, <2>2 DEF FailsOnlyWhere, Ends, Returns, lineVars
  <2>3. CASE Ends("parse") \/ Ends("play")
    BY <1>2, <1>4, <1>5, <2>3 DEF FailsOnlyWhere, Ends, Returns, lineVars
  <2> QED
    BY <2>1, <2>2, <2>3 DEF Returns
<1>7. pc' # "setup"
  BY DEF Returns, Ends
<1> QED
  BY <1>1, <1>6, <1>7 DEF ConsoleInv

\* What the invariant says of the other variables of a handler.
LEMMA HandlerTyped ==
    ASSUME ConsoleInv
    PROVE  /\ mfile \in Songs \cup {""} /\ nclients \in 0 .. MaxClients
           /\ served \in BOOLEAN /\ accepting_clients \in BOOLEAN
           /\ barrier_initialized \in BOOLEAN
           /\ PlayerInv
BY Typed DEF ConsoleInv, TypeOK

LEMMA LoadStep ==
    ASSUME ConsoleInv, handle_load
    PROVE  ConsoleInv'
<1>1. mfile' \in Songs \cup {""}
  BY HandlerTyped DEF handle_load
<1>2. PlayerInv'
  BY HandlerTyped DEF handle_load, PlayerInv
<1>3. Returns \/ (Ends("parse") /\ called[1] = "load" /\ called[2].text \in Songs)
  BY DEF handle_load, Runs
<1> QED
  BY <1>1, <1>2, <1>3, HandlerTyped, HandlerEnds DEF handle_load, Runs

LEMMA PlayStep ==
    ASSUME ConsoleInv, handle_play
    PROVE  ConsoleInv'
<1>1. pc = "call" /\ UNCHANGED << sockfd, sigwinch_received, freed >>
  BY DEF handle_play, Runs
<1>2. CASE mfile = ""
  <2>1. Returns /\ UNCHANGED << songVars, player >>
    BY <1>2 DEF handle_play
  <2>2. PlayerInv'
    BY <2>1, HandlerTyped DEF PlayerInv
  <2> QED
    BY <1>1, <2>1, <2>2, HandlerTyped, HandlerEnds DEF songVars
<1>3. CASE mfile # "" /\ nclients = 0
  <2>1. Returns /\ UNCHANGED songVars /\ player' = player_add(player_setup(player), mfile)
    BY <1>3 DEF handle_play
  <2>2. PlayerInv'
    BY <1>3, <2>1, HandlerTyped, SetupTyped DEF PlayerInv
  <2> QED
    BY <1>1, <2>1, <2>2, HandlerTyped, HandlerEnds DEF songVars
<1>4. CASE mfile # "" /\ nclients # 0
  <2>1. /\ accepting_clients' = FALSE /\ barrier_initialized' \in {TRUE, barrier_initialized}
        /\ Returns \/ (pc' = "barrier" /\ UNCHANGED << lineVars, end >>) \/ Ends("play")
        /\ UNCHANGED << mfile, nclients, served, player >>
    BY <1>4 DEF handle_play
  <2>2. PlayerInv'
    BY <2>1, HandlerTyped DEF PlayerInv
  <2>3. called = << "play" >>
    <3>1. called[1] = "play"
      BY DEF handle_play, Runs
    <3>2. called \in {<< name >> : name \in Plain} \cup (WithArgument \X Tokens)
      BY <1>1 DEF ConsoleInv, LineInv
    <3>3. called \notin WithArgument \X Tokens
      BY <3>1, Pair DEF WithArgument
    <3> QED
      BY <3>1, <3>2, <3>3
  <2>4. nclients > 0
    <3>1. nclients \in 0 .. MaxClients /\ nclients # 0
      BY <1>4, HandlerTyped
    <3> QED
      BY <3>1, Bounds
  <2> QED
    BY <1>1, <1>4, <2>1, <2>2, <2>3, <2>4, HandlerTyped, HandlerEnds
<1> QED
  BY <1>2, <1>3, <1>4

LEMMA ControlStep ==
    ASSUME ConsoleInv, NEW controlled, Playable(player) => Playable(controlled),
           NEW name \in {"pause", "resume", "loop", "noloop", "restart", "seek"},
           Controls(name, controlled)
    PROVE  ConsoleInv'
<1>1. PlayerInv'
  BY HandlerTyped DEF PlayerInv, Controls
<1> QED
  BY <1>1, HandlerTyped, HandlerEnds DEF Controls, Runs, songVars

LEMMA SeekStep ==
    ASSUME ConsoleInv, pc = "call", called[1] = "seek", handle_seek
    PROVE  ConsoleInv'
<1>1. called[2] \in Tokens
  BY DEF ConsoleInv, LineInv, Plain
<1> DEFINE value == called[2].value
<1>2. AsInt(value) \in Int
  BY <1>1, IntTyped DEF Tokens
<1>3. CASE Controls("seek", player_seek(player, AsInt(value)))
  <2>1. Playable(player) => Playable(player_seek(player, AsInt(value)))
    BY <1>2, ControlsTyped
  <2> QED
    BY <1>3, <2>1, ControlStep
<1>4. CASE Controls("seek", player_seek(player, TickOf(AsInt(value), player_get_total_ticks(player))))
  <2> DEFINE tick == TickOf(AsInt(value), player_get_total_ticks(player))
  <2>1. Playable(player) => tick \in Int
    BY <1>2, TickTyped, PlayerFields DEF Playable, player_get_total_ticks
  <2>2. Playable(player) => Playable(player_seek(player, tick))
    <3> HIDE DEF tick
    <3> QED
      BY <2>1, ControlsTyped
  <2> QED
    BY <1>4, <2>2, ControlStep
<1>5. CASE Runs("seek") /\ Returns /\ UNCHANGED << songVars, player, freed >>
  <2>1. PlayerInv'
    BY <1>5, HandlerTyped DEF PlayerInv
  <2> QED
    BY <1>5, <2>1, HandlerTyped, HandlerEnds DEF Runs, songVars
<1> QED
  BY <1>3, <1>4, <1>5 DEF handle_seek

LEMMA StatusStep ==
    ASSUME ConsoleInv, handle_status
    PROVE  ConsoleInv'
<1>1. PlayerInv' /\ UNCHANGED << songVars, player, freed >>
  BY HandlerTyped DEF PlayerInv, handle_status
<1>2. called = << "status" >>
  BY DEF handle_status, Runs, ConsoleInv, LineInv, WithArgument
<1>3. Returns \/ (Ends("crash") /\ player # NoPlayer /\ player.total = 0)
  BY DEF handle_status, player_get_status, player_get_total_ticks
<1> QED
  BY <1>1, <1>2, <1>3, HandlerTyped, HandlerEnds DEF handle_status, Runs, songVars

LEMMA QuitStep ==
    ASSUME ConsoleInv, handle_quit \/ handle_reconnect \/ LeaveLoop
    PROVE  ConsoleInv'
<1> USE DEF handle_quit, handle_reconnect, LeaveLoop
<1>1. LineInv'
  BY LineAfter DEF ConsoleInv, Ends
<1>2. FailsOnlyWhere'
  BY DEF ConsoleInv, Runs, FailsOnlyWhere, TypeOK, Ends, lineVars, songVars
<1>3. PlayerInv' /\ pc' # "setup"
  BY DEF ConsoleInv, PlayerInv, Ends
<1> QED
  BY <1>1, <1>2, <1>3 DEF ConsoleInv

LEMMA ReconnectStep ==
    ASSUME ConsoleInv, setup_connections
    PROVE  ConsoleInv'
<1> USE DEF setup_connections
<1>1. LineInv'
  BY LineAfter DEF ConsoleInv
<1>2. TypeOK'
  BY Typed, NoLine, Bounds DEF TypeOK, Returns
<1>3. end' = "running"
  BY Typed DEF TypeOK, Returns
<1>4. FailsOnlyWhere'
  BY <1>2, <1>3 DEF FailsOnlyWhere
<1>5. PlayerInv' /\ pc' # "setup"
  BY DEF ConsoleInv, PlayerInv, Returns
<1> QED
  BY <1>1, <1>4, <1>5 DEF ConsoleInv

LEMMA HelpStep ==
    ASSUME ConsoleInv, handle_help
    PROVE  ConsoleInv'
<1>1. PlayerInv'
  BY HandlerTyped DEF PlayerInv, handle_help
<1> QED
  BY <1>1, HandlerTyped, HandlerEnds DEF handle_help, Runs, songVars

\* Types are kept where nothing but the player, typed again, changes.
LEMMA TypesKept ==
    ASSUME TypeOK,
           UNCHANGED << pc, sockfd, line, args, nwords, mfile, nclients, served, accepting_clients,
                        barrier_initialized, sigwinch_received, freed, end >>,
           player' = NoPlayer \/ player' \in Players
    PROVE  TypeOK'
<1>1. nwords' \in Nat /\ Len(args') <= nwords' /\ nclients' \in 0 .. MaxClients
  BY DEF TypeOK
<1>2. line' \in Lines \cup {<< >>} /\ mfile' \in Songs \cup {""}
  BY DEF TypeOK
<1>3. /\ served' \in BOOLEAN /\ accepting_clients' \in BOOLEAN
      /\ barrier_initialized' \in BOOLEAN /\ sigwinch_received' \in BOOLEAN
      /\ freed' \in BOOLEAN
  BY DEF TypeOK
<1> QED
  BY <1>1, <1>2, <1>3, Zenon DEF TypeOK

LEMMA PlayerStep ==
    ASSUME ConsoleInv, PlayerGoesOn
    PROVE  ConsoleInv'
<1>1. LineInv'
  BY LineAfter DEF ConsoleInv, PlayerGoesOn
<1>2. PlayerInv'
  <2>1. Playable(player) /\ player.status = "playing"
    BY DEF ConsoleInv, PlayerInv, PlayerGoesOn
  <2> QED
    BY <2>1, AdvanceTyped DEF PlayerInv, PlayerGoesOn
<1>3. end = "running"
  BY Typed DEF TypeOK, PlayerGoesOn
<1>4. TypeOK'
  <2>1. player' = NoPlayer \/ player' \in Players
    BY <1>2 DEF PlayerInv, Playable
  <2>2. UNCHANGED << pc, sockfd, line, args, nwords, mfile, nclients, served, accepting_clients,
                     barrier_initialized, sigwinch_received, freed, end >>
    BY DEF PlayerGoesOn, lineVars, songVars, processVars
  <2> QED
    BY <2>1, <2>2, Typed, TypesKept
<1>5. end' = "running" /\ UNCHANGED << pc, sockfd >>
  BY <1>3 DEF PlayerGoesOn, processVars
<1>6. FailsOnlyWhere'
  BY <1>4, <1>5 DEF FailsOnlyWhere
<1> QED
  BY <1>1, <1>2, <1>5, <1>6 DEF ConsoleInv

LEMMA StutterStep ==
    ASSUME ConsoleInv, UNCHANGED vars
    PROVE  ConsoleInv'
<1>1. UNCHANGED << pc, sockfd, line, args, nwords, called, mfile, nclients, served, accepting_clients,
                   barrier_initialized, player, sigwinch_received, freed, end >>
  BY DEF vars, lineVars, songVars, processVars
<1>2. TypeOK'
  <2>1. player' = NoPlayer \/ player' \in Players
    BY <1>1, Typed DEF TypeOK
  <2> QED
    BY <1>1, <2>1, Typed, TypesKept
<1>3. FailsOnlyWhere'
  BY <1>1, <1>2 DEF ConsoleInv, FailsOnlyWhere
<1>4. LineInv'
  BY <1>1 DEF ConsoleInv, LineInv
<1>5. PlayerInv'
  BY <1>1 DEF ConsoleInv, PlayerInv
<1> QED
  BY <1>1, <1>3, <1>4, <1>5 DEF ConsoleInv

LEMMA ConsoleStep ==
    ConsoleInv /\ [Next]_vars => ConsoleInv'
<1> SUFFICES ASSUME ConsoleInv, [Next]_vars PROVE ConsoleInv'
  OBVIOUS
<1>1. CASE Handler
  <2>1. ASSUME handle_pause \/ handle_resume \/ handle_restart \/ handle_loop \/ handle_noloop
        PROVE  ConsoleInv'
    <3>1. /\ Playable(player) => Playable(player_pause(player))
          /\ Playable(player) => Playable(player_play(player))
          /\ Playable(player) => Playable(player_restart(player))
          /\ Playable(player) => Playable(player_setloop(player, 1))
          /\ Playable(player) => Playable(player_setloop(player, 0))
      <4>1. 0 \in Int /\ 1 \in Int
        OBVIOUS
      <4> QED
        BY <4>1, ControlsTyped
    <3> QED
      BY <2>1, <3>1, ControlStep
         DEF handle_pause, handle_resume, handle_restart, handle_loop, handle_noloop
  <2> QED
    BY <1>1, <2>1, LoadStep, PlayStep, SeekStep, StatusStep, QuitStep, HelpStep DEF Handler
<1>2. CASE UNCHANGED vars
  BY <1>2, StutterStep
<1> QED
  BY <1>1, <1>2, SetupStep, SocketStep, SignalStep, WorkerStep, LineStep, DispatchStep,
     NotFoundStep, QuitStep, ReconnectStep, PlayerStep DEF Next

LEMMA ConsoleInvariant == Spec => []ConsoleInv
BY ConsoleInit, ConsoleStep, PTL DEF Spec

-----------------------------------------------------------------------------
(* The theorems.                                                            *)

\* Whatever is typed, signalled and played, in any order, the process ends other
\* than by quit only for one of the reasons that FailsOnlyWhere names, and
\* parse_line never writes more words than it made room for (shell.c:95-157,
\* utils.c:41-62, cmd_handlers.c:95-325).
THEOREM FailuresCorrect == Spec => []FailsOnlyWhere
<1>1. ConsoleInv => FailsOnlyWhere
  BY DEF ConsoleInv
<1> QED
  BY <1>1, ConsoleInvariant, PTL

\* However a line is spaced, the command that runs is its first word and the
\* argument its second; only a line that is no command, or that lacks the
\* argument of its command, is refused (shell.c:117-145, utils.c:41-62).
THEOREM CommandsCorrect == Spec => CommandsAsTyped
<1> DEFINE words == Words(line)
           Called == pc' = "call" =>
                         /\ called'[1] = words[1].text
                         /\ Len(words) >= 2 => called' = << words[1].text >> \/ called'[2] = words[2]
           Refused == pc' = "select" =>
                         /\ words[1].text \notin Plain
                         /\ words[1].text \in WithArgument => Len(words) = 1
<1>1. ASSUME ConsoleInv, [Next]_vars, pc = "line"
      PROVE  Called /\ Refused
  <2> USE <1>1
  <2>1. /\ args = words /\ words \in Seq(Tokens) /\ Len(words) <= nwords
        /\ nwords \in Nat
    BY Typed DEF ConsoleInv, LineInv, TypeOK
  <2>2. CASE Dispatch
    <3>1. pc' = "call" => \/ called' = << words[1].text >>
                         \/ \E arg \in IF Uninitialised THEN AnyWord ELSE {words[2]} :
                               called' = << words[1].text, arg >>
      BY <2>1, <2>2 DEF Dispatch, Calls, Ends
    <3>2. Len(words) >= 2 => ~Uninitialised
      BY <2>1 DEF Uninitialised
    <3>3. pc' # "select"
      BY <2>2 DEF Dispatch, Calls, Ends
    <3> HIDE DEF words
    <3> QED
      BY <3>1, <3>2, <3>3
  <2>3. CASE NotFound
    <3>1. pc' # "call"
      BY <2>3 DEF NotFound, Returns, Ends
    <3>2. pc' = "select" => \/ words # << >> /\ words[1].text \in WithArgument /\ nwords < 2
                           \/ words[1].text \notin Plain \cup WithArgument
      BY <2>1, <2>3 DEF NotFound, Named, MissingArgument, Ends
    <3>3. words # << >> /\ nwords < 2 => Len(words) = 1
      <4>1. Len(words) \in Nat /\ (words # << >> => Len(words) # 0)
        <5> HIDE DEF words
        <5> QED
          BY <2>1
      <4> DEFINE n == Len(words)
      <4>2. n \in Nat /\ n <= nwords /\ nwords \in Nat /\ (words # << >> => n # 0)
        BY <2>1, <4>1
      <4>3. nwords < 2 /\ n # 0 => n = 1
        <5> HIDE DEF n
        <5> QED
          BY <4>2
      <4> QED
        BY <4>2, <4>3
    <3>4. Plain \cap WithArgument = {}
      BY DEF Plain, WithArgument
    <3> HIDE DEF words
    <3> QED
      BY <3>1, <3>2, <3>3, <3>4
  <2>4. CASE pc' \notin {"call", "select"}
    BY <2>4
  <2>5. ASSUME ~Dispatch, ~NotFound
        PROVE  pc' \notin {"call", "select"}
    BY <2>5 DEF Next, vars, setup_server, handle_socket, Selected, Resize, Interrupt, ShellExit, Ends,
                cb_linehandler, Handler, Runs, Controls, handle_load, handle_play, handle_pause,
                handle_resume, handle_restart, handle_loop, handle_noloop, handle_status,
                handle_quit, handle_reconnect, setup_connections, handle_help, LeaveLoop,
                WorkerEnds, PlayerGoesOn
  <2> QED
    BY <2>2, <2>3, <2>4, <2>5
<1>2. ConsoleInv /\ [Next]_vars
      => [pc = "line" => LET w == Words(line) IN
          /\ pc' = "call" =>
                /\ called'[1] = w[1].text
                /\ Len(w) >= 2 => called' = << w[1].text >> \/ called'[2] = w[2]
          /\ pc' = "select" =>
                /\ w[1].text \notin Plain
                /\ w[1].text \in WithArgument => Len(w) = 1]_vars
  BY <1>1
<1> QED
  BY <1>2, ConsoleInvariant, PTL DEF Spec, CommandsAsTyped

\* A percentage of a song, when a hundred times its length is an int, is the
\* tick the player goes to: in the song, the last that is not past the
\* percentage, and never refused (cmd_handlers.c:210-243, midi_player.c:69-72).
THEOREM SeekCorrect == Spec => SeeksWhereAsked
<1> DEFINE Asked == /\ pc = "call" /\ called[1] = "seek" /\ pc' = "select"
                    /\ called[2].form = "percent" /\ called[2].value <= 100
                    /\ player.total * 100 <= INT_MAX
           Found == /\ player'.seek \in 0 .. player.total
                    /\ player'.seek * 100 <= called[2].value * player.total
                    /\ called[2].value * player.total < (player'.seek + 1) * 100
<1>1. ASSUME ConsoleInv, [Next]_vars, Asked
      PROVE  Found
  <2> DEFINE value == called[2].value
             total == player.total
             tick == TickOf(value, total)
  <2>1. called[2] \in Tokens /\ value \in Nat
    BY <1>1 DEF ConsoleInv, LineInv, Plain, Tokens
  <2>2. value \in 0 .. 100 /\ AsInt(value) = value /\ INT_MAX \in Nat
    <3>1. value <= 100
      BY <1>1
    <3>2. INT_MAX \in Nat /\ INT_MAX >= 32767
      BY ConsoleAssumption
    <3>3. value \in 0 .. 100 /\ value \in 0 .. INT_MAX
      <4> HIDE DEF value
      <4> QED
        BY <2>1, <3>1, <3>2
    <3> QED
      BY <3>2, <3>3, <2>1, IntTyped
  <2>3. handle_seek
    BY <1>1 DEF Next, vars, setup_server, handle_socket, Selected, Resize, Interrupt, ShellExit, Ends,
                cb_linehandler, Dispatch, NotFound, Named, Handler, Runs, Controls, handle_load,
                handle_play, handle_pause, handle_resume, handle_restart, handle_loop,
                handle_noloop, handle_status, handle_quit, handle_reconnect, handle_help,
                setup_connections, LeaveLoop, WorkerEnds, PlayerGoesOn, lineVars
  <2>4. Controls("seek", player_seek(player, tick))
    BY <1>1, <2>2, <2>3 DEF handle_seek, player_get_total_ticks
  <2>5. player # NoPlayer /\ player' = player_seek(player, tick)
    BY <1>1, <2>4 DEF Controls, Ends
  <2>6. player \in Players /\ total \in Nat
    BY <1>1, <2>5, PlayerFields DEF ConsoleInv, PlayerInv, Playable
  <2>7. value * total \in 0 .. INT_MAX /\ value * total <= 100 * total
    <3>1. value * total \in Nat /\ value * total <= 100 * total
      <4> HIDE DEF value, total
      <4> QED
        BY <2>2, <2>6, SMTT(30)
    <3> QED
      BY <1>1, <2>2, <2>6, <3>1
  <2>8. /\ tick \in Int /\ tick * 100 <= value * total /\ value * total < (tick + 1) * 100
    BY <2>7, IntTyped, QuotientTyped DEF TickOf
  <2>9. tick \in 0 .. total
    <3> HIDE DEF tick
    <3> QED
      BY <2>6, <2>7, <2>8, SMTT(30)
  <2>10. player'.seek = tick
    <3> HIDE DEF tick
    <3> QED
      BY <2>5, <2>6, <2>9 DEF player_seek, Players
  <2> QED
    BY <2>8, <2>9, <2>10
<1>2. ConsoleInv /\ [Next]_vars => [Asked => Found]_vars
  BY <1>1
<1> QED
  BY <1>2, ConsoleInvariant, PTL DEF Spec, SeeksWhereAsked
=============================================================================
