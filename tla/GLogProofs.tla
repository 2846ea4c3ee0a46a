------------------------------ MODULE GLogProofs ------------------------------
(***************************************************************************)
(* The logger, for any threads, lines, days, split sizes, restarts and     *)
(* errors of the file system: the files hold what was logged, once, in     *)
(* order and in the right file.                                            *)
(***************************************************************************)
EXTENDS GLog, SequenceTheorems, FiniteSetTheorems, WellFoundedInduction, TLAPS

USE GLogAssumption

-----------------------------------------------------------------------------
(* Sequences and numbers. *)

\* A set of naturals that is not empty has a least element.
LEMMA LeastNat ==
    ASSUME NEW S \in SUBSET Nat, NEW n \in S
    PROVE  \E m \in S : \A k \in S : m <= k
<1> DEFINE R == OpToRel(<, Nat)
<1>1. IsWellFoundedOn(R, Nat)
  BY NatLessThanWellFounded
<1>2. \A x, y \in Nat : x < y => <<x, y>> \in R
  BY DEF OpToRel
<1> HIDE DEF R
<1>3. PICK x \in S : \A y \in S : ~(<<y, x>> \in R)
  BY <1>1, WFMin
<1>4. ASSUME NEW k \in S PROVE x <= k
  <2>1. x \in Nat /\ k \in Nat /\ ~(k < x)
    BY <1>2, <1>3, <1>4
  <2> QED BY <2>1
<1> QED BY <1>4

\* What Append does.
LEMMA PutFacts ==
    ASSUME NEW S, NEW s \in Seq(S), NEW x \in S
    PROVE  /\ Append(s, x) \in Seq(S) /\ Len(Append(s, x)) = Len(s) + 1 /\ Len(s) \in Nat
           /\ Append(s, x)[Len(s) + 1] = x
           /\ \A i \in 1 .. Len(s) : Append(s, x)[i] = s[i]
OBVIOUS

\* What joining the first n elements of t to s does.
LEMMA JoinFacts ==
    ASSUME NEW S, NEW s \in Seq(S), NEW t \in Seq(S), NEW n \in 0 .. Len(t)
    PROVE  /\ s \o SubSeq(t, 1, n) \in Seq(S) /\ Len(s \o SubSeq(t, 1, n)) = Len(s) + n
           /\ Len(s) \in Nat /\ Len(t) \in Nat
           /\ \A i \in 1 .. Len(s) : (s \o SubSeq(t, 1, n))[i] = s[i]
           /\ \A i \in 1 .. n : (s \o SubSeq(t, 1, n))[Len(s) + i] = t[i]
<1> DEFINE u == SubSeq(t, 1, n)
<1>1. u \in Seq(S) /\ Len(u) = n /\ \A i \in 1 .. n : u[i] = t[i]
  OBVIOUS
<1> HIDE DEF u
<1>2. /\ s \o u \in Seq(S) /\ Len(s \o u) = Len(s) + Len(u)
      /\ \A i \in 1 .. Len(s) : (s \o u)[i] = s[i]
      /\ \A i \in 1 .. Len(u) : (s \o u)[Len(s) + i] = u[i]
  BY <1>1
<1> QED BY <1>1, <1>2 DEF u

\* The range of a sequence holds its elements.
LEMMA RangeFacts ==
    ASSUME NEW S, NEW s \in Seq(S)
    PROVE  /\ \A i \in 1 .. Len(s) : s[i] \in Range(s)
           /\ \A x \in Range(s) : \E i \in 1 .. Len(s) : s[i] = x
           /\ Range(s) \subseteq S
           /\ s = <<>> <=> Len(s) = 0
BY DEF Range

-----------------------------------------------------------------------------
(* The invariant. *)

\* Lines are numbered by their logger; the next one to be appended is new.
Numbered ==
    /\ \A a \in 1 .. Len(accepted) :
          /\ accepted[a].no <= count[accepted[a].by]
          /\ pc[accepted[a].by] = "append" => accepted[a].no < count[accepted[a].by]
    /\ \A l \in Loggers : pc[l] = "append" => count[l] >= 1

Distinct ==
    \A a, b \in 1 .. Len(accepted) :
        accepted[a].by = accepted[b].by /\ accepted[a].no = accepted[b].no => a = b

LostOnly == \A x \in lost : \E a \in 1 .. Len(accepted) : accepted[a] = x

LineInv == TypeOK /\ Numbered /\ Distinct /\ LostOnly

\* The list that is swapped for _waiting_list is empty.
Idle == runpc = "timer" => writing = <<>>

\* Files of days to come are empty, and so are those that the splitting does not use.
Used == \A f \in Names : files[f] # <<>> => f[1] <= today /\ (splitSize = 0 <=> f[2] = 0)

\* _split_index is behind full files only, whatever _last_time was at the start.
Filled ==
    /\ splitIndex >= 1
    /\ splitSize > 0 /\ lastDay \in Days => \A k \in 1 .. splitIndex - 1 : Len(files[<<lastDay, k>>]) >= splitSize

\* A file is begun only when the one before it is full.
Split ==
    splitSize > 0 =>
        \A d \in Days : \A i, j \in Indices :
            1 <= i /\ i < j /\ files[<<d, j>>] # <<>> => Len(files[<<d, i>>]) >= splitSize

\* The file that run chose is the last that holds anything, also after midnight.
Chosen ==
    runpc = "write" =>
        /\ lastDay \in Days /\ lastDay <= today
        /\ lastFile = <<lastDay, IF splitSize = 0 THEN 0 ELSE splitIndex>>
        /\ \A f \in Names : files[f] # <<>> =>
              f[1] < lastFile[1] \/ (f[1] = lastFile[1] /\ f[2] <= lastFile[2])

Dated ==
    /\ \A i \in 1 .. Len(waiting) : waiting[i].day <= today
    /\ \A i \in 1 .. Len(writing) : writing[i].day <= today /\ (runpc = "write" => writing[i].day <= lastDay)
    /\ \A f \in Names : \A i \in 1 .. Len(files[f]) : files[f][i].day <= f[1]

FileInv == Idle /\ Used /\ Filled /\ Split /\ Chosen /\ Dated

LogInv == LineInv /\ FileInv /\ LogIntegrity

-----------------------------------------------------------------------------
(* Pages. *)

\* The names of files and of the lists, and their order by day.
LEMMA NameFacts ==
    /\ \A f \in Names : f[1] \in Days /\ f[2] \in Indices /\ f = <<f[1], f[2]>> /\ f[1] \in Nat /\ f[2] \in Nat
                        /\ f[1] < MaxDay + 1
    /\ \A d \in Days, i \in Indices : <<d, i>> \in Names /\ <<d, i>>[1] = d /\ <<d, i>>[2] = i
    /\ Writing[1] = MaxDay + 1 /\ Writing[2] = 0 /\ Waiting[1] = MaxDay + 2 /\ Waiting[2] = 0
    /\ Writing \notin Names /\ Waiting \notin Names /\ Writing # Waiting
    /\ Writing \in Pages /\ Waiting \in Pages /\ Names \subseteq Pages
BY DEF Names, Days, Indices, Writing, Waiting, Pages

\* What is at each page, before and after a step.
LEMMA PageFacts ==
    /\ Page(Writing) = writing /\ Page(Waiting) = waiting /\ \A f \in Names : Page(f) = files[f]
    /\ Page(Writing)' = writing' /\ Page(Waiting)' = waiting' /\ \A f \in Names : Page(f)' = files'[f]
BY NameFacts DEF Page

\* Every page is a sequence of lines.
LEMMA PageType ==
    ASSUME TypeOK, NEW p \in Pages
    PROVE  Page(p) \in Seq(Lines)
BY PageFacts DEF TypeOK, Pages

\* The parts of a page's name are numbers, and _waiting_list comes last.
LEMMA PageNumbers ==
    /\ \A p \in Pages : p[1] \in Nat /\ p[2] \in Nat /\ (p = Waiting \/ p[1] < MaxDay + 2)
    /\ Writing \in Pages /\ Waiting \in Pages
<1>1. /\ \A f \in Names : f[1] \in Nat /\ f[2] \in Nat /\ f[1] < MaxDay + 1
      /\ Writing[1] = MaxDay + 1 /\ Writing[2] = 0 /\ Waiting[1] = MaxDay + 2 /\ Waiting[2] = 0
      /\ Writing \in Pages /\ Waiting \in Pages
  BY NameFacts
<1>2. \A f \in Names : f[1] < MaxDay + 2
  BY <1>1
<1> QED BY <1>1, <1>2 DEF Pages

\* A position comes before another, or after it, or is the same.
LEMMA Total ==
    ASSUME NEW p \in Pages, NEW q \in Pages, NEW i \in Nat, NEW j \in Nat
    PROVE  Before(p, i, q, j) \/ Before(q, j, p, i) \/ (p = q /\ i = j)
<1>1. /\ p[1] \in Nat /\ p[2] \in Nat /\ q[1] \in Nat /\ q[2] \in Nat
      /\ p[1] = q[1] /\ p[2] = q[2] => p = q
  BY NameFacts DEF Pages, Writing, Waiting
<1> QED BY <1>1 DEF Before

\* Two positions never hold the same line.
LEMMA Apart ==
    ASSUME LineInv, LogIntegrity, NEW p \in Pages, NEW q \in Pages,
           NEW i \in 1 .. Len(Page(p)), NEW j \in 1 .. Len(Page(q)), p # q \/ i # j
    PROVE  /\ Page(p)[i] # Page(q)[j]
           /\ ~(Page(p)[i].by = Page(q)[j].by /\ Page(p)[i].no = Page(q)[j].no)
<1>1. i \in Nat /\ j \in Nat
  BY PageType DEF LineInv
<1>2. Before(p, i, q, j) \/ Before(q, j, p, i)
  BY <1>1, Total
<1>3. \E a, b \in 1 .. Len(accepted) : a # b /\ accepted[a] = Page(p)[i] /\ accepted[b] = Page(q)[j]
  <2>1. CASE Before(p, i, q, j)
    <3>1. PICK a, b \in 1 .. Len(accepted) : a < b /\ accepted[a] = Page(p)[i] /\ accepted[b] = Page(q)[j]
      BY <2>1 DEF LogIntegrity, InOrder
    <3> QED BY <3>1
  <2>2. CASE Before(q, j, p, i)
    <3>1. PICK a, b \in 1 .. Len(accepted) : a < b /\ accepted[a] = Page(q)[j] /\ accepted[b] = Page(p)[i]
      BY <2>2 DEF LogIntegrity, InOrder
    <3> QED BY <3>1
  <2> QED BY <1>2, <2>1, <2>2
<1> QED BY <1>3 DEF LineInv, Distinct

-----------------------------------------------------------------------------
(* There is always a file with room: there are more names than lines. *)

\* There is one index more than there are lines.
LEMMA NamesEnough ==
    LET N == Cardinality(Loggers \X (1 .. MaxLines))
    IN  N \in Nat /\ IsFiniteSet(Loggers \X (1 .. MaxLines)) /\ Indices = 0 .. N + 1
<1>1. IsFiniteSet(1 .. MaxLines) /\ Cardinality(1 .. MaxLines) = MaxLines
  BY FS_Interval
<1>2. /\ IsFiniteSet(Loggers \X (1 .. MaxLines))
      /\ Cardinality(Loggers \X (1 .. MaxLines)) = Cardinality(Loggers) * MaxLines
  BY <1>1, FS_Product
<1> QED BY <1>2, FS_CardinalityType DEF Indices

\* Indices are the naturals from 0 up to some bound above 0.
LEMMA IndexFacts ==
    /\ 0 \in Indices /\ 1 \in Indices /\ \A j \in Indices : j \in Nat
    /\ \A j \in Indices : \A k \in 0 .. j : k \in Indices
<1> DEFINE N == Cardinality(Loggers \X (1 .. MaxLines))
<1>1. N \in Nat /\ Indices = 0 .. N + 1
  BY NamesEnough
<1> HIDE DEF N
<1> QED BY <1>1

\* Not all files of today can be full: each would hold a line of its own.
LEMMA SomeRoom ==
    ASSUME LineInv, LogIntegrity, splitSize > 0
    PROVE  \E j \in Indices : j >= 1 /\ Len(files[<<today, j>>]) < splitSize
<1> DEFINE K == Loggers \X (1 .. MaxLines)
           N == Cardinality(K)
           f == [j \in 1 .. N + 1 |-> <<files[<<today, j>>][1].by, files[<<today, j>>][1].no>>]
<1>1. N \in Nat /\ IsFiniteSet(K) /\ Indices = 0 .. N + 1
  BY NamesEnough
<1>2. IsFiniteSet(1 .. N + 1) /\ Cardinality(1 .. N + 1) = N + 1
  BY <1>1, FS_Interval
<1> HIDE DEF N
<1> SUFFICES ASSUME \A j \in Indices : j >= 1 => Len(files[<<today, j>>]) >= splitSize PROVE FALSE
  <2>1. ASSUME NEW j \in Indices PROVE Len(files[<<today, j>>]) \in Nat /\ splitSize \in Nat
    BY <2>1, NameFacts DEF LineInv, TypeOK
  <2> QED BY <2>1
<1>3. ASSUME NEW j \in 1 .. N + 1
      PROVE  /\ <<today, j>> \in Pages /\ Page(<<today, j>>) = files[<<today, j>>]
             /\ 1 \in 1 .. Len(files[<<today, j>>])
             /\ files[<<today, j>>][1] \in Lines
  <2>1. j \in Indices /\ j >= 1 /\ today \in Days /\ <<today, j>> \in Names
    <3>1. j \in Indices /\ j >= 1
      BY ONLY <1>1, <1>3
    <3>2. today \in Days
      BY DEF LineInv, TypeOK
    <3> QED BY ONLY <3>1, <3>2, NameFacts
  <2>2. files[<<today, j>>] \in Seq(Lines) /\ splitSize \in Nat /\ Len(files[<<today, j>>]) >= splitSize
    BY <2>1 DEF LineInv, TypeOK
  <2> QED BY <2>1, <2>2, NameFacts, PageFacts
<1>4. f \in [1 .. N + 1 -> K]
  BY <1>3 DEF Lines
<1>5. \E x, y \in 1 .. N + 1 : x # y /\ f[x] = f[y]
  <2>1. Cardinality(K) < Cardinality(1 .. N + 1)
    BY <1>1, <1>2 DEF N
  <2> HIDE DEF f, K
  <2> QED BY <1>1, <1>2, <1>4, <2>1, FS_PigeonHole
<1>6. PICK x, y \in 1 .. N + 1 : x # y /\ f[x] = f[y]
  BY <1>5
<1>7. files[<<today, x>>][1].by = files[<<today, y>>][1].by /\ files[<<today, x>>][1].no = files[<<today, y>>][1].no
  BY <1>6
<1> QED BY <1>3, <1>6, <1>7, Apart

\* The loop of checkLogFile ends, at the first file that has room.
LEMMA RoomFound ==
    ASSUME LineInv, LogIntegrity, splitSize > 0, NEW i \in Indices, i >= 1,
           \A k \in 1 .. i - 1 : Len(files[<<today, k>>]) >= splitSize
    PROVE  /\ FirstWithRoom(i) \in Indices /\ FirstWithRoom(i) >= i
           /\ Len(files[<<today, FirstWithRoom(i)>>]) < splitSize
           /\ \A k \in i .. FirstWithRoom(i) - 1 : Len(files[<<today, k>>]) >= splitSize
<1>1. \A j \in Indices : Len(files[<<today, j>>]) \in Nat /\ splitSize \in Nat
  BY NameFacts DEF LineInv, TypeOK
<1>2. (\A j \in Indices : j \in Nat) /\ \A j \in Indices : \A k \in 0 .. j : k \in Indices
  BY IndexFacts
<1> DEFINE R == {j \in Indices : j >= i /\ Len(files[<<today, j>>]) < splitSize}
<1>3. PICK j \in Indices : j >= 1 /\ Len(files[<<today, j>>]) < splitSize
  BY SomeRoom
<1>4. j \in R /\ R \in SUBSET Nat
  BY <1>1, <1>2, <1>3
<1>5. PICK m \in R : \A k \in R : m <= k
  BY <1>4, LeastNat
<1>6. ASSUME NEW k \in i .. m - 1 PROVE Len(files[<<today, k>>]) >= splitSize
  BY <1>1, <1>2, <1>5, <1>6
<1> HIDE DEF R
<1>7. \E n \in Indices : /\ n >= i
                         /\ Len(files[<<today, n>>]) < splitSize
                         /\ \A k \in i .. n - 1 : Len(files[<<today, k>>]) >= splitSize
  BY <1>5, <1>6 DEF R
<1> QED BY <1>7 DEF FirstWithRoom

\* The index that checkLogFile chooses.
ChosenIndex == IF splitSize = 0 THEN IndexToday ELSE FirstWithRoom(IndexToday)

\* So checkLogFile chooses a file with room, behind full files only.
LEMMA IndexChosen ==
    ASSUME LineInv, Filled, LogIntegrity
    PROVE  /\ ChosenIndex \in Indices /\ ChosenIndex >= 1
           /\ splitSize > 0 =>
                 /\ Len(files[<<today, ChosenIndex>>]) < splitSize
                 /\ \A k \in 1 .. ChosenIndex - 1 : Len(files[<<today, k>>]) >= splitSize
<1>1. IndexToday \in Indices /\ IndexToday >= 1
  BY IndexFacts DEF IndexToday, LineInv, TypeOK, Filled
<1>2. splitSize \in Nat /\ today \in Days
  BY DEF LineInv, TypeOK
<1>3. CASE splitSize = 0
  BY <1>1, <1>3 DEF ChosenIndex
<1>4. CASE splitSize > 0
  <2>1. \A k \in 1 .. IndexToday - 1 : Len(files[<<today, k>>]) >= splitSize
    BY <1>2, <1>4 DEF IndexToday, Filled
  <2> DEFINE j == FirstWithRoom(IndexToday)
  <2>2. /\ j \in Indices /\ j >= IndexToday /\ Len(files[<<today, j>>]) < splitSize
        /\ \A k \in IndexToday .. j - 1 : Len(files[<<today, k>>]) >= splitSize
    BY <1>1, <1>4, <2>1, RoomFound
  <2>3. ChosenIndex = j
    BY <1>4 DEF ChosenIndex
  <2> HIDE DEF j
  <2>4. IndexToday \in Nat /\ j \in Nat
    BY <1>1, <2>2, IndexFacts
  <2>5. ASSUME NEW k \in 1 .. j - 1 PROVE Len(files[<<today, k>>]) >= splitSize
    BY <1>1, <2>1, <2>2, <2>4, <2>5
  <2> QED BY <1>1, <2>2, <2>3, <2>4, <2>5
<1> QED BY <1>2, <1>3, <1>4

-----------------------------------------------------------------------------
(* The types. *)

\* Storing lines in the chosen file keeps the type of the files.
LEMMA StoreType ==
    ASSUME TypeOK, NEW n \in 0 .. Len(writing), n > 0 => lastFile \in Names,
           files' = IF n = 0 THEN files ELSE [files EXCEPT ![lastFile] = @ \o SubSeq(writing, 1, n)]
    PROVE  files' \in [Names -> Seq(Lines)]
<1>1. CASE n = 0
  BY <1>1 DEF TypeOK
<1>2. CASE n # 0
  <2>1. lastFile \in Names /\ files[lastFile] \in Seq(Lines) /\ files \in [Names -> Seq(Lines)]
    BY <1>2 DEF TypeOK
  <2>2. files[lastFile] \o SubSeq(writing, 1, n) \in Seq(Lines)
    BY <2>1, JoinFacts DEF TypeOK
  <2> QED BY <1>2, <2>1, <2>2
<1> QED BY <1>1, <1>2

\* While run writes, the open file is the one its date and index name.
LEMMA ChosenName ==
    ASSUME TypeOK, Chosen, runpc = "write"
    PROVE  lastFile \in Names /\ lastFile[1] = lastDay /\ lastFile[2] = (IF splitSize = 0 THEN 0 ELSE splitIndex)
<1>1. lastDay \in Days /\ lastFile = <<lastDay, IF splitSize = 0 THEN 0 ELSE splitIndex>>
  BY DEF Chosen
<1>2. (IF splitSize = 0 THEN 0 ELSE splitIndex) \in Indices
  BY IndexFacts DEF TypeOK
<1> QED BY <1>1, <1>2, NameFacts

\* Every step keeps the types.
LEMMA TypeStep ==
    ASSUME LogInv, [Next]_vars
    PROVE  TypeOK'
<1> USE DEF LogInv, LineInv, listVars, fileVars, loggerVars, boundVars
<1>1. ASSUME NEW l \in Loggers, Log(l) PROVE TypeOK'
  BY <1>1 DEF Log, TypeOK
<1>2. ASSUME NEW l \in Loggers, AppendLine(l) PROVE TypeOK'
  <2>1. [by |-> l, no |-> count[l], day |-> today] \in Lines
    BY <1>2 DEF AppendLine, TypeOK, Numbered, Lines
  <2>2. waiting' \in Seq(Lines) /\ accepted' \in Seq(Lines)
    BY <1>2, <2>1, PutFacts DEF AppendLine, TypeOK
  <2> QED BY <1>2, <2>2 DEF AppendLine, TypeOK
<1>3. CASE Run
  BY <1>3 DEF Run, TypeOK
<1>4. CASE CheckLogFile
  <2>1. ChosenIndex \in Indices
    BY IndexChosen DEF FileInv
  <2>2. splitIndex' = ChosenIndex /\ OpenOrCreateFile(<<today, IF splitSize = 0 THEN 0 ELSE ChosenIndex>>)
    BY <1>4 DEF CheckLogFile, ChosenIndex
  <2>3. lastFile' \in Names
    BY <2>1, <2>2, NameFacts, IndexFacts DEF OpenOrCreateFile, TypeOK
  <2>4. stream' \in {"closed", "good", "bad"} /\ errors' \in 0 .. MaxErrors
    BY <2>2 DEF OpenOrCreateFile, TypeOK
  <2> QED BY <1>4, <2>1, <2>2, <2>3, <2>4 DEF CheckLogFile, TypeOK
<1>5. CASE WriteLines
  <2>1. PICK n \in 0 .. Len(writing) : Store(n)
    <3>1. Len(writing) \in Nat
      BY DEF TypeOK
    <3> QED BY <1>5, <3>1 DEF WriteLines
  <2>2. files' \in [Names -> Seq(Lines)]
    BY <1>5, <2>1, StoreType, ChosenName DEF Store, WriteLines, FileInv
  <2>3. lost' \subseteq Lines
    BY <2>1 DEF Store, TypeOK
  <2>4. stream' \in {"closed", "good", "bad"} /\ errors' \in 0 .. MaxErrors
    BY <1>5 DEF WriteLines, TypeOK
  <2>5. writing' \in Seq(Lines) /\ waiting' \in Seq(Lines) /\ runpc' = "timer"
    BY <1>5 DEF WriteLines, EndRun, TypeOK
  <2> QED BY <1>5, <2>2, <2>3, <2>4, <2>5 DEF WriteLines, TypeOK
<1>6. CASE Midnight
  BY <1>6 DEF Midnight, TypeOK, Days
<1>7. CASE Restart
  <2>1. PICK n \in 0 .. IF runpc = "write" /\ stream = "good" THEN Len(writing) ELSE 0 :
          /\ files' = IF n = 0 THEN files ELSE [files EXCEPT ![lastFile] = @ \o SubSeq(writing, 1, n)]
          /\ lost' = lost \cup {writing[i] : i \in n + 1 .. Len(writing)} \cup Range(waiting)
    BY <1>7 DEF Restart
  <2>2. Len(writing) \in Nat /\ n \in 0 .. Len(writing) /\ (n > 0 => runpc = "write")
    BY DEF TypeOK
  <2>3. files' \in [Names -> Seq(Lines)]
    BY <2>1, <2>2, StoreType, ChosenName DEF FileInv
  <2>4. lost' \subseteq Lines
    BY <2>1, <2>2, RangeFacts DEF TypeOK
  <2> QED BY <1>7, <2>3, <2>4, IndexFacts DEF Restart, TypeOK
<1>8. CASE UNCHANGED vars
  BY <1>8 DEF vars, TypeOK
<1> QED BY <1>1, <1>2, <1>3, <1>4, <1>5, <1>6, <1>7, <1>8 DEF Next, LogThread

-----------------------------------------------------------------------------
(* The numbers of the lines. *)

\* Every step keeps lines distinct, and only accepted lines are lost.
LEMMA NumberStep ==
    ASSUME LogInv, [Next]_vars
    PROVE  Numbered' /\ Distinct' /\ LostOnly'
<1> USE DEF LogInv, LineInv, listVars, fileVars, loggerVars, boundVars
<1>0. \A a \in 1 .. Len(accepted) : accepted[a] \in Lines /\ accepted[a].by \in Loggers /\ accepted[a].no \in Nat
  <2>1. accepted \in Seq(Lines)
    BY DEF TypeOK
  <2>2. \A x \in Lines : x.by \in Loggers /\ x.no \in Nat
    BY DEF Lines
  <2> QED BY ONLY <2>1, <2>2
<1>1. ASSUME NEW l \in Loggers, Log(l) PROVE Numbered' /\ Distinct' /\ LostOnly'
  <2>1. accepted' = accepted /\ lost' = lost
    BY <1>1 DEF Log
  <2>2. Distinct' /\ LostOnly'
    BY <2>1 DEF Distinct, LostOnly
  <2>3. /\ count' \in [Loggers -> Nat] /\ count \in [Loggers -> Nat]
        /\ count'[l] = count[l] + 1 /\ \A m \in Loggers : m # l => count'[m] = count[m] /\ pc'[m] = pc[m]
    BY <1>1 DEF Log, TypeOK
  <2>4. ASSUME NEW a \in 1 .. Len(accepted')
        PROVE  /\ accepted'[a].no <= count'[accepted'[a].by]
               /\ pc'[accepted'[a].by] = "append" => accepted'[a].no < count'[accepted'[a].by]
    <3>1. accepted[a].no <= count[accepted[a].by] /\ accepted[a].by \in Loggers /\ accepted[a].no \in Nat
      BY <1>0, <2>1, <2>4 DEF Numbered
    <3>2. CASE accepted[a].by = l
      BY <2>1, <2>3, <3>1, <3>2
    <3>3. CASE accepted[a].by # l
      BY <2>1, <2>3, <3>1, <3>3 DEF Numbered
    <3> QED BY <3>2, <3>3
  <2>5. \A m \in Loggers : pc'[m] = "append" => count'[m] >= 1
    BY <2>3 DEF Numbered
  <2>6. Numbered'
    BY <2>4, <2>5 DEF Numbered
  <2> QED BY <2>2, <2>6
<1>2. ASSUME NEW l \in Loggers, AppendLine(l) PROVE Numbered' /\ Distinct' /\ LostOnly'
  <2> DEFINE x == [by |-> l, no |-> count[l], day |-> today]
  <2>1. x \in Lines /\ x.by = l /\ x.no = count[l] /\ count[l] \in Nat /\ count[l] >= 1
    BY <1>2 DEF AppendLine, TypeOK, Numbered, Lines
  <2>2. /\ accepted' = Append(accepted, x) /\ lost' = lost /\ count' = count
        /\ pc[l] = "append" /\ pc'[l] = "idle" /\ \A m \in Loggers : m # l => pc'[m] = pc[m]
    BY <1>2 DEF AppendLine, TypeOK
  <2> HIDE DEF x
  <2>3. /\ Len(accepted) \in Nat /\ Len(accepted') = Len(accepted) + 1 /\ accepted'[Len(accepted) + 1] = x
        /\ \A a \in 1 .. Len(accepted) : accepted'[a] = accepted[a]
    BY <2>1, <2>2, PutFacts DEF TypeOK
  <2>4. \A a \in 1 .. Len(accepted) : accepted[a].by = l => accepted[a].no < count[l]
    BY <1>0, <2>2 DEF Numbered
  <2>5. Numbered'
    <3>1. ASSUME NEW a \in 1 .. Len(accepted')
          PROVE  /\ accepted'[a].no <= count'[accepted'[a].by]
                 /\ pc'[accepted'[a].by] = "append" => accepted'[a].no < count'[accepted'[a].by]
      <4>1. CASE a = Len(accepted) + 1
        BY <2>1, <2>2, <2>3, <4>1
      <4>2. CASE a \in 1 .. Len(accepted)
        BY <1>0, <2>2, <2>3, <4>2 DEF Numbered
      <4> QED BY <2>3, <4>1, <4>2
    <3>2. \A m \in Loggers : pc'[m] = "append" => count'[m] >= 1
      BY <2>2 DEF Numbered
    <3> QED BY <3>1, <3>2 DEF Numbered
  <2>6. Distinct'
    <3> SUFFICES ASSUME NEW a \in 1 .. Len(accepted'), NEW b \in 1 .. Len(accepted'),
                        accepted'[a].by = accepted'[b].by, accepted'[a].no = accepted'[b].no
                 PROVE  a = b
      BY DEF Distinct
    <3>1. CASE a \in 1 .. Len(accepted) /\ b \in 1 .. Len(accepted)
      BY <2>3, <3>1 DEF Distinct
    <3>2. CASE a \in 1 .. Len(accepted) /\ b = Len(accepted) + 1
      BY <1>0, <2>1, <2>3, <2>4, <3>2
    <3>3. CASE a = Len(accepted) + 1 /\ b \in 1 .. Len(accepted)
      BY <1>0, <2>1, <2>3, <2>4, <3>3
    <3> QED BY <2>3, <3>1, <3>2, <3>3
  <2>7. LostOnly'
    BY <2>2, <2>3 DEF LostOnly
  <2> QED BY <2>5, <2>6, <2>7
<1>3. ASSUME accepted' = accepted, count' = count, pc' = pc \/ pc' = [l \in Loggers |-> "idle"],
             NEW W, W \subseteq Lines, \A x \in W : \E p \in Pages : \E i \in 1 .. Len(Page(p)) : Page(p)[i] = x,
             lost' = lost \cup W
      PROVE  Numbered' /\ Distinct' /\ LostOnly'
  <2>1. Numbered' /\ Distinct'
    BY <1>0, <1>3 DEF Numbered, Distinct
  <2>2. LostOnly'
    BY <1>3 DEF LostOnly, LogIntegrity, Sound
  <2> QED BY <2>1, <2>2
<1>4. CASE Run \/ CheckLogFile \/ Midnight \/ UNCHANGED vars
  <2>1. accepted' = accepted /\ count' = count /\ pc' = pc /\ lost' = lost
    BY <1>4 DEF Run, CheckLogFile, Midnight, vars
  <2> QED BY <2>1 DEF Numbered, Distinct, LostOnly
<1>5. \A n \in Nat : LET W == {writing[i] : i \in n + 1 .. Len(writing)}
                     IN  W \subseteq Lines /\ \A x \in W : \E p \in Pages : \E i \in 1 .. Len(Page(p)) : Page(p)[i] = x
  <2>1. writing \in Seq(Lines) /\ Len(writing) \in Nat
    BY DEF TypeOK
  <2>2. \A n \in Nat : \A i \in n + 1 .. Len(writing) : i \in 1 .. Len(writing) /\ writing[i] \in Lines
    BY <2>1
  <2> QED BY <2>2, NameFacts, PageFacts
<1>6. CASE WriteLines
  <2>1. PICK n \in Nat : Store(n)
    <3>1. Len(writing) \in Nat
      BY DEF TypeOK
    <3> QED BY <1>6, <3>1 DEF WriteLines
  <2>2. accepted' = accepted /\ count' = count /\ pc' = pc
    BY <1>6 DEF WriteLines
  <2> DEFINE W == {writing[i] : i \in n + 1 .. Len(writing)}
  <2>3. lost' = lost \cup W
    BY <2>1 DEF Store
  <2>4. W \subseteq Lines /\ \A x \in W : \E p \in Pages : \E i \in 1 .. Len(Page(p)) : Page(p)[i] = x
    BY <1>5
  <2> HIDE DEF W
  <2> QED BY <1>3, <2>2, <2>3, <2>4
<1>7. CASE Restart
  <2>1. PICK n \in 0 .. IF runpc = "write" /\ stream = "good" THEN Len(writing) ELSE 0 :
          lost' = lost \cup {writing[i] : i \in n + 1 .. Len(writing)} \cup Range(waiting)
    BY <1>7 DEF Restart
  <2>2. accepted' = accepted /\ count' = count /\ pc' = [l \in Loggers |-> "idle"]
    BY <1>7 DEF Restart
  <2> DEFINE W == {writing[i] : i \in n + 1 .. Len(writing)}
  <2>3. n \in Nat /\ lost' = lost \cup (W \cup Range(waiting))
    BY <2>1 DEF TypeOK
  <2>4. W \subseteq Lines /\ \A x \in W : \E p \in Pages : \E i \in 1 .. Len(Page(p)) : Page(p)[i] = x
    BY <1>5, <2>3
  <2> HIDE DEF W
  <2>5. /\ W \cup Range(waiting) \subseteq Lines
        /\ \A x \in W \cup Range(waiting) : \E p \in Pages : \E i \in 1 .. Len(Page(p)) : Page(p)[i] = x
    <3>1. waiting \in Seq(Lines)
      BY DEF TypeOK
    <3>2. Range(waiting) \subseteq Lines /\ \A x \in Range(waiting) : \E i \in 1 .. Len(waiting) : waiting[i] = x
      BY <3>1, RangeFacts
    <3>3. Waiting \in Pages /\ Page(Waiting) = waiting
      BY PageNumbers, PageFacts
    <3> QED BY ONLY <2>4, <3>2, <3>3
  <2> QED BY <1>3, <2>2, <2>3, <2>5
<1> QED BY <1>1, <1>2, <1>4, <1>6, <1>7 DEF Next, LogThread

-----------------------------------------------------------------------------
(* The files. *)

\* What Store(n) and the end of the process do to a file.
LEMMA Stored ==
    ASSUME TypeOK, NEW n \in 0 .. Len(writing), n > 0 => lastFile \in Names,
           files' = IF n = 0 THEN files ELSE [files EXCEPT ![lastFile] = @ \o SubSeq(writing, 1, n)],
           NEW f \in Names
    PROVE  /\ Len(files[f]) \in Nat /\ n \in Nat /\ Len(writing) \in Nat
           /\ \A i \in 1 .. Len(files[f]) : files'[f][i] = files[f][i]
           /\ n = 0 \/ f # lastFile => files'[f] = files[f]
           /\ n > 0 /\ f = lastFile =>
                 /\ Len(files'[f]) = Len(files[f]) + n
                 /\ \A i \in 1 .. n : files'[f][Len(files[f]) + i] = writing[i]
<1>1. files \in [Names -> Seq(Lines)] /\ writing \in Seq(Lines)
  BY DEF TypeOK
<1>2. Len(files[f]) \in Nat /\ n \in Nat /\ Len(writing) \in Nat
  BY <1>1
<1>3. CASE n = 0 \/ f # lastFile
  <2>1. files'[f] = files[f]
    BY <1>1, <1>2, <1>3
  <2> QED BY ONLY <1>2, <1>3, <2>1
<1>4. CASE n > 0 /\ f = lastFile
  <2>1. files'[f] = files[f] \o SubSeq(writing, 1, n)
    BY <1>1, <1>4
  <2>2. files[f] \in Seq(Lines)
    BY <1>1
  <2>3. /\ Len(files'[f]) = Len(files[f]) + n
        /\ \A i \in 1 .. Len(files[f]) : files'[f][i] = files[f][i]
        /\ \A i \in 1 .. n : files'[f][Len(files[f]) + i] = writing[i]
    <3>1. n \in 0 .. Len(writing)
      OBVIOUS
    <3> QED BY ONLY <1>1, <2>1, <2>2, <3>1, JoinFacts
  <2>4. ~(n = 0 \/ f # lastFile)
    BY ONLY <1>2, <1>4
  <2> QED BY ONLY <1>2, <1>4, <2>3, <2>4
<1>5. n = 0 \/ n > 0
  BY ONLY <1>2
<1> QED BY ONLY <1>2, <1>3, <1>4, <1>5

\* Storing lines keeps files in use, full ones full and dates in order.
LEMMA StoredFiles ==
    ASSUME LineInv, FileInv, NEW n \in 0 .. Len(writing), n > 0 => runpc = "write",
           files' = IF n = 0 THEN files ELSE [files EXCEPT ![lastFile] = @ \o SubSeq(writing, 1, n)],
           splitSize' = splitSize, today' = today
    PROVE  /\ Used' /\ Split'
           /\ \A f \in Names : Len(files'[f]) >= Len(files[f])
           /\ \A f \in Names : \A i \in 1 .. Len(files'[f]) : files'[f][i].day <= f[1]
<1> USE DEF LineInv, FileInv
<1>1. /\ \A f \in Names : files[f] \in Seq(Lines) /\ files'[f] \in Seq(Lines)
      /\ n \in Nat /\ splitSize \in Nat /\ splitIndex \in Nat /\ Len(writing) \in Nat
  <2>1. files' \in [Names -> Seq(Lines)]
    BY StoreType, ChosenName
  <2> QED BY <2>1, IndexFacts DEF TypeOK
<1>2. n > 0 => /\ lastFile \in Names /\ lastFile[1] = lastDay
               /\ lastFile[2] = (IF splitSize = 0 THEN 0 ELSE splitIndex)
               /\ lastDay \in Days /\ lastDay <= today /\ lastFile = <<lastFile[1], lastFile[2]>>
  BY ChosenName, NameFacts DEF Chosen
<1>3. ASSUME NEW f \in Names
      PROVE  /\ Len(files[f]) \in Nat
             /\ \A i \in 1 .. Len(files[f]) : files'[f][i] = files[f][i]
             /\ n = 0 \/ f # lastFile => files'[f] = files[f]
             /\ n > 0 /\ f = lastFile =>
                   /\ Len(files'[f]) = Len(files[f]) + n
                   /\ \A i \in 1 .. n : files'[f][Len(files[f]) + i] = writing[i]
  BY <1>2, <1>3, Stored
<1>4. ASSUME NEW f \in Names, files'[f] # <<>> PROVE files[f] # <<>> \/ (n > 0 /\ f = lastFile)
  BY <1>1, <1>3, <1>4
<1>5. \A f \in Names : Len(files'[f]) >= Len(files[f])
  BY <1>1, <1>3
<1>6. Used'
  <2> SUFFICES ASSUME NEW f \in Names, files'[f] # <<>>
               PROVE  f[1] <= today /\ (splitSize = 0 <=> f[2] = 0)
    BY DEF Used
  <2>1. CASE files[f] # <<>>
    BY <2>1 DEF Used
  <2>2. CASE n > 0 /\ f = lastFile
    BY <1>1, <1>2, <2>2 DEF Filled
  <2> QED BY <1>4, <2>1, <2>2
<1>7. Split'
  <2> SUFFICES ASSUME splitSize > 0, NEW d \in Days, NEW i \in Indices, NEW j \in Indices,
                      1 <= i, i < j, files'[<<d, j>>] # <<>>
               PROVE  Len(files'[<<d, i>>]) >= splitSize
    BY DEF Split
  <2>1. <<d, i>> \in Names /\ <<d, j>> \in Names /\ i \in Nat /\ j \in Nat
    BY NameFacts, IndexFacts
  <2>2. Len(files[<<d, i>>]) >= splitSize
    <3>1. CASE files[<<d, j>>] # <<>>
      BY <3>1 DEF Split
    <3>2. CASE n > 0 /\ <<d, j>> = lastFile
      <4>1. d = lastDay /\ j = splitIndex
        BY <1>1, <1>2, <3>2
      <4> QED BY <1>1, <2>1, <4>1 DEF Filled
    <3> QED BY <1>4, <2>1, <3>1, <3>2
  <2>3. Len(files'[<<d, i>>]) >= Len(files[<<d, i>>]) /\ Len(files'[<<d, i>>]) \in Nat /\ Len(files[<<d, i>>]) \in Nat
    BY ONLY <1>1, <1>5, <2>1
  <2> QED BY ONLY <1>1, <2>2, <2>3
<1>8. ASSUME NEW f \in Names, NEW i \in 1 .. Len(files'[f]) PROVE files'[f][i].day <= f[1]
  <2>1. CASE i \in 1 .. Len(files[f])
    BY <1>3, <2>1 DEF Dated
  <2>2. CASE i \notin 1 .. Len(files[f])
    <3>1. n > 0 /\ f = lastFile
      BY <1>3, <2>2
    <3>2. i - Len(files[f]) \in 1 .. n /\ i = Len(files[f]) + (i - Len(files[f]))
      BY <1>1, <1>3, <2>2, <3>1
    <3>3. files'[f][i] = writing[i - Len(files[f])]
      BY <1>3, <3>1, <3>2
    <3>4. i - Len(files[f]) \in 1 .. Len(writing)
      BY <1>1, <3>2
    <3> QED BY <1>2, <3>1, <3>3, <3>4 DEF Dated
  <2> QED BY <2>1, <2>2
<1> QED BY <1>5, <1>6, <1>7, <1>8

\* Every step keeps the layout of the files and the choice of run.
LEMMA FileStep ==
    ASSUME LogInv, [Next]_vars
    PROVE  FileInv'
<1> USE DEF LogInv, LineInv, listVars, fileVars, loggerVars, boundVars
<1>0. /\ lastDay \in Nat /\ today \in Nat /\ splitIndex \in Nat /\ splitSize \in Nat
      /\ waiting \in Seq(Lines) /\ writing \in Seq(Lines) /\ \A x \in Lines : x.day \in Nat
      /\ \A f \in Names : files[f] \in Seq(Lines) /\ Len(files[f]) \in Nat
  <2>1. \A x \in Lines : x.day \in Nat
    BY DEF Lines, Days
  <2>2. lastDay \in Nat /\ today \in Nat /\ splitIndex \in Nat /\ splitSize \in Nat
    BY IndexFacts DEF TypeOK, Days
  <2>3. waiting \in Seq(Lines) /\ writing \in Seq(Lines) /\ files \in [Names -> Seq(Lines)]
    BY DEF TypeOK
  <2> QED BY ONLY <2>1, <2>2, <2>3
<1>1. CASE (\E l \in Loggers : Log(l)) \/ UNCHANGED vars
  BY <1>1 DEF Log, vars, FileInv, Idle, Used, Filled, Split, Chosen, Dated
<1>2. ASSUME NEW l \in Loggers, AppendLine(l) PROVE FileInv'
  <2> DEFINE x == [by |-> l, no |-> count[l], day |-> today]
  <2>1. /\ waiting' = Append(waiting, x) /\ UNCHANGED <<splitSize, writing, fileVars, runpc, today, files>>
    BY <1>2 DEF AppendLine
  <2>2. x \in Lines /\ x.day = today
    BY <1>2 DEF AppendLine, TypeOK, Numbered, Lines
  <2> HIDE DEF x
  <2>3. \A i \in 1 .. Len(waiting') : waiting'[i] = x \/ (i \in 1 .. Len(waiting) /\ waiting'[i] = waiting[i])
    BY ONLY <1>0, <2>1, <2>2, PutFacts
  <2>4. Dated'
    BY <1>0, <2>1, <2>2, <2>3 DEF FileInv, Dated
  <2> QED BY <2>1, <2>4 DEF FileInv, Idle, Used, Filled, Split, Chosen
<1>3. CASE Run
  <2>1. /\ runpc' = "file" /\ writing' = waiting /\ waiting' = <<>>
        /\ UNCHANGED <<splitSize, lastDay, splitIndex, lastFile, today, files>>
    BY <1>3 DEF Run, FileInv, Idle
  <2> QED BY <2>1 DEF FileInv, Idle, Used, Filled, Split, Chosen, Dated
<1>4. CASE CheckLogFile
  <2>1. /\ ChosenIndex \in Indices /\ ChosenIndex >= 1
        /\ splitSize > 0 =>
              /\ Len(files[<<today, ChosenIndex>>]) < splitSize
              /\ \A k \in 1 .. ChosenIndex - 1 : Len(files[<<today, k>>]) >= splitSize
    BY IndexChosen DEF FileInv
  <2>2. /\ runpc' = "write" /\ lastDay' = today /\ splitIndex' = ChosenIndex
        /\ lastFile' = <<today, IF splitSize = 0 THEN 0 ELSE ChosenIndex>>
        /\ UNCHANGED <<splitSize, waiting, writing, today, files>> /\ today \in Days
    BY <1>4 DEF CheckLogFile, ChosenIndex, OpenOrCreateFile, TypeOK
  <2>3. lastFile'[1] = today /\ lastFile'[2] = (IF splitSize = 0 THEN 0 ELSE ChosenIndex)
    BY <2>2
  <2> HIDE DEF ChosenIndex
  <2>4. Idle' /\ Used' /\ Filled' /\ Split' /\ Dated'
    BY <1>0, <2>1, <2>2 DEF FileInv, Idle, Used, Filled, Split, Dated
  <2>5. ASSUME NEW f \in Names, files[f] # <<>>
        PROVE  f[1] < today \/ (f[1] = today /\ f[2] <= IF splitSize = 0 THEN 0 ELSE ChosenIndex)
    <3>1. f[1] \in Nat /\ f[2] \in Indices /\ f[2] \in Nat /\ ChosenIndex \in Nat /\ f = <<f[1], f[2]>>
      BY <2>1, NameFacts, IndexFacts
    <3>2. f[1] <= today /\ (splitSize = 0 <=> f[2] = 0)
      BY <2>5 DEF FileInv, Used
    <3>3. ASSUME f[1] = today, splitSize > 0 PROVE f[2] <= ChosenIndex
      <4>1. SUFFICES ASSUME ChosenIndex < f[2] PROVE FALSE
        BY <3>1
      <4>2. Len(files[<<today, ChosenIndex>>]) >= splitSize
        BY <2>1, <2>2, <2>5, <3>1, <3>3, <4>1 DEF FileInv, Split
      <4>3. Len(files[<<today, ChosenIndex>>]) \in Nat
        BY <1>0, <2>1, <2>2, NameFacts
      <4> QED BY <1>0, <2>1, <3>3, <4>2, <4>3
    <3> QED BY <1>0, <3>1, <3>2, <3>3
  <2>6. Chosen'
    BY <1>0, <2>2, <2>3, <2>5 DEF Chosen
  <2> QED BY <2>4, <2>6 DEF FileInv
<1>5. ASSUME NEW n \in 0 .. Len(writing), n > 0 => runpc = "write",
             files' = IF n = 0 THEN files ELSE [files EXCEPT ![lastFile] = @ \o SubSeq(writing, 1, n)],
             UNCHANGED <<splitSize, today>>, runpc' = "timer", writing' = <<>>, waiting' \in {waiting, <<>>},
             UNCHANGED <<lastDay, splitIndex>> \/ splitIndex' = 1
      PROVE  FileInv'
  <2>1. /\ Used' /\ Split'
        /\ \A f \in Names : Len(files'[f]) >= Len(files[f])
        /\ \A f \in Names : \A i \in 1 .. Len(files'[f]) : files'[f][i].day <= f[1]
    BY <1>5, StoredFiles
  <2>2. Idle' /\ Chosen'
    BY <1>5 DEF Idle, Chosen
  <2>3. Dated'
    <3>1. \A i \in 1 .. Len(waiting') : waiting'[i].day <= today'
      <4>1. CASE waiting' = waiting
        BY <1>5, <4>1 DEF FileInv, Dated
      <4>2. CASE waiting' = <<>>
        BY <4>2
      <4> QED BY <1>5, <4>1, <4>2
    <3>2. Len(writing') = 0
      BY <1>5
    <3> QED BY <2>1, <3>1, <3>2 DEF Dated
  <2>4. Filled'
    <3>1. CASE splitIndex' = 1
      BY <3>1 DEF Filled
    <3>2. CASE UNCHANGED <<lastDay, splitIndex>>
      <4>1. splitIndex >= 1 /\ splitIndex \in Indices
        BY DEF FileInv, Filled, TypeOK
      <4>2. ASSUME splitSize > 0, lastDay \in Days, NEW k \in 1 .. splitIndex - 1
            PROVE  Len(files'[<<lastDay, k>>]) >= splitSize
        <5>1. <<lastDay, k>> \in Names
          <6>1. k \in Indices
            BY ONLY <1>0, <4>1, <4>2, IndexFacts
          <6> QED BY ONLY <4>2, <6>1, NameFacts
        <5>2. Len(files[<<lastDay, k>>]) >= splitSize
          BY <4>2 DEF FileInv, Filled
        <5>3. Len(files'[<<lastDay, k>>]) \in Nat
          BY <5>1, TypeStep DEF TypeOK
        <5> QED BY ONLY <1>0, <2>1, <5>1, <5>2, <5>3
      <4> QED BY <1>5, <3>2, <4>1, <4>2 DEF Filled
    <3> QED BY <1>5, <3>1, <3>2
  <2> QED BY <2>1, <2>2, <2>3, <2>4 DEF FileInv
<1>6. CASE WriteLines
  <2>1. PICK n \in 0 .. Len(writing) : Store(n)
    <3>1. Len(writing) \in Nat
      BY DEF TypeOK
    <3> QED BY <1>6, <3>1 DEF WriteLines
  <2> QED BY <1>5, <1>6, <2>1 DEF WriteLines, EndRun, Store
<1>7. CASE Restart
  <2>1. PICK n \in 0 .. IF runpc = "write" /\ stream = "good" THEN Len(writing) ELSE 0 :
          files' = IF n = 0 THEN files ELSE [files EXCEPT ![lastFile] = @ \o SubSeq(writing, 1, n)]
    BY <1>7 DEF Restart
  <2>2. n \in 0 .. Len(writing) /\ (n > 0 => runpc = "write")
    BY DEF TypeOK
  <2> QED BY <1>5, <1>7, <2>1, <2>2 DEF Restart
<1>8. CASE Midnight
  <2>1. today' = today + 1 /\ UNCHANGED <<splitSize, waiting, writing, lastDay, splitIndex, lastFile, runpc, files>>
    BY <1>8 DEF Midnight
  <2>2. Idle' /\ Filled' /\ Split'
    BY <2>1 DEF FileInv, Idle, Filled, Split
  <2>3. Used'
    BY <1>0, <2>1, NameFacts DEF FileInv, Used
  <2>4. Chosen'
    BY <1>0, <2>1 DEF FileInv, Chosen
  <2>5. Dated'
    BY <1>0, <2>1 DEF FileInv, Dated
  <2> QED BY <2>2, <2>3, <2>4, <2>5 DEF FileInv
<1> QED BY <1>1, <1>2, <1>3, <1>4, <1>6, <1>7, <1>8 DEF Next, LogThread

-----------------------------------------------------------------------------
(* What the files and the lists hold.  The integrity of the log, as a property *)
(* of values: P, the lines at each page, A, what was accepted, L, what is lost. *)

AllThere(P, A, L) ==
    \A a \in 1 .. Len(A) : A[a] \in L \/ \E p \in Pages : \E i \in 1 .. Len(P[p]) : P[p][i] = A[a]

AllSound(P, A, L) ==
    \A p \in Pages : \A i \in 1 .. Len(P[p]) : P[p][i] \notin L /\ \E a \in 1 .. Len(A) : A[a] = P[p][i]

AllInOrder(P, A) ==
    \A p, q \in Pages : \A i \in 1 .. Len(P[p]), j \in 1 .. Len(P[q]) :
        Before(p, i, q, j) => \E a, b \in 1 .. Len(A) : a < b /\ A[a] = P[p][i] /\ A[b] = P[q][j]

Whole(P, A, L) == AllThere(P, A, L) /\ AllSound(P, A, L) /\ AllInOrder(P, A)

Library == [p \in Pages |-> CASE p = Writing -> writing [] p = Waiting -> waiting [] OTHER -> files[p]]

\* LogIntegrity is a property of the values before a step and after it.
LEMMA WholeLog ==
    /\ LogIntegrity <=> Whole(Library, accepted, lost)
    /\ Whole(Library, accepted, lost)' => LogIntegrity'
BY DEF LogIntegrity, Complete, Sound, InOrder, Whole, AllThere, AllSound, AllInOrder, Library, Page

\* The library gives the contents of each page, before and after a step.
LEMMA LibraryFacts ==
    /\ \A p \in Pages : Library[p] = Page(p)
    /\ Library[Writing] = writing /\ Library[Waiting] = waiting /\ \A f \in Names : Library[f] = files[f]
    /\ Library'[Writing] = writing' /\ Library'[Waiting] = waiting' /\ \A f \in Names : Library'[f] = files'[f]
    /\ TypeOK => Library \in [Pages -> Seq(Lines)]
    /\ TypeOK' => Library' \in [Pages -> Seq(Lines)]
<1>1. \A p \in Pages : Library[p] = Page(p)
  BY DEF Library, Page
<1>2. /\ Library[Writing] = writing /\ Library[Waiting] = waiting /\ \A f \in Names : Library[f] = files[f]
      /\ Library'[Writing] = writing' /\ Library'[Waiting] = waiting' /\ \A f \in Names : Library'[f] = files'[f]
  BY NameFacts DEF Library
<1>3. /\ TypeOK => Library \in [Pages -> Seq(Lines)]
      /\ TypeOK' => Library' \in [Pages -> Seq(Lines)]
  BY DEF Library, TypeOK, Pages
<1> QED BY <1>1, <1>2, <1>3

\* Lines move from the pages P to the pages Q: the line at position i of page p
\* was at oi[<<p, i>>] of op[<<p, i>>].
Traced(P, Q, op, oi) ==
    \A p \in Pages : \A i \in 1 .. Len(Q[p]) :
        /\ op[<<p, i>>] \in Pages /\ oi[<<p, i>>] \in 1 .. Len(P[op[<<p, i>>]])
        /\ P[op[<<p, i>>]][oi[<<p, i>>]] = Q[p][i]

OrderKept(Q, op, oi) ==
    \A p, q \in Pages : \A i \in 1 .. Len(Q[p]), j \in 1 .. Len(Q[q]) :
        Before(p, i, q, j) => Before(op[<<p, i>>], oi[<<p, i>>], op[<<q, j>>], oi[<<q, j>>])

\* Those that are lost, M, are those that disappear.
LossKnown(P, Q, M) ==
    /\ \A p \in Pages : \A i \in 1 .. Len(Q[p]) : Q[p][i] \notin M
    /\ \A p \in Pages : \A i \in 1 .. Len(P[p]) :
          P[p][i] \in M \/ \E q \in Pages : \E j \in 1 .. Len(Q[q]) : Q[q][j] = P[p][i]

\* Lines that keep their order when they move leave the log whole.
LEMMA Moved ==
    ASSUME NEW P, NEW Q, NEW A, NEW L, NEW M, L \subseteq M, Whole(P, A, L), NEW op, NEW oi,
           Traced(P, Q, op, oi), OrderKept(Q, op, oi), LossKnown(P, Q, M)
    PROVE  Whole(Q, A, M)
<1>1. AllThere(Q, A, M)
  <2> SUFFICES ASSUME NEW a \in 1 .. Len(A), A[a] \notin M
               PROVE  \E p \in Pages : \E i \in 1 .. Len(Q[p]) : Q[p][i] = A[a]
    BY DEF AllThere
  <2>1. PICK p \in Pages : \E i \in 1 .. Len(P[p]) : P[p][i] = A[a]
    BY DEF Whole, AllThere
  <2>2. PICK i \in 1 .. Len(P[p]) : P[p][i] = A[a]
    BY <2>1
  <2> QED BY <2>2 DEF LossKnown
<1>2. AllSound(Q, A, M)
  <2> SUFFICES ASSUME NEW p \in Pages, NEW i \in 1 .. Len(Q[p])
               PROVE  Q[p][i] \notin M /\ \E a \in 1 .. Len(A) : A[a] = Q[p][i]
    BY DEF AllSound
  <2> DEFINE r == op[<<p, i>>]
             k == oi[<<p, i>>]
  <2>1. r \in Pages /\ k \in 1 .. Len(P[r]) /\ P[r][k] = Q[p][i]
    BY DEF Traced
  <2>2. Q[p][i] \notin M
    BY DEF LossKnown
  <2> HIDE DEF r, k
  <2>3. \E a \in 1 .. Len(A) : A[a] = P[r][k]
    BY <2>1, Zenon DEF Whole, AllSound
  <2> QED BY <2>1, <2>2, <2>3
<1>3. AllInOrder(Q, A)
  <2> SUFFICES ASSUME NEW p \in Pages, NEW q \in Pages, NEW i \in 1 .. Len(Q[p]), NEW j \in 1 .. Len(Q[q]),
                      Before(p, i, q, j)
               PROVE  \E a, b \in 1 .. Len(A) : a < b /\ A[a] = Q[p][i] /\ A[b] = Q[q][j]
    BY DEF AllInOrder
  <2> DEFINE r == op[<<p, i>>]
             k == oi[<<p, i>>]
             s == op[<<q, j>>]
             m == oi[<<q, j>>]
  <2>1. r \in Pages /\ k \in 1 .. Len(P[r]) /\ P[r][k] = Q[p][i]
    BY DEF Traced
  <2>2. s \in Pages /\ m \in 1 .. Len(P[s]) /\ P[s][m] = Q[q][j]
    BY DEF Traced
  <2>3. Before(r, k, s, m)
    BY Zenon DEF OrderKept
  <2> HIDE DEF r, k, s, m
  <2>4. \E a, b \in 1 .. Len(A) : a < b /\ A[a] = P[r][k] /\ A[b] = P[s][m]
    BY <2>1, <2>2, <2>3 DEF Whole, AllInOrder
  <2> QED BY <2>1, <2>2, <2>4
<1> QED BY <1>1, <1>2, <1>3 DEF Whole

\* A new line is the last of what was accepted and the last of all the pages.
LEMMA Added ==
    ASSUME NEW P \in [Pages -> Seq(Lines)], NEW A \in Seq(Lines), NEW L, NEW x \in Lines, x \notin L,
           Whole(P, A, L), NEW Q, Q[Waiting] = Append(P[Waiting], x),
           \A p \in Pages : p # Waiting => Q[p] = P[p]
    PROVE  Whole(Q, Append(A, x), L)
<1> DEFINE B == Append(A, x)
           n == Len(P[Waiting])
<1>1. /\ Len(A) \in Nat /\ Len(B) = Len(A) + 1 /\ B[Len(A) + 1] = x
      /\ \A a \in 1 .. Len(A) : B[a] = A[a]
  BY PutFacts
<1>2. /\ n \in Nat /\ Len(Q[Waiting]) = n + 1 /\ Q[Waiting][n + 1] = x
      /\ \A i \in 1 .. n : Q[Waiting][i] = P[Waiting][i]
  <2>1. P[Waiting] \in Seq(Lines)
    BY NameFacts
  <2> QED BY <2>1, PutFacts
<1> HIDE DEF B, n
<1>3. ASSUME NEW p \in Pages, NEW i \in 1 .. Len(Q[p])
      PROVE  /\ i \in Nat
             /\ \/ i \in 1 .. Len(P[p]) /\ Q[p][i] = P[p][i]
                \/ p = Waiting /\ i = n + 1 /\ Q[p][i] = x
  <2>1. CASE p = Waiting
    BY <1>2, <1>3, <2>1 DEF n
  <2>2. CASE p # Waiting
    BY <1>3, <2>2
  <2> QED BY <2>1, <2>2
<1>4. ASSUME NEW p \in Pages, NEW i \in 1 .. Len(P[p])
      PROVE  i \in 1 .. Len(Q[p]) /\ Q[p][i] = P[p][i]
  <2>1. CASE p = Waiting
    BY <1>2, <1>4, <2>1 DEF n
  <2>2. CASE p # Waiting
    BY <1>4, <2>2
  <2> QED BY <2>1, <2>2
<1>5. AllThere(Q, B, L)
  <2> SUFFICES ASSUME NEW a \in 1 .. Len(B), B[a] \notin L
               PROVE  \E p \in Pages : \E i \in 1 .. Len(Q[p]) : Q[p][i] = B[a]
    BY DEF AllThere
  <2>1. CASE a = Len(A) + 1
    <3>1. Waiting \in Pages /\ n + 1 \in 1 .. Len(Q[Waiting]) /\ Q[Waiting][n + 1] = B[a]
      BY <1>1, <1>2, <2>1, NameFacts
    <3> QED BY <3>1
  <2>2. CASE a \in 1 .. Len(A)
    <3>1. B[a] = A[a]
      BY <1>1, <2>2
    <3>2. PICK p \in Pages : \E i \in 1 .. Len(P[p]) : P[p][i] = A[a]
      BY <2>2, <3>1 DEF Whole, AllThere
    <3>3. PICK i \in 1 .. Len(P[p]) : P[p][i] = A[a]
      BY <3>2
    <3>4. i \in 1 .. Len(Q[p]) /\ Q[p][i] = P[p][i]
      BY <1>4
    <3> QED BY <3>1, <3>3, <3>4
  <2> QED BY <1>1, <2>1, <2>2
<1>6. AllSound(Q, B, L)
  <2> SUFFICES ASSUME NEW p \in Pages, NEW i \in 1 .. Len(Q[p])
               PROVE  Q[p][i] \notin L /\ \E a \in 1 .. Len(B) : B[a] = Q[p][i]
    BY DEF AllSound
  <2>1. CASE Q[p][i] = x
    BY <1>1, <2>1
  <2>2. CASE i \in 1 .. Len(P[p]) /\ Q[p][i] = P[p][i]
    <3>1. P[p][i] \notin L /\ \E a \in 1 .. Len(A) : A[a] = P[p][i]
      BY <2>2 DEF Whole, AllSound
    <3>2. PICK a \in 1 .. Len(A) : A[a] = P[p][i]
      BY <3>1
    <3> QED BY <1>1, <2>2, <3>1, <3>2
  <2> QED BY <1>3, <2>1, <2>2
<1>7. AllInOrder(Q, B)
  <2> SUFFICES ASSUME NEW p \in Pages, NEW q \in Pages, NEW i \in 1 .. Len(Q[p]), NEW j \in 1 .. Len(Q[q]),
                      Before(p, i, q, j)
               PROVE  \E a, b \in 1 .. Len(B) : a < b /\ B[a] = Q[p][i] /\ B[b] = Q[q][j]
    BY DEF AllInOrder
  <2>1. i \in 1 .. Len(P[p]) /\ Q[p][i] = P[p][i]
    <3>1. SUFFICES ASSUME p = Waiting, i = n + 1 PROVE FALSE
      BY <1>3
    <3>2. q[1] \in Nat /\ q[2] \in Nat /\ (q = Waiting \/ q[1] < MaxDay + 2)
      BY ONLY PageNumbers, q \in Pages
    <3>3. p[1] = MaxDay + 2 /\ p[2] = 0
      BY <3>1, NameFacts
    <3>4. p = q /\ i < j
      BY <3>2, <3>3 DEF Before, Waiting
    <3> QED BY <1>2, <3>1, <3>4
  <2>2. CASE Q[q][j] = x
    <3>1. PICK a \in 1 .. Len(A) : A[a] = P[p][i]
      BY <2>1 DEF Whole, AllSound
    <3>2. a < Len(A) + 1 /\ a \in 1 .. Len(B) /\ Len(A) + 1 \in 1 .. Len(B) /\ B[a] = Q[p][i] /\ B[Len(A) + 1] = Q[q][j]
      BY <1>1, <2>1, <2>2, <3>1
    <3> QED BY <3>2
  <2>3. CASE j \in 1 .. Len(P[q]) /\ Q[q][j] = P[q][j]
    <3>1. PICK a, b \in 1 .. Len(A) : a < b /\ A[a] = P[p][i] /\ A[b] = P[q][j]
      BY <2>1, <2>3 DEF Whole, AllInOrder
    <3>2. a \in 1 .. Len(B) /\ b \in 1 .. Len(B) /\ B[a] = Q[p][i] /\ B[b] = Q[q][j]
      BY <1>1, <2>1, <2>3, <3>1
    <3> QED BY <3>1, <3>2
  <2> QED BY <1>3, <2>2, <2>3
<1> QED BY <1>5, <1>6, <1>7 DEF Whole, B

-----------------------------------------------------------------------------
(* The steps that move lines. *)

\* log puts its line behind all others.
LEMMA AppendKeeps ==
    ASSUME LogInv, NEW l \in Loggers, AppendLine(l), TypeOK'
    PROVE  LogIntegrity'
<1> USE DEF LogInv, LineInv
<1> DEFINE x == [by |-> l, no |-> count[l], day |-> today]
<1>1. x \in Lines /\ x.by = l /\ x.no = count[l]
  BY DEF AppendLine, TypeOK, Numbered, Lines
<1>2. /\ waiting' = Append(waiting, x) /\ accepted' = Append(accepted, x)
      /\ pc[l] = "append" /\ lost' = lost /\ writing' = writing /\ files' = files
  BY DEF AppendLine
<1> HIDE DEF x
<1>3. x \notin lost
  <2>1. ASSUME NEW a \in 1 .. Len(accepted), accepted[a] = x PROVE FALSE
    <3>1. count[l] < count[l] /\ count[l] \in Nat
      BY <1>1, <1>2, <2>1 DEF Numbered, TypeOK
    <3> QED BY <3>1
  <2> QED BY <2>1 DEF LostOnly
<1>4. Library \in [Pages -> Seq(Lines)] /\ Whole(Library, accepted, lost) /\ accepted \in Seq(Lines)
  BY LibraryFacts, WholeLog DEF TypeOK
<1>5. Library'[Waiting] = Append(Library[Waiting], x) /\ \A p \in Pages : p # Waiting => Library'[p] = Library[p]
  BY <1>2, LibraryFacts DEF Pages
<1>6. Whole(Library', Append(accepted, x), lost)
  BY <1>1, <1>3, <1>4, <1>5, Added
<1> QED BY <1>2, <1>6, WholeLog

\* Swapping the lists moves the waiting lines behind the files, in order.
LEMMA RunKeeps ==
    ASSUME LogInv, Run
    PROVE  LogIntegrity'
<1> DEFINE op == [z \in Pages \X Nat |-> IF z[1] = Writing THEN Waiting ELSE z[1]]
           oi == [z \in Pages \X Nat |-> z[2]]
<1>1. /\ writing' = waiting /\ waiting' = <<>> /\ writing = <<>>
      /\ files' = files /\ accepted' = accepted /\ lost' = lost
  BY DEF Run, LogInv, FileInv, Idle
<1>2. Library \in [Pages -> Seq(Lines)] /\ Whole(Library, accepted, lost)
  BY LibraryFacts, WholeLog DEF LogInv, LineInv
<1>3. /\ Library'[Writing] = Library[Waiting] /\ Library'[Waiting] = <<>> /\ Library[Writing] = <<>>
      /\ \A f \in Names : Library'[f] = Library[f]
  BY <1>1, LibraryFacts
<1>4. ASSUME NEW p \in Pages, NEW i \in 1 .. Len(Library'[p])
      PROVE  /\ p # Waiting /\ (p = Writing \/ p \in Names) /\ i \in Nat
             /\ op[<<p, i>>] = (IF p = Writing THEN Waiting ELSE p) /\ oi[<<p, i>>] = i
             /\ op[<<p, i>>] \in Pages /\ i \in 1 .. Len(Library[op[<<p, i>>]])
             /\ Library[op[<<p, i>>]][i] = Library'[p][i]
  <2>1. p # Waiting
    BY <1>3
  <2>2. p = Writing \/ p \in Names
    BY <2>1 DEF Pages
  <2>3. i \in Nat /\ op[<<p, i>>] = (IF p = Writing THEN Waiting ELSE p) /\ oi[<<p, i>>] = i
    <3>1. i \in Nat
      OBVIOUS
    <3> QED BY <3>1
  <2> HIDE DEF op, oi
  <2>4. CASE p = Writing
    BY <1>3, <2>1, <2>2, <2>3, <2>4, NameFacts
  <2>5. CASE p \in Names
    <3>1. p # Writing /\ op[<<p, i>>] = p /\ Library'[p] = Library[p]
      BY <1>3, <2>3, <2>5, NameFacts
    <3> QED BY <2>1, <2>2, <2>3, <3>1
  <2> QED BY <2>2, <2>4, <2>5
<1> HIDE DEF op, oi
<1>5. Traced(Library, Library', op, oi)
  <2>1. ASSUME NEW p \in Pages, NEW i \in 1 .. Len(Library'[p])
        PROVE  /\ op[<<p, i>>] \in Pages /\ oi[<<p, i>>] \in 1 .. Len(Library[op[<<p, i>>]])
               /\ Library[op[<<p, i>>]][oi[<<p, i>>]] = Library'[p][i]
    <3>1. /\ oi[<<p, i>>] = i /\ op[<<p, i>>] \in Pages /\ i \in 1 .. Len(Library[op[<<p, i>>]])
          /\ Library[op[<<p, i>>]][i] = Library'[p][i]
      BY <1>4
    <3> QED BY ONLY <3>1
  <2> QED BY <2>1, Zenon DEF Traced
<1>6. OrderKept(Library', op, oi)
  <2> SUFFICES ASSUME NEW p \in Pages, NEW q \in Pages,
                      NEW i \in 1 .. Len(Library'[p]), NEW j \in 1 .. Len(Library'[q]), Before(p, i, q, j)
               PROVE  Before(op[<<p, i>>], oi[<<p, i>>], op[<<q, j>>], oi[<<q, j>>])
    BY DEF OrderKept
  <2>1. /\ op[<<p, i>>] = (IF p = Writing THEN Waiting ELSE p) /\ oi[<<p, i>>] = i /\ (p = Writing \/ p \in Names)
        /\ op[<<q, j>>] = (IF q = Writing THEN Waiting ELSE q) /\ oi[<<q, j>>] = j /\ (q = Writing \/ q \in Names)
        /\ i \in Nat /\ j \in Nat
    BY <1>4
  <2>2. CASE p = Writing
    <3>1. q = Writing
      BY <2>1, <2>2, NameFacts DEF Before
    <3>2. i < j
      BY <2>1, <2>2, <3>1, NameFacts DEF Before
    <3> QED BY <2>1, <2>2, <3>1, <3>2 DEF Before
  <2>3. CASE p \in Names /\ q = Writing
    BY <2>1, <2>3, NameFacts DEF Before
  <2>4. CASE p \in Names /\ q \in Names
    BY <2>1, <2>4, NameFacts
  <2> QED BY <2>1, <2>2, <2>3, <2>4
<1>7. LossKnown(Library, Library', lost)
  <2>1. ASSUME NEW p \in Pages, NEW i \in 1 .. Len(Library'[p]) PROVE Library'[p][i] \notin lost
    <3>1. op[<<p, i>>] \in Pages /\ i \in 1 .. Len(Library[op[<<p, i>>]]) /\ Library[op[<<p, i>>]][i] = Library'[p][i]
      BY <1>4
    <3> QED BY <1>2, <3>1 DEF Whole, AllSound
  <2>2. ASSUME NEW p \in Pages, NEW i \in 1 .. Len(Library[p])
        PROVE  \E q \in Pages : \E j \in 1 .. Len(Library'[q]) : Library'[q][j] = Library[p][i]
    <3>1. p # Writing
      BY <1>3
    <3>2. CASE p = Waiting
      BY <1>3, <3>2, NameFacts
    <3>3. CASE p \in Names
      BY <1>3, <3>3
    <3> QED BY <3>1, <3>2, <3>3 DEF Pages
  <2> QED BY <2>1, <2>2 DEF LossKnown
<1>8. Whole(Library', accepted, lost)
  BY <1>2, <1>5, <1>6, <1>7, Moved
<1> QED BY <1>1, <1>8, WholeLog

\* The first n lines of the list go to the file that run chose, the others are
\* lost, and with the process also those that wait.
LEMMA StoreKeeps ==
    ASSUME LogInv, TypeOK', NEW n \in 0 .. Len(writing), n > 0 => runpc = "write",
           files' = IF n = 0 THEN files ELSE [files EXCEPT ![lastFile] = @ \o SubSeq(writing, 1, n)],
           writing' = <<>>, accepted' = accepted, NEW W,
           lost' = (lost \cup {writing[i] : i \in n + 1 .. Len(writing)}) \cup W,
           \/ waiting' = waiting /\ W = {}
           \/ waiting' = <<>> /\ W = Range(waiting)
    PROVE  LogIntegrity'
<1> DEFINE F == lastFile
           len == Len(files[F])
           moved(z) == n > 0 /\ z[1] = F /\ z[2] > len
           op == [z \in Pages \X Nat |-> IF moved(z) THEN Writing ELSE z[1]]
           oi == [z \in Pages \X Nat |-> IF moved(z) THEN z[2] - len ELSE z[2]]
<1>0. LineInv /\ FileInv /\ LogIntegrity /\ TypeOK
  BY DEF LogInv, LineInv
<1>1. /\ Library \in [Pages -> Seq(Lines)] /\ Library' \in [Pages -> Seq(Lines)] /\ Whole(Library, accepted, lost)
      /\ n \in Nat /\ Len(writing) \in Nat /\ n <= Len(writing)
  <2>1. writing \in Seq(Lines) /\ n \in 0 .. Len(writing)
    BY <1>0 DEF TypeOK
  <2>2. n \in Nat /\ Len(writing) \in Nat /\ n <= Len(writing)
    BY ONLY <2>1
  <2> QED BY <1>0, <2>2, LibraryFacts, WholeLog
<1>2. n > 0 => /\ F \in Names
               /\ \A f \in Names : files[f] # <<>> => f[1] < F[1] \/ (f[1] = F[1] /\ f[2] <= F[2])
  BY <1>0, ChosenName DEF Chosen, FileInv
<1>3. /\ Library[Writing] = writing /\ Library'[Writing] = <<>>
      /\ Library[Waiting] = waiting /\ Library'[Waiting] = waiting'
  BY LibraryFacts
<1>4. ASSUME NEW f \in Names
      PROVE  /\ Library[f] = files[f] /\ Len(Library[f]) \in Nat
             /\ \A i \in 1 .. Len(Library[f]) : Library'[f][i] = Library[f][i]
             /\ n = 0 \/ f # F => Library'[f] = Library[f]
             /\ n > 0 /\ f = F =>
                   /\ Len(Library'[f]) = Len(Library[f]) + n
                   /\ \A i \in 1 .. n : Library'[f][Len(Library[f]) + i] = writing[i]
  <2>1. Library[f] = files[f] /\ Library'[f] = files'[f]
    BY LibraryFacts
  <2>2. /\ Len(files[f]) \in Nat
        /\ \A i \in 1 .. Len(files[f]) : files'[f][i] = files[f][i]
        /\ n = 0 \/ f # lastFile => files'[f] = files[f]
        /\ n > 0 /\ f = lastFile =>
              /\ Len(files'[f]) = Len(files[f]) + n
              /\ \A i \in 1 .. n : files'[f][Len(files[f]) + i] = writing[i]
    BY <1>0, <1>2, Stored
  <2> QED BY ONLY <2>1, <2>2
<1>5. n > 0 => len \in Nat /\ Len(Library[F]) = len
  BY <1>2, <1>4
<1>6. ASSUME NEW p \in Pages, NEW i \in 1 .. Len(Library'[p])
      PROVE  /\ i \in Nat /\ p # Writing
             /\ \/ /\ op[<<p, i>>] = p /\ oi[<<p, i>>] = i
                   /\ i \in 1 .. Len(Library[p]) /\ Library[p][i] = Library'[p][i]
                   /\ n > 0 /\ p = F => i <= len
                   /\ p = Waiting => waiting' = waiting
                \/ /\ n > 0 /\ p = F /\ i > len
                   /\ op[<<p, i>>] = Writing /\ oi[<<p, i>>] = i - len
                   /\ i - len \in 1 .. n /\ i - len \in 1 .. Len(Library[Writing])
                   /\ Library[Writing][i - len] = Library'[p][i]
  <2>1. p # Writing
    BY <1>3
  <2>2. i \in Nat
    OBVIOUS
  <2>3. op[<<p, i>>] = (IF n > 0 /\ p = F /\ i > len THEN Writing ELSE p)
    BY <2>2
  <2>4. oi[<<p, i>>] = (IF n > 0 /\ p = F /\ i > len THEN i - len ELSE i)
    BY <2>2
  <2> HIDE DEF op, oi, F, len
  <2>5. CASE p = Waiting
    <3>1. ~(n > 0 /\ p = F)
      BY <1>2, <2>5, NameFacts
    <3>2. waiting' = waiting
      BY <1>3, <2>5
    <3> QED BY <1>3, <2>1, <2>2, <2>3, <2>4, <2>5, <3>1, <3>2
  <2>6. CASE p \in Names /\ ~(n > 0 /\ p = F)
    <3>1. Library'[p] = Library[p]
      BY <1>1, <1>4, <2>6
    <3>2. p # Waiting
      BY <2>6, NameFacts
    <3> QED BY <2>1, <2>2, <2>3, <2>4, <2>6, <3>1, <3>2
  <2>7. CASE p \in Names /\ n > 0 /\ p = F /\ i <= len
    <3>1. i \in 1 .. Len(Library[p]) /\ Library'[p][i] = Library[p][i]
      BY <1>4, <1>5, <2>2, <2>7
    <3>2. p # Waiting
      BY <2>7, NameFacts
    <3>3. ~(i > len)
      BY ONLY <1>5, <2>2, <2>7
    <3> QED BY <2>1, <2>2, <2>3, <2>4, <2>7, <3>1, <3>2, <3>3
  <2>8. CASE p \in Names /\ n > 0 /\ p = F /\ i > len
    <3>1. /\ Len(Library'[p]) = len + n
          /\ \A k \in 1 .. n : Library'[p][len + k] = writing[k]
      <4>1. n > 0 /\ p = F /\ p \in Names
        BY <2>8
      <4>2. Len(Library[p]) = len
        BY ONLY <1>5, <4>1
      <4>3. /\ Len(Library'[p]) = Len(Library[p]) + n
            /\ \A k \in 1 .. n : Library'[p][Len(Library[p]) + k] = writing[k]
        BY ONLY <1>4, <4>1
      <4> QED BY ONLY <4>2, <4>3
    <3>2. i - len \in 1 .. n /\ i = len + (i - len) /\ i - len \in 1 .. Len(writing)
      BY <1>1, <1>5, <2>2, <2>8, <3>1
    <3>3. Library'[p][i] = writing[i - len]
      BY <3>1, <3>2
    <3> QED BY ONLY <1>3, <2>1, <2>2, <2>3, <2>4, <2>8, <3>2, <3>3
  <2>9. p = Waiting \/ p \in Names
    BY <2>1 DEF Pages
  <2>10. i <= len \/ i > len \/ ~(n > 0)
    BY <1>5, <2>2
  <2> QED BY <2>5, <2>6, <2>7, <2>8, <2>9, <2>10
<1> HIDE DEF op, oi, F, len
<1>7. Traced(Library, Library', op, oi)
  <2>1. ASSUME NEW p \in Pages, NEW i \in 1 .. Len(Library'[p])
        PROVE  /\ op[<<p, i>>] \in Pages /\ oi[<<p, i>>] \in 1 .. Len(Library[op[<<p, i>>]])
               /\ Library[op[<<p, i>>]][oi[<<p, i>>]] = Library'[p][i]
    <3>1. CASE /\ op[<<p, i>>] = p /\ oi[<<p, i>>] = i
               /\ i \in 1 .. Len(Library[p]) /\ Library[p][i] = Library'[p][i]
      BY ONLY <3>1, p \in Pages
    <3>2. CASE /\ op[<<p, i>>] = Writing /\ oi[<<p, i>>] = i - len
               /\ i - len \in 1 .. Len(Library[Writing])
               /\ Library[Writing][i - len] = Library'[p][i]
      BY ONLY <3>2, NameFacts
    <3> QED BY <1>6, <3>1, <3>2
  <2> QED BY <2>1, Zenon DEF Traced
<1>8. OrderKept(Library', op, oi)
  <2> SUFFICES ASSUME NEW p \in Pages, NEW q \in Pages,
                      NEW i \in 1 .. Len(Library'[p]), NEW j \in 1 .. Len(Library'[q]), Before(p, i, q, j)
               PROVE  Before(op[<<p, i>>], oi[<<p, i>>], op[<<q, j>>], oi[<<q, j>>])
    BY DEF OrderKept
  <2> DEFINE stays(r, k) == /\ op[<<r, k>>] = r /\ oi[<<r, k>>] = k /\ k \in 1 .. Len(Library[r])
                            /\ n > 0 /\ r = F => k <= len
             goes(r, k) == /\ n > 0 /\ r = F /\ k > len
                           /\ op[<<r, k>>] = Writing /\ oi[<<r, k>>] = k - len
  <2>1. /\ i \in Nat /\ j \in Nat /\ p # Writing /\ q # Writing
        /\ stays(p, i) \/ goes(p, i)
        /\ stays(q, j) \/ goes(q, j)
    BY <1>6
  <2>2. CASE stays(p, i) /\ stays(q, j)
    BY ONLY <2>2, Before(p, i, q, j)
  <2>3. CASE stays(p, i) /\ goes(q, j)
    <3>1. q = F /\ F \in Names /\ (p = Waiting \/ p \in Names)
      BY <1>2, <2>1, <2>3 DEF Pages
    <3>2. p # Waiting
      BY <3>1, NameFacts DEF Before
    <3>3. p[1] < Writing[1]
      BY <3>1, <3>2, NameFacts
    <3> QED BY ONLY <2>3, <3>3 DEF Before
  <2>4. CASE goes(p, i) /\ stays(q, j)
    <3>1. p = F /\ F \in Names /\ n > 0
      BY <1>2, <2>4
    <3>2. CASE q = Waiting
      BY <2>4, <3>2, NameFacts DEF Before
    <3>3. CASE q \in Names
      <4>1. files[q] # <<>>
        <5>1. Library[q] = files[q] /\ j \in 1 .. Len(Library[q])
          BY <1>4, <2>4, <3>3
        <5> QED BY ONLY <5>1
      <4>2. q[1] < F[1] \/ (q[1] = F[1] /\ q[2] <= F[2])
        BY <1>2, <3>1, <3>3, <4>1
      <4>3. p = q /\ i < j
        <5>1. F[1] \in Nat /\ F[2] \in Nat /\ q[1] \in Nat /\ q[2] \in Nat
          BY <3>1, <3>3, NameFacts
        <5> QED BY <3>1, <4>2, <5>1 DEF Before
      <4>4. i > len /\ j <= len /\ len \in Nat
        BY <1>5, <2>4, <3>1, <4>3
      <4> QED BY <2>1, <4>3, <4>4
    <3> QED BY <2>1, <3>2, <3>3 DEF Pages
  <2>5. CASE goes(p, i) /\ goes(q, j)
    <3>1. F \in Names /\ len \in Nat
      BY <1>2, <1>5, <2>5
    <3>2. i < j
      <4>1. F[1] \in Nat /\ F[2] \in Nat
        BY <3>1, NameFacts
      <4> QED BY <2>5, <4>1 DEF Before
    <3> QED BY <2>1, <2>5, <3>1, <3>2 DEF Before
  <2> QED BY <2>1, <2>2, <2>3, <2>4, <2>5
<1>9. LossKnown(Library, Library', lost')
  <2>1. ASSUME NEW p \in Pages, NEW i \in 1 .. Len(Library'[p]) PROVE Library'[p][i] \notin lost'
    <3>1. PICK r \in Pages : \E k \in 1 .. Len(Library[r]) :
            /\ Library[r][k] = Library'[p][i] /\ (r = Writing => k <= n) /\ (r = Waiting => waiting' = waiting)
      <4>1. CASE /\ i \in 1 .. Len(Library[p]) /\ Library[p][i] = Library'[p][i] /\ p # Writing
                 /\ p = Waiting => waiting' = waiting
        BY <4>1
      <4>2. CASE /\ i - len \in 1 .. n /\ i - len \in 1 .. Len(Library[Writing])
                 /\ Library[Writing][i - len] = Library'[p][i]
        <5>1. i - len <= n /\ Writing \in Pages /\ Writing # Waiting
          BY <1>1, <4>2, NameFacts
        <5> QED BY ONLY <4>2, <5>1
      <4> QED BY <1>6, <4>1, <4>2
    <3>2. PICK k \in 1 .. Len(Library[r]) :
            /\ Library[r][k] = Library'[p][i] /\ (r = Writing => k <= n) /\ (r = Waiting => waiting' = waiting)
      BY <3>1
    <3>3. Library[r][k] \notin lost
      BY <1>1 DEF Whole, AllSound
    <3>4. Library[r] = Page(r) /\ Page(Writing) = writing /\ Page(Waiting) = waiting
      BY LibraryFacts, PageFacts
    <3>5. ASSUME NEW m \in n + 1 .. Len(writing) PROVE Library[r][k] # writing[m]
      <4>1. Writing \in Pages /\ m \in 1 .. Len(writing) /\ (r # Writing \/ k # m)
        <5>1. m \in Nat /\ m >= n + 1 /\ m <= Len(writing)
          BY ONLY <1>1, <3>5
        <5> QED BY ONLY <1>1, <3>2, <5>1, PageNumbers
      <4>2. k \in 1 .. Len(Page(r)) /\ m \in 1 .. Len(Page(Writing))
        BY <3>4, <4>1
      <4>3. Page(r)[k] # Page(Writing)[m]
        BY <1>0, <4>1, <4>2, Apart
      <4> QED BY <3>4, <4>3
    <3>6. Library[r][k] \notin W
      <4>1. CASE W = {}
        BY <4>1
      <4>2. CASE waiting' = <<>> /\ W = Range(waiting)
        <5>1. SUFFICES ASSUME Library[r][k] \in Range(waiting) PROVE FALSE
          BY <4>2
        <5>2. PICK m \in 1 .. Len(waiting) : waiting[m] = Library[r][k]
          <6>1. waiting \in Seq(Lines)
            BY <1>0 DEF TypeOK
          <6> QED BY ONLY <5>1, <6>1, RangeFacts
        <5>3. CASE r = Waiting
          <6>1. waiting = <<>>
            BY <3>2, <4>2, <5>3
          <6> QED BY <5>2, <6>1
        <5>4. CASE r # Waiting
          <6>1. Waiting \in Pages /\ k \in 1 .. Len(Page(r)) /\ m \in 1 .. Len(Page(Waiting))
            BY <3>4, NameFacts
          <6>2. Page(r)[k] # Page(Waiting)[m]
            BY <1>0, <5>4, <6>1, Apart
          <6> QED BY <3>4, <5>2, <6>2
        <5> QED BY <5>3, <5>4
      <4> QED BY <4>1, <4>2
    <3> QED BY <3>2, <3>3, <3>5, <3>6
  <2>2. ASSUME NEW p \in Pages, NEW i \in 1 .. Len(Library[p]), Library[p][i] \notin lost'
        PROVE  \E q \in Pages : \E j \in 1 .. Len(Library'[q]) : Library'[q][j] = Library[p][i]
    <3>1. CASE p = Waiting
      <4>1. waiting[i] \notin W /\ i \in 1 .. Len(waiting)
        BY <1>3, <2>2, <3>1
      <4>2. waiting[i] \in Range(waiting)
        BY <1>0, <4>1, RangeFacts DEF TypeOK
      <4>3. Library'[Waiting] = waiting
        BY <1>3, <4>1, <4>2
      <4> QED BY <1>3, <3>1, <4>1, <4>3, NameFacts
    <3>2. CASE p = Writing
      <4>1. i \in 1 .. Len(writing) /\ writing[i] \notin {writing[m] : m \in n + 1 .. Len(writing)}
        BY <1>3, <2>2, <3>2
      <4>2. i \in 1 .. n /\ n > 0
        BY <1>1, <4>1
      <4>3. /\ F \in Names /\ F \in Pages /\ Len(Library'[F]) = len + n /\ len \in Nat
            /\ Library'[F][len + i] = writing[i]
        <5>1. F \in Names /\ F \in Pages
          BY <1>2, <4>2, NameFacts
        <5> QED BY ONLY <1>4, <1>5, <4>2, <5>1
      <4>4. len + i \in 1 .. Len(Library'[F])
        BY <1>1, <4>2, <4>3
      <4> QED BY <1>3, <3>2, <4>3, <4>4
    <3>3. CASE p \in Names
      <4>1. i \in 1 .. Len(Library'[p]) /\ Library'[p][i] = Library[p][i]
        <5>1. Len(Library'[p]) >= Len(Library[p]) /\ Len(Library[p]) \in Nat /\ Len(Library'[p]) \in Nat
          BY <1>1, <1>4, <3>3
        <5>2. Library'[p][i] = Library[p][i]
          BY <1>4, <3>3
        <5> QED BY <5>1, <5>2
      <4> QED BY <4>1
    <3> QED BY <3>1, <3>2, <3>3 DEF Pages
  <2> QED BY <2>1, <2>2 DEF LossKnown
<1>10. Whole(Library', accepted, lost')
  BY <1>1, <1>7, <1>8, <1>9, Moved
<1> QED BY <1>10, WholeLog

\* Every step keeps the log complete, sound and in order.
LEMMA IntegrityStep ==
    ASSUME LogInv, [Next]_vars
    PROVE  LogIntegrity'
<1> USE DEF listVars, fileVars, loggerVars, boundVars
<1>0. TypeOK' /\ LogIntegrity /\ writing \in Seq(Lines)
  BY TypeStep DEF LogInv, LineInv, TypeOK
<1>1. CASE UNCHANGED <<waiting, writing, files, accepted, lost>>
  BY <1>0, <1>1 DEF LogIntegrity, Complete, Sound, InOrder, Page
<1>2. CASE (\E l \in Loggers : Log(l)) \/ CheckLogFile \/ Midnight \/ UNCHANGED vars
  BY <1>1, <1>2 DEF Log, CheckLogFile, Midnight, vars
<1>3. CASE \E l \in Loggers : AppendLine(l)
  BY <1>0, <1>3, AppendKeeps
<1>4. CASE Run
  BY <1>4, RunKeeps
<1>5. CASE WriteLines
  <2>1. PICK n \in 0 .. Len(writing) : Store(n)
    <3>1. Len(writing) \in Nat
      BY <1>0
    <3> QED BY <1>5, <3>1 DEF WriteLines
  <2>2. /\ files' = IF n = 0 THEN files ELSE [files EXCEPT ![lastFile] = @ \o SubSeq(writing, 1, n)]
        /\ lost' = (lost \cup {writing[i] : i \in n + 1 .. Len(writing)}) \cup {}
    BY <2>1 DEF Store
  <2>3. runpc = "write" /\ writing' = <<>> /\ waiting' = waiting /\ accepted' = accepted
    BY <1>5 DEF WriteLines, EndRun
  <2> QED BY <1>0, <2>2, <2>3, StoreKeeps
<1>6. CASE Restart
  <2>1. PICK n \in 0 .. IF runpc = "write" /\ stream = "good" THEN Len(writing) ELSE 0 :
          /\ files' = IF n = 0 THEN files ELSE [files EXCEPT ![lastFile] = @ \o SubSeq(writing, 1, n)]
          /\ lost' = lost \cup {writing[i] : i \in n + 1 .. Len(writing)} \cup Range(waiting)
    BY <1>6 DEF Restart
  <2>2. n \in 0 .. Len(writing) /\ (n > 0 => runpc = "write")
    BY <1>0
  <2>3. writing' = <<>> /\ waiting' = <<>> /\ accepted' = accepted
    BY <1>6 DEF Restart
  <2> QED BY <1>0, <2>1, <2>2, <2>3, StoreKeeps
<1> QED BY <1>2, <1>3, <1>4, <1>5, <1>6 DEF Next, LogThread

-----------------------------------------------------------------------------
(* The theorems. *)

\* Empty lists and files satisfy the invariant.
LEMMA Initially == Init => LogInv
<1> SUFFICES ASSUME Init PROVE LogInv
  OBVIOUS
<1> USE DEF Init
<1>1. TypeOK
  BY IndexFacts DEF TypeOK, Days, NoFile
<1>2. Len(accepted) = 0 /\ Len(waiting) = 0 /\ Len(writing) = 0 /\ lost = {}
  OBVIOUS
<1>3. Numbered /\ Distinct /\ LostOnly
  BY <1>2 DEF Numbered, Distinct, LostOnly
<1>4. \A f \in Names : files[f] = <<>> /\ Len(files[f]) = 0
  OBVIOUS
<1>5. \A p \in Pages : Page(p) = <<>> /\ Len(Page(p)) = 0
  BY <1>4, PageFacts DEF Pages
<1>6. LogIntegrity
  BY <1>2, <1>5 DEF LogIntegrity, Complete, Sound, InOrder
<1>7. Idle /\ Used /\ Filled /\ Split /\ Chosen /\ Dated
  <2>1. Idle /\ Filled /\ Chosen
    BY DEF Idle, Filled, Chosen
  <2>2. Used
    BY <1>4 DEF Used
  <2>3. Split
    <3>1. \A d \in Days : \A j \in Indices : files[<<d, j>>] = <<>>
      BY <1>4, NameFacts
    <3> QED BY <3>1 DEF Split
  <2>4. Dated
    BY <1>2, <1>4 DEF Dated
  <2> QED BY <2>1, <2>2, <2>3, <2>4
<1> QED BY <1>1, <1>3, <1>6, <1>7 DEF LogInv, LineInv, FileInv

\* The inductive invariant: what log, run, midnight, failing files and restarts
\* keep of the lists, the chosen file and the files.
THEOREM Invariance == Spec => []LogInv
<1>1. Init => LogInv
  BY Initially
<1>2. LogInv /\ [Next]_vars => LogInv'
  <2> SUFFICES ASSUME LogInv, [Next]_vars PROVE LogInv'
    OBVIOUS
  <2>1. TypeOK' /\ Numbered' /\ Distinct' /\ LostOnly' /\ FileInv' /\ LogIntegrity'
    BY TypeStep, NumberStep, FileStep, IntegrityStep
  <2> QED BY <2>1 DEF LogInv, LineInv
<1> QED BY <1>1, <1>2, PTL DEF Spec

\* The variables of the logger have their types; in particular checkLogFile always
\* finds a file with room, whatever _last_time held at the start.
THEOREM TypeCorrect == Spec => []TypeOK
<1>1. LogInv => TypeOK
  BY DEF LogInv, LineInv
<1> QED BY <1>1, Invariance, PTL

\* run, log and the files: every accepted line is in the files or the lists, once
\* and in order, unless an error or the end of the process has lost it.
THEOREM IntegrityCorrect == Spec => []LogIntegrity
<1>1. LogInv => LogIntegrity
  BY DEF LogInv
<1> QED BY <1>1, Invariance, PTL

\* checkLogFile: a split file is begun only when the one before it is full, and
\* the file of a day holds no line of a later day.
THEOREM LayoutCorrect == Spec => []FileLayout
<1>1. LogInv => FileLayout
  BY DEF LogInv, FileInv, Split, Dated, FileLayout
<1> QED BY <1>1, Invariance, PTL
=============================================================================
