--------------------------- MODULE NativeCallProofs ---------------------------
(* Theorems about NativeCall for a canvas of any size, any frames and any    *)
(* number of them.                                                           *)
EXTENDS NativeCall, SequenceTheorems, TLAPS

-----------------------------------------------------------------------------
(* What is held at a place: the resources acquired on the way to it, and      *)
(* those its list of releases has not come to yet.                            *)

Strings == {"input_chars", "output_chars"}

(* What a place holds for later, apart from what it still releases.           *)
Kept(p) ==
  CASE p = "open" -> Strings
    [] p \in {"measure", "allocate"} -> Strings \cup {"file"}
    [] p = "read" -> Strings \cup {"file", "data"}
    [] p \in {"check_read", "demux"} -> Strings \cup {"data"}
    [] p \in {"count", "size", "canvas"} -> Strings \cup {"data", "demux"}
    [] p = "borrow_size" -> Strings \cup {"data", "demux", "iterator"}
    [] p = "loop" -> Strings \cup {"data", "demux", "canvas"}
    [] p = "decode" -> Strings \cup {"data", "demux", "canvas", "iterator"}
    [] p \in {"bitmap", "stream"} ->
         Strings \cup {"data", "demux", "canvas", "iterator", "pixels"}
    [] p = "unlock" ->
         Strings \cup {"data", "demux", "canvas", "iterator", "pixels", "locked_bitmap"}
    [] p = "compress" ->
         Strings \cup {"data", "demux", "canvas", "iterator", "pixels", "stream"}
    [] OTHER -> {}

Listed(s) == {s[k] : k \in 1..Len(s)}

(* A list of releases: nothing twice, and the demuxer before the file's bytes.*)
Orderly(s) ==
  /\ s \in Seq(Resource)
  /\ \A j, k \in 1..Len(s) : s[j] = s[k] => j = k
  /\ \A j, k \in 1..Len(s) : s[j] = "demux" /\ s[k] = "data" => j < k

(* What is held is what the place keeps for later or is about to release, and *)
(* never both.                                                                *)
Accounted ==
  /\ pc \in Place
  /\ held \in [Resource -> 0..1]
  /\ Orderly(todo)
  /\ pc \in {"strings", "check_strings", "returned"} => todo = <<>>
  /\ Kept(pc) \cap Listed(todo) = {}
  /\ \A r \in Resource :
       IF pc = "check_strings" THEN held[r] = 1 => r \in Strings
       ELSE held[r] = 1 <=> r \in Kept(pc) \cup Listed(todo)
  /\ "demux" \in Listed(todo) => "data" \in Listed(todo)
  /\ "iterator" \in Listed(todo) => "demux" \in Kept(pc)

-----------------------------------------------------------------------------
(* Lists of releases of up to three resources, and such a list before Chars.  *)
LEMMA ShortLists ==
  /\ Orderly(<<>>) /\ Listed(<<>>) = {}
  /\ \A a \in Resource : Orderly(<<a>>) /\ Listed(<<a>>) = {a}
  /\ \A a, b \in Resource :
       a # b /\ ~(a = "data" /\ b = "demux") =>
         Orderly(<<a, b>>) /\ Listed(<<a, b>>) = {a, b}
BY DEF Orderly, Listed

LEMMA ThreeListed ==
  ASSUME NEW a \in Resource, NEW b \in Resource, NEW c \in Resource,
         a # b, b # c, a # c, b # "demux", c # "demux"
  PROVE  Orderly(<<a, b, c>>) /\ Listed(<<a, b, c>>) = {a, b, c}
BY DEF Orderly, Listed

LEMMA BeforeChars ==
  ASSUME NEW s, Orderly(s), Listed(s) \cap Listed(Chars) = {}
  PROVE  Orderly(s \o Chars) /\ Listed(s \o Chars) = Listed(s) \cup Listed(Chars)
<1>1. Orderly(Chars) /\ Listed(Chars) = {"input_chars", "output_chars"}
  BY ShortLists DEF Chars, Resource
<1> DEFINE n == Len(s)
           m == Len(Chars)
           t == s \o Chars
<1>2. s \in Seq(Resource) /\ Chars \in Seq(Resource) /\ n \in Nat /\ m \in Nat
  <2>1. s \in Seq(Resource) /\ Chars \in Seq(Resource)
    BY <1>1 DEF Orderly
  <2> QED BY <2>1, LenProperties
<1>3. /\ t \in Seq(Resource) /\ Len(t) = n + m
      /\ \A k \in 1..n + m : t[k] = IF k <= n THEN s[k] ELSE Chars[k - n]
  BY <1>2, ConcatProperties
<1>4. /\ \A k \in 1..m : Chars[k] \notin Listed(s) /\ Chars[k] \notin {"demux", "data"}
      /\ \A k \in 1..n : s[k] \in Listed(s)
  BY <1>1 DEF Listed
<1>5. /\ \A j, k \in 1..n : s[j] = s[k] => j = k
      /\ \A j, k \in 1..m : Chars[j] = Chars[k] => j = k
      /\ \A j, k \in 1..n : s[j] = "demux" /\ s[k] = "data" => j < k
  BY <1>1 DEF Orderly
<1> HIDE DEF n, m, t
<1>6. ASSUME NEW k \in 1..n + m
      PROVE  \/ k \in 1..n /\ t[k] = s[k]
             \/ k - n \in 1..m /\ t[k] = Chars[k - n] /\ k > n
  BY <1>2, <1>3
<1>7. /\ \A k \in 1..n : k \in 1..n + m /\ t[k] = s[k]
      /\ \A k \in 1..m : k + n \in 1..n + m /\ t[k + n] = Chars[k]
  BY <1>2, <1>3
<1>8. ASSUME NEW j \in 1..n + m, NEW k \in 1..n + m, t[j] = t[k]
      PROVE  j = k
  BY <1>2, <1>4, <1>5, <1>6, <1>8
<1>9. ASSUME NEW j \in 1..n + m, NEW k \in 1..n + m, t[j] = "demux", t[k] = "data"
      PROVE  j < k
  BY <1>2, <1>4, <1>5, <1>6, <1>9
<1>10. Listed(t) = Listed(s) \cup Listed(Chars)
  <2>1. Listed(t) = {t[k] : k \in 1..n + m}
    BY <1>3 DEF Listed
  <2>2. Listed(s) = {s[k] : k \in 1..n} /\ Listed(Chars) = {Chars[k] : k \in 1..m}
    BY DEF Listed, n, m
  <2> QED BY <1>6, <1>7, <2>1, <2>2
<1>11. Orderly(t)
  BY <1>3, <1>8, <1>9 DEF Orderly
<1> QED BY <1>10, <1>11 DEF t

(* Releasing the head of a list leaves a list without it.                     *)
LEMMA HeadIsReleased ==
  ASSUME NEW s, Orderly(s), s # <<>>
  PROVE  /\ Orderly(Tail(s)) /\ Head(s) \in Listed(s) /\ Listed(s) \subseteq Resource
         /\ Listed(Tail(s)) = Listed(s) \ {Head(s)}
         /\ "demux" \in Listed(Tail(s)) => Head(s) # "data"
<1>1. /\ s \in Seq(Resource) /\ Len(s) \in Nat \ {0} /\ Head(s) = s[1]
      /\ Tail(s) \in Seq(Resource) /\ Len(Tail(s)) = Len(s) - 1
      /\ \A k \in 1..Len(s) - 1 : Tail(s)[k] = s[k + 1] /\ k + 1 \in 1..Len(s)
      /\ \A k \in 1..Len(s) : k # 1 => k - 1 \in 1..Len(s) - 1 /\ Tail(s)[k - 1] = s[k]
  BY HeadTailProperties DEF Orderly
<1>2. Listed(Tail(s)) = Listed(s) \ {Head(s)}
  BY <1>1 DEF Listed, Orderly
<1>3. Orderly(Tail(s))
  BY <1>1 DEF Orderly
<1>4. "demux" \in Listed(Tail(s)) => Head(s) # "data"
  BY <1>1 DEF Listed, Orderly
<1>5. Head(s) \in Listed(s) /\ Listed(s) \subseteq Resource
  BY <1>1 DEF Listed
<1> QED BY <1>2, <1>3, <1>4, <1>5

-----------------------------------------------------------------------------
(* A resource that is acquired or released is held once or not at all.        *)
LEMMA CountUp ==
  ASSUME held \in [Resource -> 0..1], NEW r \in Resource, held[r] # 1,
         held' = [held EXCEPT ![r] = @ + 1]
  PROVE  /\ held' \in [Resource -> 0..1]
         /\ \A s \in Resource : held'[s] = IF s = r THEN 1 ELSE held[s]
<1>1. held[r] = 0
  OBVIOUS
<1> QED BY <1>1

LEMMA CountDown ==
  ASSUME held \in [Resource -> 0..1], NEW r \in Resource, held[r] = 1,
         held' = [held EXCEPT ![r] = @ - 1]
  PROVE  /\ held' \in [Resource -> 0..1]
         /\ \A s \in Resource : held'[s] = IF s = r THEN 0 ELSE held[s]
OBVIOUS

(* The three kinds of steps.                                                  *)
LEMMA ReleaseStep == Accounted /\ Release => Accounted'
<1> SUFFICES ASSUME Accounted, Release PROVE Accounted'
  OBVIOUS
<1> DEFINE h == Head(todo)
<1>1. /\ Orderly(todo) /\ todo # <<>> /\ todo' = Tail(todo) /\ pc' = pc
      /\ held \in [Resource -> 0..1] /\ held' = [held EXCEPT ![h] = @ - 1]
      /\ pc \in Place \ {"strings", "check_strings", "returned"}
  BY DEF Accounted, Release
<1>2. /\ Orderly(todo') /\ h \in Listed(todo) /\ Listed(todo) \subseteq Resource
      /\ Listed(todo') = Listed(todo) \ {h}
      /\ "demux" \in Listed(todo') => h # "data"
  BY <1>1, HeadIsReleased
<1> HIDE DEF h
<1>3. held[h] = 1
  BY <1>1, <1>2 DEF Accounted
<1>4. /\ held' \in [Resource -> 0..1]
      /\ held'[h] = 0
      /\ \A r \in Resource : r # h => held'[r] = held[r]
  <2>1. h \in Resource /\ held \in [Resource -> 0..1] /\ held[h] = 1
    BY <1>1, <1>2, <1>3
  <2>2. /\ held' \in [Resource -> 0..1]
        /\ \A s \in Resource : held'[s] = IF s = h THEN 0 ELSE held[s]
    BY <1>1, <2>1, CountDown
  <2> QED BY <2>1, <2>2
<1>5. Kept(pc) \cap Listed(todo) = {}
  BY DEF Accounted
<1>6. \A r \in Resource : held[r] = 1 <=> r \in Kept(pc) \cup Listed(todo)
  BY <1>1 DEF Accounted
<1>7. \A r \in Resource : held'[r] = 1 <=> r \in Kept(pc) \cup Listed(todo')
  BY <1>2, <1>4, <1>5, <1>6
<1> QED BY <1>1, <1>2, <1>4, <1>5, <1>7 DEF Accounted

LEMMA AcquireStep ==
  ASSUME Accounted, NEW p \in Place, NEW q \in Place, NEW r \in Resource,
         Ready(p), Acquire(r, q),
         p # "check_strings", q \notin {"strings", "check_strings", "returned"},
         r \notin Kept(p), Kept(q) = Kept(p) \cup {r}
  PROVE  Accounted'
<1>1. /\ pc = p /\ pc' = q /\ todo = <<>> /\ todo' = <<>> /\ held \in [Resource -> 0..1]
      /\ held' = [held EXCEPT ![r] = @ + 1]
  BY DEF Accounted, Ready, Acquire
<1>2. Orderly(<<>>) /\ Listed(<<>>) = {}
  BY ShortLists
<1>3. \A s \in Resource : held[s] = 1 <=> s \in Kept(p)
  BY <1>1, <1>2 DEF Accounted
<1>4. held[r] # 1
  BY <1>1, <1>3
<1>5. held' \in [Resource -> 0..1] /\ \A s \in Resource : held'[s] = 1 <=> s \in Kept(q)
  <2>1. /\ held' \in [Resource -> 0..1]
        /\ \A s \in Resource : held'[s] = IF s = r THEN 1 ELSE held[s]
    BY <1>1, <1>4, CountUp
  <2> QED BY <1>1, <1>3, <2>1
<1> QED BY <1>1, <1>2, <1>5 DEF Accounted

LEMMA MoveStep ==
  ASSUME Accounted, NEW p \in Place, NEW q \in Place, Ready(p), pc' = q, held' = held,
         p # "check_strings", q # "check_strings",
         q \in {"strings", "returned"} => todo' = <<>>,
         Orderly(todo'), Kept(p) = Kept(q) \cup Listed(todo'),
         Kept(q) \cap Listed(todo') = {},
         "demux" \in Listed(todo') => "data" \in Listed(todo'),
         "iterator" \in Listed(todo') => "demux" \in Kept(q)
  PROVE  Accounted'
<1>1. pc = p /\ todo = <<>> /\ held \in [Resource -> 0..1]
  BY DEF Accounted, Ready
<1>2. Listed(<<>>) = {}
  BY ShortLists
<1>3. \A s \in Resource : held[s] = 1 <=> s \in Kept(p)
  BY <1>1, <1>2 DEF Accounted
<1> QED BY <1>1, <1>3 DEF Accounted

-----------------------------------------------------------------------------
(* What each place keeps, and what each list releases.                        *)
LEMMA KeptAre ==
  /\ Kept("strings") = {} /\ Kept("array") = {} /\ Kept("releasing") = {}
  /\ Kept("returned") = {} /\ Kept("check_strings") = {}
  /\ Kept("open") = Strings
  /\ Kept("measure") = Strings \cup {"file"} /\ Kept("allocate") = Strings \cup {"file"}
  /\ Kept("read") = Strings \cup {"file", "data"}
  /\ Kept("check_read") = Strings \cup {"data"} /\ Kept("demux") = Strings \cup {"data"}
  /\ Kept("count") = Strings \cup {"data", "demux"}
  /\ Kept("size") = Strings \cup {"data", "demux"}
  /\ Kept("canvas") = Strings \cup {"data", "demux"}
  /\ Kept("borrow_size") = Strings \cup {"data", "demux", "iterator"}
  /\ Kept("loop") = Strings \cup {"data", "demux", "canvas"}
  /\ Kept("decode") = Strings \cup {"data", "demux", "canvas", "iterator"}
  /\ Kept("bitmap") = Strings \cup {"data", "demux", "canvas", "iterator", "pixels"}
  /\ Kept("stream") = Strings \cup {"data", "demux", "canvas", "iterator", "pixels"}
  /\ Kept("unlock") =
       Strings \cup {"data", "demux", "canvas", "iterator", "pixels", "locked_bitmap"}
  /\ Kept("compress") =
       Strings \cup {"data", "demux", "canvas", "iterator", "pixels", "stream"}
BY DEF Kept

LEMMA ListsAre ==
  /\ Orderly(<<>>) /\ Listed(<<>>) = {}
  /\ Orderly(Chars) /\ Listed(Chars) = Strings
  /\ Orderly(<<"input_chars">>) /\ Listed(<<"input_chars">>) = {"input_chars"}
  /\ Orderly(<<"output_chars">>) /\ Listed(<<"output_chars">>) = {"output_chars"}
  /\ Orderly(<<"file">>) /\ Listed(<<"file">>) = {"file"}
  /\ Orderly(<<"iterator">>) /\ Listed(<<"iterator">>) = {"iterator"}
  /\ Orderly(<<"locked_bitmap">>) /\ Listed(<<"locked_bitmap">>) = {"locked_bitmap"}
  /\ Orderly(<<"pixels", "iterator">>)
  /\ Listed(<<"pixels", "iterator">>) = {"pixels", "iterator"}
  /\ Orderly(<<"stream", "pixels", "iterator">>)
  /\ Listed(<<"stream", "pixels", "iterator">>) = {"stream", "pixels", "iterator"}
  /\ Orderly(<<"file">> \o Chars) /\ Listed(<<"file">> \o Chars) = {"file"} \cup Strings
  /\ Orderly(<<"data">> \o Chars) /\ Listed(<<"data">> \o Chars) = {"data"} \cup Strings
  /\ Orderly(<<"demux", "data">> \o Chars)
  /\ Listed(<<"demux", "data">> \o Chars) = {"demux", "data"} \cup Strings
  /\ Orderly(<<"demux", "data", "canvas">> \o Chars)
  /\ Listed(<<"demux", "data", "canvas">> \o Chars) = {"demux", "data", "canvas"} \cup Strings
<1>1. {"input_chars", "output_chars", "file", "iterator", "locked_bitmap", "pixels",
       "stream", "data", "demux", "canvas"} \subseteq Resource
  BY DEF Resource
<1>2. /\ Orderly(<<"file">>) /\ Listed(<<"file">>) = {"file"}
      /\ Orderly(<<"data">>) /\ Listed(<<"data">>) = {"data"}
      /\ Orderly(<<"demux", "data">>) /\ Listed(<<"demux", "data">>) = {"demux", "data"}
      /\ Orderly(<<"demux", "data", "canvas">>)
      /\ Listed(<<"demux", "data", "canvas">>) = {"demux", "data", "canvas"}
  <2>1. Orderly(<<"file">>) /\ Listed(<<"file">>) = {"file"}
    BY <1>1, ShortLists
  <2>2. Orderly(<<"data">>) /\ Listed(<<"data">>) = {"data"}
    BY <1>1, ShortLists
  <2>3. Orderly(<<"demux", "data">>) /\ Listed(<<"demux", "data">>) = {"demux", "data"}
    BY <1>1, ShortLists
  <2>4. /\ Orderly(<<"demux", "data", "canvas">>)
        /\ Listed(<<"demux", "data", "canvas">>) = {"demux", "data", "canvas"}
    BY <1>1, ThreeListed
  <2> QED BY <2>1, <2>2, <2>3, <2>4
<1>3. Orderly(Chars) /\ Listed(Chars) = Strings
  BY <1>1, ShortLists DEF Chars, Strings
<1>4. /\ {"file"} \cap Strings = {} /\ {"data"} \cap Strings = {}
      /\ {"demux", "data"} \cap Strings = {} /\ {"demux", "data", "canvas"} \cap Strings = {}
  BY DEF Strings
<1>5. /\ Orderly(<<"file">> \o Chars)
      /\ Listed(<<"file">> \o Chars) = {"file"} \cup Strings
  BY <1>2, <1>3, <1>4, BeforeChars
<1>6. /\ Orderly(<<"data">> \o Chars)
      /\ Listed(<<"data">> \o Chars) = {"data"} \cup Strings
  BY <1>2, <1>3, <1>4, BeforeChars
<1>7. /\ Orderly(<<"demux", "data">> \o Chars)
      /\ Listed(<<"demux", "data">> \o Chars) = {"demux", "data"} \cup Strings
  BY <1>2, <1>3, <1>4, BeforeChars
<1>8. /\ Orderly(<<"demux", "data", "canvas">> \o Chars)
      /\ Listed(<<"demux", "data", "canvas">> \o Chars)
           = {"demux", "data", "canvas"} \cup Strings
  BY <1>2, <1>3, <1>4, BeforeChars
<1>9. /\ Orderly(<<>>) /\ Listed(<<>>) = {}
      /\ Orderly(<<"input_chars">>) /\ Listed(<<"input_chars">>) = {"input_chars"}
      /\ Orderly(<<"output_chars">>) /\ Listed(<<"output_chars">>) = {"output_chars"}
      /\ Orderly(<<"iterator">>) /\ Listed(<<"iterator">>) = {"iterator"}
      /\ Orderly(<<"locked_bitmap">>) /\ Listed(<<"locked_bitmap">>) = {"locked_bitmap"}
      /\ Orderly(<<"pixels", "iterator">>)
      /\ Listed(<<"pixels", "iterator">>) = {"pixels", "iterator"}
      /\ Orderly(<<"stream", "pixels", "iterator">>)
      /\ Listed(<<"stream", "pixels", "iterator">>) = {"stream", "pixels", "iterator"}
  <2>1. Orderly(<<>>) /\ Listed(<<>>) = {}
    BY <1>1, ShortLists
  <2>2. Orderly(<<"input_chars">>) /\ Listed(<<"input_chars">>) = {"input_chars"}
    BY <1>1, ShortLists
  <2>3. Orderly(<<"output_chars">>) /\ Listed(<<"output_chars">>) = {"output_chars"}
    BY <1>1, ShortLists
  <2>4. Orderly(<<"iterator">>) /\ Listed(<<"iterator">>) = {"iterator"}
    BY <1>1, ShortLists
  <2>5. Orderly(<<"locked_bitmap">>) /\ Listed(<<"locked_bitmap">>) = {"locked_bitmap"}
    BY <1>1, ShortLists
  <2>6. /\ Orderly(<<"pixels", "iterator">>)
        /\ Listed(<<"pixels", "iterator">>) = {"pixels", "iterator"}
    BY <1>1, ShortLists
  <2>7. /\ Orderly(<<"stream", "pixels", "iterator">>)
        /\ Listed(<<"stream", "pixels", "iterator">>) = {"stream", "pixels", "iterator"}
    BY <1>1, ThreeListed
  <2> QED BY <2>1, <2>2, <2>3, <2>4, <2>5, <2>6, <2>7
<1> QED BY <1>2, <1>3, <1>5, <1>6, <1>7, <1>8, <1>9

LEMMA ProceedStep ==
  ASSUME Accounted, NEW p \in Place, NEW q \in Place, Ready(p), Proceed(q),
         p # "check_strings", q # "check_strings", Kept(p) = Kept(q)
  PROVE  Accounted'
<1>1. pc' = q /\ held' = held /\ todo' = <<>>
  BY DEF Ready, Proceed
<1>2. Orderly(todo') /\ Listed(todo') = {}
  BY <1>1, ListsAre
<1>3. /\ Kept(p) = Kept(q) \cup Listed(todo') /\ Kept(q) \cap Listed(todo') = {}
      /\ "demux" \notin Listed(todo') /\ "iterator" \notin Listed(todo')
  BY <1>2
<1> QED BY <1>1, <1>2, <1>3, MoveStep

LEMMA AbandonStep ==
  ASSUME Accounted, NEW p \in Place, NEW list, Ready(p), Abandon(list),
         p # "check_strings", Orderly(list), Kept(p) = Listed(list),
         "demux" \in Listed(list) => "data" \in Listed(list), "iterator" \notin Listed(list)
  PROVE  Accounted'
<1>1. pc' = "releasing" /\ held' = held /\ todo' = list
  BY DEF Ready, Abandon
<1>2. "releasing" \in Place
  BY DEF Place
<1>3. Kept("releasing") = {}
  BY KeptAre
<1>4. /\ Kept(p) = Kept("releasing") \cup Listed(todo')
      /\ Kept("releasing") \cap Listed(todo') = {}
  BY <1>1, <1>3
<1> QED BY <1>1, <1>2, <1>4, MoveStep

(* The names the steps below use are places and resources.                    *)
LEMMA Names ==
  /\ {"strings", "check_strings", "open", "measure", "allocate", "read", "check_read",
      "demux", "count", "size", "borrow_size", "canvas", "loop", "decode", "bitmap",
      "unlock", "stream", "compress", "array", "releasing", "returned"} \subseteq Place
  /\ {"file", "data", "demux", "canvas", "iterator", "pixels", "locked_bitmap",
      "stream"} \subseteq Resource
BY DEF Place, Resource

Moves(q, list) == pc' = q /\ held' = held /\ todo' = list

LEMMA FreeStep ==
  ASSUME Accounted, NEW p \in Place, NEW q \in Place, NEW list,
         Ready(p), Moves(q, list),
         p # "check_strings", q # "check_strings",
         q \in {"strings", "returned"} => list = <<>>,
         Orderly(list), Kept(p) = Kept(q) \cup Listed(list),
         Kept(q) \cap Listed(list) = {},
         "demux" \in Listed(list) => "data" \in Listed(list),
         "iterator" \in Listed(list) => "demux" \in Kept(q)
  PROVE  Accounted'
BY MoveStep DEF Moves

LEMMA GetStringsStep == Accounted /\ GetStrings => Accounted'
<1> SUFFICES ASSUME GetStrings PROVE Accounted'
  OBVIOUS
<1>1. PICK got \in SUBSET Strings : held' = [r \in Resource |-> IF r \in got THEN 1 ELSE 0]
  BY DEF GetStrings, Strings
<1>2. pc' = "check_strings" /\ todo' = <<>>
  BY DEF GetStrings, Ready
<1>3. held' \in [Resource -> 0..1] /\ \A r \in Resource : held'[r] = 1 => r \in Strings
  BY <1>1
<1>4. pc' \in Place /\ Kept(pc') = {} /\ Orderly(todo') /\ Listed(todo') = {}
  BY <1>2, Names, KeptAre, ListsAre
<1> QED BY <1>2, <1>3, <1>4 DEF Accounted

LEMMA AccountedNext == Accounted /\ [Next]_vars => Accounted'
<1> SUFFICES ASSUME Accounted, [Next]_vars PROVE Accounted'
  OBVIOUS
<1> USE Names, KeptAre, ListsAre
<1>1. CASE Release
  BY <1>1, ReleaseStep
<1>2. CASE Return
  BY <1>2, ProceedStep DEF Return
<1>3. CASE OpenFile
  <2>1. CASE Acquire("file", "measure")
    <3>1. "file" \notin Kept("open") /\ Kept("measure") = Kept("open") \cup {"file"}
      BY DEF Strings
    <3>2. Ready("open")
      BY <1>3 DEF OpenFile
    <3> QED BY <2>1, <3>1, <3>2, AcquireStep
  <2>2. CASE Abandon(Chars)
    BY <1>3, <2>2, AbandonStep DEF OpenFile, Strings
  <2> QED BY <1>3, <2>1, <2>2 DEF OpenFile
<1>4. CASE MeasureFile
  <2>1. CASE Proceed("allocate")
    BY <1>4, <2>1, ProceedStep DEF MeasureFile
  <2>2. CASE Abandon(<<"file">> \o Chars)
    BY <1>4, <2>2, AbandonStep DEF MeasureFile, Strings
  <2> QED BY <1>4, <2>1, <2>2 DEF MeasureFile
<1>5. CASE AllocateData
  <2>1. CASE Acquire("data", "read")
    <3>1. /\ "data" \notin Kept("allocate")
          /\ Kept("read") = Kept("allocate") \cup {"data"}
      BY DEF Strings
    <3>2. Ready("allocate")
      BY <1>5 DEF AllocateData
    <3> QED BY <2>1, <3>1, <3>2, AcquireStep
  <2>2. CASE Abandon(<<"file">> \o Chars)
    BY <1>5, <2>2, AbandonStep DEF AllocateData, Strings
  <2> QED BY <1>5, <2>1, <2>2 DEF AllocateData
<1>6. CASE CheckRead
  <2>1. CASE Proceed("demux")
    BY <1>6, <2>1, ProceedStep DEF CheckRead
  <2>2. CASE Abandon(<<"data">> \o Chars)
    BY <1>6, <2>2, AbandonStep DEF CheckRead, Strings
  <2> QED BY <1>6, <2>1, <2>2 DEF CheckRead
<1>7. CASE Demux
  <2>1. CASE Acquire("demux", "count")
    <3>1. "demux" \notin Kept("demux") /\ Kept("count") = Kept("demux") \cup {"demux"}
      BY DEF Strings
    <3>2. Ready("demux")
      BY <1>7 DEF Demux
    <3> QED BY <2>1, <3>1, <3>2, AcquireStep
  <2>2. CASE Abandon(<<"data">> \o Chars)
    BY <1>7, <2>2, AbandonStep DEF Demux, Strings
  <2> QED BY <1>7, <2>1, <2>2 DEF Demux
<1>8. CASE CountFrames
  <2>1. CASE Proceed("size")
    BY <1>8, <2>1, ProceedStep DEF CountFrames
  <2>2. CASE Abandon(<<"demux", "data">> \o Chars)
    BY <1>8, <2>2, AbandonStep DEF CountFrames, Strings
  <2> QED BY <1>8, <2>1, <2>2 DEF CountFrames
<1>9. CASE SizeCanvas
  <2>1. CASE Proceed("canvas")
    BY <1>9, <2>1, ProceedStep DEF SizeCanvas
  <2>2. CASE Acquire("iterator", "borrow_size")
    <3>1. /\ "iterator" \notin Kept("size")
          /\ Kept("borrow_size") = Kept("size") \cup {"iterator"}
      BY DEF Strings
    <3>2. Ready("size")
      BY <1>9 DEF SizeCanvas
    <3> QED BY <2>2, <3>1, <3>2, AcquireStep
  <2>3. CASE Abandon(<<"demux", "data">> \o Chars)
    BY <1>9, <2>3, AbandonStep DEF SizeCanvas, Strings
  <2> QED BY <1>9, <2>1, <2>2, <2>3 DEF SizeCanvas
<1>10. CASE AllocateCanvas
  <2>1. CASE Acquire("canvas", "loop")
    <3>1. /\ "canvas" \notin Kept("canvas")
          /\ Kept("loop") = Kept("canvas") \cup {"canvas"}
      BY DEF Strings
    <3>2. Ready("canvas")
      BY <1>10 DEF AllocateCanvas
    <3> QED BY <2>1, <3>1, <3>2, AcquireStep
  <2>2. CASE Abandon(<<"demux", "data">> \o Chars)
    BY <1>10, <2>2, AbandonStep DEF AllocateCanvas, Strings
  <2> QED BY <1>10, <2>1, <2>2 DEF AllocateCanvas
<1>11. CASE OpenStream
  <2>1. CASE Acquire("stream", "compress")
    <3>1. /\ "stream" \notin Kept("stream")
          /\ Kept("compress") = Kept("stream") \cup {"stream"}
      BY DEF Strings
    <3>2. Ready("stream")
      BY <1>11 DEF OpenStream
    <3> QED BY <2>1, <3>1, <3>2, AcquireStep
  <2> QED BY <1>11, <2>1 DEF OpenStream
<1>12. CASE ReadData
  <2>1. Ready("read") /\ Moves("check_read", <<"file">>)
    BY <1>12 DEF ReadData, Free, EndRound, Moves
  <2>2. /\ Kept("read") = Kept("check_read") \cup Listed(<<"file">>)
        /\ Kept("check_read") \cap Listed(<<"file">>) = {}
    BY DEF Strings
  <2> QED BY <2>1, <2>2, FreeStep
<1>13. CASE BorrowSize
  <2>1. Ready("borrow_size") /\ Moves("canvas", <<"iterator">>)
    BY <1>13 DEF BorrowSize, Free, EndRound, Moves
  <2>2. /\ Kept("borrow_size") = Kept("canvas") \cup Listed(<<"iterator">>)
        /\ Kept("canvas") \cap Listed(<<"iterator">>) = {}
    BY DEF Strings
  <2> QED BY <2>1, <2>2, FreeStep
<1>14. CASE UnlockBitmap
  <2>1. Ready("unlock") /\ Moves("stream", <<"locked_bitmap">>)
    BY <1>14 DEF UnlockBitmap, Free, EndRound, Moves
  <2>2. /\ Kept("unlock") = Kept("stream") \cup Listed(<<"locked_bitmap">>)
        /\ Kept("stream") \cap Listed(<<"locked_bitmap">>) = {}
    BY DEF Strings
  <2> QED BY <2>1, <2>2, FreeStep
<1>15. CASE Compress
  <2>1. Ready("compress") /\ Moves("loop", <<"stream", "pixels", "iterator">>)
    BY <1>15 DEF Compress, Free, EndRound, Moves
  <2>2. /\ Kept("compress") = Kept("loop") \cup Listed(<<"stream", "pixels", "iterator">>)
        /\ Kept("loop") \cap Listed(<<"stream", "pixels", "iterator">>) = {}
    BY DEF Strings
  <2> QED BY <2>1, <2>2, FreeStep
<1>16. CASE CleanUp
  <2>1. Ready("loop") /\ Moves("array", <<"demux", "data", "canvas">> \o Chars)
    BY <1>16 DEF CleanUp, Free, EndRound, Moves
  <2>2. /\ Kept("loop") = Kept("array") \cup Listed(<<"demux", "data", "canvas">> \o Chars)
        /\ Kept("array") \cap Listed(<<"demux", "data", "canvas">> \o Chars) = {}
    BY DEF Strings
  <2>3. "data" \in Listed(<<"demux", "data", "canvas">> \o Chars)
        /\ "iterator" \notin Listed(<<"demux", "data", "canvas">> \o Chars)
    BY DEF Strings
  <2> QED BY <2>1, <2>2, <2>3, FreeStep
<1>17. CASE GetFrame
  <2>1. CASE Acquire("iterator", "decode")
    <3>1. /\ "iterator" \notin Kept("loop")
          /\ Kept("decode") = Kept("loop") \cup {"iterator"}
      BY DEF Strings
    <3>2. Ready("loop")
      BY <1>17 DEF GetFrame
    <3> QED BY <2>1, <3>1, <3>2, AcquireStep
  <2>2. CASE EndRound(<<>>)
    <3>1. Ready("loop") /\ Moves("loop", <<>>)
      BY <1>17, <2>2 DEF GetFrame, EndRound, Moves
    <3>2. /\ Kept("loop") = Kept("loop") \cup Listed(<<>>)
          /\ Kept("loop") \cap Listed(<<>>) = {}
      BY DEF Strings
    <3> QED BY <3>1, <3>2, FreeStep
  <2> QED BY <1>17, <2>1, <2>2 DEF GetFrame
<1>18. CASE DecodeFrame
  <2>1. CASE Acquire("pixels", "bitmap")
    <3>1. /\ "pixels" \notin Kept("decode")
          /\ Kept("bitmap") = Kept("decode") \cup {"pixels"}
      BY DEF Strings
    <3>2. Ready("decode")
      BY <1>18 DEF DecodeFrame
    <3> QED BY <2>1, <3>1, <3>2, AcquireStep
  <2>2. CASE EndRound(<<"iterator">>)
    <3>1. Ready("decode") /\ Moves("loop", <<"iterator">>)
      BY <1>18, <2>2 DEF DecodeFrame, EndRound, Moves
    <3>2. /\ Kept("decode") = Kept("loop") \cup Listed(<<"iterator">>)
          /\ Kept("loop") \cap Listed(<<"iterator">>) = {}
      BY DEF Strings
    <3> QED BY <3>1, <3>2, FreeStep
  <2> QED BY <1>18, <2>1, <2>2 DEF DecodeFrame
<1>19. CASE LockBitmap
  <2>1. CASE Acquire("locked_bitmap", "unlock")
    <3>1. /\ "locked_bitmap" \notin Kept("bitmap")
          /\ Kept("unlock") = Kept("bitmap") \cup {"locked_bitmap"}
      BY DEF Strings
    <3>2. Ready("bitmap")
      BY <1>19 DEF LockBitmap
    <3> QED BY <2>1, <3>1, <3>2, AcquireStep
  <2>2. CASE EndRound(<<"pixels", "iterator">>)
    <3>1. Ready("bitmap") /\ Moves("loop", <<"pixels", "iterator">>)
      BY <1>19, <2>2 DEF LockBitmap, EndRound, Moves
    <3>2. /\ Kept("bitmap") = Kept("loop") \cup Listed(<<"pixels", "iterator">>)
          /\ Kept("loop") \cap Listed(<<"pixels", "iterator">>) = {}
      BY DEF Strings
    <3> QED BY <3>1, <3>2, FreeStep
  <2> QED BY <1>19, <2>1, <2>2 DEF LockBitmap
<1>20. CASE GetStrings
  BY <1>20, GetStringsStep
<1>21. CASE CheckStrings
  <2>0. /\ pc = "check_strings" /\ todo = <<>> /\ held' = held /\ held \in [Resource -> 0..1]
        /\ \A r \in Resource : held[r] = 1 => r \in Strings
    BY <1>21 DEF CheckStrings, Ready, Proceed, Abandon, Accounted
  <2>1. CASE held["input_chars"] = 1 /\ held["output_chars"] = 1
    <3>1. pc' = "open" /\ todo' = <<>>
      BY <1>21, <2>0, <2>1 DEF CheckStrings, Proceed
    <3> QED BY <2>0, <2>1, <3>1 DEF Accounted, Strings
  <2>2. CASE held["input_chars"] = 1 /\ held["output_chars"] # 1
    <3>1. pc' = "releasing" /\ todo' = <<"input_chars">>
      BY <1>21, <2>2 DEF CheckStrings, Abandon
    <3> QED BY <2>0, <2>2, <3>1 DEF Accounted, Strings
  <2>3. CASE held["input_chars"] # 1 /\ held["output_chars"] = 1
    <3>1. pc' = "releasing" /\ todo' = <<"output_chars">>
      BY <1>21, <2>3 DEF CheckStrings, Abandon
    <3> QED BY <2>0, <2>3, <3>1 DEF Accounted, Strings
  <2>4. CASE held["input_chars"] # 1 /\ held["output_chars"] # 1
    <3>1. pc' = "releasing" /\ todo' = <<>>
      BY <1>21, <2>4 DEF CheckStrings, Abandon
    <3> QED BY <2>0, <2>4, <3>1 DEF Accounted, Strings
  <2> QED BY <2>1, <2>2, <2>3, <2>4
<1>22. CASE BuildArray
  <2>1. Ready("array") /\ Moves("returned", <<>>)
    BY <1>22 DEF BuildArray, Ready, Moves
  <2> QED BY <2>1, FreeStep
<1>23. CASE UNCHANGED vars
  <2>1. pc' = pc /\ held' = held /\ todo' = todo
    BY <1>23 DEF vars
  <2> QED BY <2>1 DEF Accounted
<1> QED BY <1>1, <1>2, <1>3, <1>4, <1>5, <1>6, <1>7, <1>8, <1>9, <1>10, <1>11, <1>12,
           <1>13, <1>14, <1>15, <1>16, <1>17, <1>18, <1>19, <1>20, <1>21, <1>22, <1>23
        DEF Next

-----------------------------------------------------------------------------
(* The canvas.                                                                *)

Picture == [Pixel -> Seq(1..FrameCount)]

(* A frame of a file that was demuxed lies in the canvas, so cutting it off   *)
(* at the canvas changes nothing.                                             *)
LEMMA FrameFits ==
  ASSUME NEW f \in Frame \cup {NoFrame}
  PROVE  /\ Clip(f) = f /\ Clip(Remembered(f)) = Remembered(f)
         /\ Remembered(f) \in [x : 0..Width - 1, y : 0..Height - 1,
                               w : 0..Width, h : 0..Height, dispose : Dispose]
<1> USE AnimationAssumption
<1>1. /\ f.x \in 0..Width - 1 /\ f.y \in 0..Height - 1 /\ f.w \in 0..Width
      /\ f.h \in 0..Height /\ f.dispose \in Dispose
      /\ f.x + f.w <= Width /\ f.y + f.h <= Height
  BY DEF Frame, NoFrame, Inside, Dispose
<1>2. f = [f EXCEPT !.w = f.w, !.h = f.h]
  BY DEF Frame, NoFrame
<1>3. ~(f.x + f.w > Width) /\ ~(f.y + f.h > Height)
  BY <1>1
<1>4. Clip(f) = f
  BY <1>2, <1>3 DEF Clip
<1>5. Clip(Remembered(f)) = Remembered(f)
  <2> DEFINE r == Remembered(f)
  <2>1. /\ r.x = f.x /\ r.y = f.y /\ r.w = f.w /\ r.h = f.h
        /\ DOMAIN r = {"x", "y", "w", "h", "dispose"}
        /\ r = [k \in DOMAIN r |-> r[k]]
    BY DEF Remembered
  <2>2. Clip(r) = [r EXCEPT !.w = f.w, !.h = f.h]
    BY <1>3, <2>1 DEF Clip
  <2> HIDE DEF r
  <2>3. [r EXCEPT !.w = f.w, !.h = f.h] = r
    BY <2>1
  <2> QED BY <2>2, <2>3 DEF r
<1> QED BY <1>1, <1>4, <1>5 DEF Remembered

LEMMA Cleared ==
  ASSUME NEW c \in Picture, NEW f
  PROVE  /\ ClearRect(c, f) \in Picture
         /\ ClearRect(ClearRect(c, f), f) = ClearRect(c, f)
         /\ ClearRect(c, Remembered(f)) = ClearRect(c, f)
         /\ A!ClearRect(c, f) = ClearRect(c, f)
<1>1. ClearRect(c, f) \in Picture
  <2>1. <<>> \in Seq(1..FrameCount) /\ \A p \in Pixel : c[p] \in Seq(1..FrameCount)
    BY DEF Picture
  <2> QED BY <2>1 DEF Picture, ClearRect, Transparent
<1>2. ClearRect(ClearRect(c, f), f) = ClearRect(c, f)
  BY DEF ClearRect
<1>3. Rect(Remembered(f)) = Rect(f)
  BY DEF Rect, Remembered
<1>4. ClearRect(c, Remembered(f)) = ClearRect(c, f)
  BY <1>3 DEF ClearRect
<1>5. A!ClearRect(c, f) = ClearRect(c, f)
  <2>1. A!Pixel = Pixel /\ A!Rect(f) = Rect(f) /\ A!Transparent = Transparent
    BY DEF A!Pixel, Pixel, A!Rect, Rect, A!Transparent, Transparent
  <2> QED BY <2>1 DEF ClearRect, A!ClearRect
<1> QED BY <1>1, <1>2, <1>4, <1>5

LEMMA RawType ==
  ASSUME NEW f, NEW n \in 1..FrameCount
  PROVE  Raw(f, n) \in Seq(1..FrameCount) /\ A!Raw(f, n) = Raw(f, n)
<1>1. <<n>> \in Seq(1..FrameCount) /\ <<>> \in Seq(1..FrameCount)
  OBVIOUS
<1>2. Raw(f, n) \in {<<n>>, <<>>}
  BY DEF Raw, Transparent
<1>3. A!Raw(f, n) = Raw(f, n)
  BY DEF Raw, Transparent, A!Raw, A!Transparent
<1> QED BY <1>1, <1>2, <1>3

(* One round draws what Canvas Assembly renders.                              *)
LEMMA DrawnIsRendered ==
  ASSUME NEW f \in Frame, NEW c \in Picture, i \in 1..FrameCount
  PROVE  /\ Drawn(f, c) \in Picture
         /\ Drawn(f, c) = [p \in Pixel |->
              IF p \in Rect(f)
              THEN IF f.blend = NoBlend \/ f.paint \in {"solid", "opaque"} THEN Raw(f, i)
                   ELSE c[p] \o Raw(f, i)
              ELSE c[p]]
<1>1. Clip(f) = f
  BY FrameFits
<1>2. Raw(f, i) \in Seq(1..FrameCount) /\ f.blend \in {Blend, NoBlend}
  BY RawType DEF Frame
<1> DEFINE cleared == IF f.blend = NoBlend THEN ClearRect(c, f) ELSE c
<1>3. cleared \in Picture
  BY Cleared
<1>4. \A p \in Pixel : /\ c[p] \in Seq(1..FrameCount)
                       /\ cleared[p] \in Seq(1..FrameCount)
                       /\ p \notin Rect(f) => cleared[p] = c[p]
                       /\ f.blend = Blend => cleared[p] = c[p]
  BY <1>3 DEF Picture, ClearRect, Blend, NoBlend
<1>5. Drawn(f, c) = [p \in Pixel |->
        IF p \notin Rect(f) THEN cleared[p]
        ELSE IF f.blend = Blend /\ f.paint \notin {"solid", "opaque"}
        THEN cleared[p] \o Raw(f, i) ELSE Raw(f, i)]
  BY <1>1 DEF Drawn
<1> HIDE DEF cleared
<1>6. \A p \in Pixel : cleared[p] \o Raw(f, i) \in Seq(1..FrameCount)
  BY <1>2, <1>4, ConcatProperties
<1>7. Drawn(f, c) \in Picture
  BY <1>2, <1>4, <1>5, <1>6 DEF Picture
<1>8. Blend # NoBlend
  BY DEF Blend, NoBlend
<1> QED BY <1>2, <1>4, <1>5, <1>7, <1>8

(* The canvas is the last picture, which is that of the frame drawn, and what the  *)
(* loop remembers of the previous frame is that frame.                        *)
CanvasInv ==
  /\ CanvasTypeOK
  /\ CanvasIsLastPicture
  /\ prev = Remembered(drawn)
  /\ i = 1 => drawn = NoFrame

LEMMA CanvasInit == InitCanvas => CanvasInv
<1> SUFFICES ASSUME InitCanvas PROVE CanvasInv
  OBVIOUS
<1> USE AnimationAssumption, CountAssumption
<1>1. Blank \in Picture
  <2>1. <<>> \in Seq(1..FrameCount)
    OBVIOUS
  <2> QED BY <2>1 DEF Blank, Picture, Transparent
<1>2. prev \in [x : 0..Width - 1, y : 0..Height - 1, w : 0..Width, h : 0..Height,
                dispose : Dispose]
  BY FrameFits DEF InitCanvas
<1>3. saved \in Seq(0..FrameCount - 1)
  BY DEF InitCanvas
<1> QED BY <1>1, <1>2, <1>3
        DEF InitCanvas, CanvasInv, CanvasTypeOK, CanvasIsLastPicture, Picture

(* What the previous frame leaves is what Canvas Assembly leaves of it, also  *)
(* when a frame that was not decoded has had it disposed of already.          *)
LEMMA DisposedIs ==
  ASSUME CanvasInv, NEW f
  PROVE  /\ Disposed(f) \in Picture /\ Disposed(f) = A!Disposed
         /\ \/ Disposed(f) = picture
            \/ prev.dispose = Background /\ Disposed(f) = ClearRect(picture, prev)
<1>1. /\ picture \in Picture /\ canvas \in Picture /\ drawn \in Frame \cup {NoFrame}
      /\ prev = Remembered(drawn)
      /\ canvas = picture \/ (prev.dispose = Background /\ canvas = ClearRect(picture, prev))
  BY DEF CanvasInv, CanvasTypeOK, CanvasIsLastPicture, Picture
<1>2. prev.dispose = drawn.dispose /\ Clip(prev) = prev
  BY <1>1, FrameFits DEF Remembered
<1>3. /\ ClearRect(picture, prev) \in Picture
      /\ ClearRect(ClearRect(picture, prev), prev) = ClearRect(picture, prev)
      /\ ClearRect(picture, prev) = ClearRect(picture, drawn)
      /\ A!ClearRect(picture, drawn) = ClearRect(picture, drawn)
  BY <1>1, Cleared
<1>4. ASSUME i = 1 PROVE prev.dispose # Background
  <2>1. drawn = NoFrame
    BY <1>4 DEF CanvasInv
  <2>2. drawn.dispose = Keep
    BY <2>1 DEF NoFrame
  <2> QED BY <1>2, <2>2 DEF Keep, Background
<1>5. Disposed(f) = IF prev.dispose = Background THEN ClearRect(picture, prev) ELSE picture
  <2>1. i \in Nat /\ i >= 1
    BY CountAssumption DEF CanvasInv, CanvasTypeOK
  <2>2. CASE prev.dispose = Background
    BY <1>1, <1>2, <1>3, <1>4, <2>1, <2>2 DEF Disposed
  <2>3. CASE prev.dispose # Background
    BY <1>1, <2>3 DEF Disposed
  <2> QED BY <2>2, <2>3
<1>6. A!Disposed = IF prev.dispose = Background THEN ClearRect(picture, prev) ELSE picture
  BY <1>2, <1>3 DEF A!Disposed, A!Background, Background
<1> QED BY <1>1, <1>3, <1>5, <1>6

LEMMA DrawnRound ==
  ASSUME CanvasInv, NEW f \in Frame, NEW kept \in BOOLEAN, FrameDrawn(f, kept)
  PROVE  CanvasInv' /\ A!Render
<1>1. /\ i \in 1..FrameCount /\ i' = i + 1 /\ i' \in 1..FrameCount + 1 /\ i' # 1
  BY CountAssumption DEF FrameDrawn, CanvasInv, CanvasTypeOK
<1>2. /\ canvas' = Drawn(f, Disposed(f)) /\ picture' = canvas' /\ drawn' = f
      /\ prev' = Remembered(f)
  BY FrameFits DEF FrameDrawn
<1>3. Disposed(f) \in Picture /\ Disposed(f) = A!Disposed
  BY DisposedIs
<1>4. /\ canvas' \in Picture
      /\ canvas' = [p \in Pixel |->
           IF p \in Rect(f)
           THEN IF f.blend = NoBlend \/ f.paint \in {"solid", "opaque"} THEN Raw(f, i)
                ELSE A!Disposed[p] \o Raw(f, i)
           ELSE A!Disposed[p]]
  BY <1>1, <1>2, <1>3, DrawnIsRendered
<1>5. saved' \in Seq(0..FrameCount - 1)
  <2>1. saved \in Seq(0..FrameCount - 1) /\ i - 1 \in 0..FrameCount - 1
    BY <1>1, CountAssumption DEF CanvasInv, CanvasTypeOK
  <2>2. Append(saved, i - 1) \in Seq(0..FrameCount - 1)
    BY <2>1, AppendProperties
  <2> QED BY <2>1, <2>2 DEF FrameDrawn
<1>6. CanvasInv'
  BY <1>1, <1>2, <1>4, <1>5, FrameFits
     DEF CanvasInv, CanvasTypeOK, CanvasIsLastPicture, Picture
<1>7. picture' = A!Rendered(drawn', i)
  <2>1. A!Pixel = Pixel /\ A!Rect(f) = Rect(f) /\ A!Raw(f, i) = Raw(f, i)
        /\ A!NoBlend = NoBlend
    BY <1>1, RawType DEF A!Pixel, Pixel, A!Rect, Rect, A!NoBlend, NoBlend
  <2> QED BY <1>2, <1>4, <2>1 DEF A!Rendered, A!Over
<1>8. drawn' \in A!Frame
  BY <1>2 DEF Frame, A!Frame, Inside, A!Inside, Blend, A!Blend, NoBlend, A!NoBlend,
              Dispose, A!Dispose, Background, A!Background, Keep, A!Keep, Paint, A!Paint
<1> QED BY <1>1, <1>6, <1>7, <1>8 DEF A!Render

LEMMA RoundStep == CanvasInv /\ [NextRound]_canvasVars => CanvasInv' /\ [A!Render]_(A!vars)
<1> SUFFICES ASSUME CanvasInv, [NextRound]_canvasVars
             PROVE  CanvasInv' /\ [A!Render]_(A!vars)
  OBVIOUS
<1>1. CASE UNCHANGED canvasVars
  BY <1>1 DEF canvasVars, CanvasInv, CanvasTypeOK, CanvasIsLastPicture, A!vars
<1>2. ASSUME i <= FrameCount, i' = i + 1, UNCHANGED <<prev, picture, saved, drawn>>,
             canvas' \in Picture,
             canvas' = picture \/ (prev.dispose = Background /\ canvas' = ClearRect(picture, prev))
      PROVE  CanvasInv' /\ [A!Render]_(A!vars)
  <2>1. i' \in 1..FrameCount + 1 /\ i' # 1
    BY <1>2, CountAssumption DEF CanvasInv, CanvasTypeOK
  <2> QED BY <1>2, <2>1 DEF CanvasInv, CanvasTypeOK, CanvasIsLastPicture, A!vars, Picture
<1>3. CASE FrameMissing
  <2>1. canvas' = canvas
    BY <1>3 DEF FrameMissing
  <2> QED BY <1>2, <1>3, <2>1
          DEF FrameMissing, CanvasInv, CanvasTypeOK, CanvasIsLastPicture, Picture
<1>4. ASSUME NEW f \in Frames, FrameUndecodable(f)
      PROVE  CanvasInv' /\ [A!Render]_(A!vars)
  BY <1>2, <1>4, DisposedIs DEF FrameUndecodable
<1>5. ASSUME NEW f \in Frames, NEW kept \in BOOLEAN, FrameDrawn(f, kept)
      PROVE  CanvasInv' /\ [A!Render]_(A!vars)
  BY <1>5, DrawnRound, AnimationAssumption
<1> QED BY <1>1, <1>3, <1>4, <1>5 DEF NextRound

LEMMA NextIsRound == [Next]_vars => [NextRound]_canvasVars
<1> SUFFICES ASSUME [Next]_vars PROVE [NextRound]_canvasVars
  OBVIOUS
<1>1. CASE Release \/ Return \/ GetStrings \/ CheckStrings \/ OpenFile \/ MeasureFile
  BY <1>1 DEF Release, Return, GetStrings, CheckStrings, OpenFile, MeasureFile,
              Acquire, Proceed, Abandon
<1>2. CASE AllocateData \/ ReadData \/ CheckRead \/ Demux \/ CountFrames \/ SizeCanvas
  BY <1>2 DEF AllocateData, ReadData, CheckRead, Demux, CountFrames, SizeCanvas,
              Acquire, Proceed, Abandon, Free
<1>3. CASE AllocateCanvas \/ BorrowSize \/ UnlockBitmap \/ OpenStream \/ CleanUp \/ BuildArray
  BY <1>3 DEF AllocateCanvas, BorrowSize, UnlockBitmap, OpenStream, CleanUp, BuildArray,
              Acquire, Proceed, Abandon, Free
<1>4. CASE GetFrame \/ DecodeFrame \/ LockBitmap \/ Compress
  BY <1>4 DEF GetFrame, DecodeFrame, LockBitmap, Compress, Acquire, NextRound
<1>5. CASE UNCHANGED vars
  BY <1>5 DEF vars
<1> QED BY <1>1, <1>2, <1>3, <1>4, <1>5 DEF Next

-----------------------------------------------------------------------------
(* The inductive invariant of a call.                                         *)
CallInv == Accounted /\ CanvasInv /\ result \in {"none", "null", "array"}

LEMMA CallInvInit == Init => CallInv
<1> SUFFICES ASSUME Init PROVE CallInv
  OBVIOUS
<1>1. CanvasInv
  BY CanvasInit DEF Init
<1>2. held \in [Resource -> 0..1] /\ \A r \in Resource : held[r] # 1
  BY DEF Init
<1>3. pc = "strings" /\ todo = <<>> /\ result = "none"
  BY DEF Init
<1>4. Accounted
  <2>1. pc \in Place /\ Kept(pc) = {} /\ Orderly(todo) /\ Listed(todo) = {}
    BY <1>3, Names, KeptAre, ListsAre
  <2> QED BY <1>2, <1>3, <2>1 DEF Accounted
<1> QED BY <1>1, <1>3, <1>4 DEF CallInv

LEMMA CallInvNext == CallInv /\ [Next]_vars => CallInv'
<1> SUFFICES ASSUME CallInv, [Next]_vars PROVE CallInv'
  OBVIOUS
<1>1. Accounted' /\ CanvasInv'
  BY AccountedNext, NextIsRound, RoundStep DEF CallInv
<1>2. result' \in {"none", "null", "array"}
  <2> USE DEF CallInv, Acquire, Proceed, Free, Abandon, EndRound
  <2>1. CASE Release \/ Return \/ GetStrings \/ CheckStrings \/ OpenFile \/ MeasureFile
    BY <2>1 DEF Release, Return, GetStrings, CheckStrings, OpenFile, MeasureFile
  <2>2. CASE AllocateData \/ ReadData \/ CheckRead \/ Demux \/ CountFrames \/ SizeCanvas
    BY <2>2 DEF AllocateData, ReadData, CheckRead, Demux, CountFrames, SizeCanvas
  <2>3. CASE AllocateCanvas \/ BorrowSize \/ UnlockBitmap \/ OpenStream \/ CleanUp \/ BuildArray
    BY <2>3 DEF AllocateCanvas, BorrowSize, UnlockBitmap, OpenStream, CleanUp, BuildArray
  <2>4. CASE GetFrame \/ DecodeFrame \/ LockBitmap \/ Compress
    BY <2>4 DEF GetFrame, DecodeFrame, LockBitmap, Compress
  <2>5. CASE UNCHANGED vars
    BY <2>5 DEF vars
  <2> QED BY <2>1, <2>2, <2>3, <2>4, <2>5 DEF Next
<1> QED BY <1>1, <1>2 DEF CallInv

LEMMA CallInvariant == Spec => []CallInv
BY CallInvInit, CallInvNext, PTL DEF Spec

(* No path of a call acquires what it holds or releases what it does not, and *)
(* the canvas, the picture and the list of files keep their types (lines      *)
(* 80-420).                                                                   *)
THEOREM CallTypeCorrect == Spec => []TypeOK
<1>1. CallInv => TypeOK
  BY DEF CallInv, Accounted, CanvasInv, Orderly, TypeOK
<1> QED BY <1>1, CallInvariant, PTL

(* Whatever fails, a call that returns has given back all that it acquired    *)
(* (lines 88-193, 243-260, 373-381).                                          *)
THEOREM NothingLeftBehind == Spec => []ReleasedOnReturn
<1>1. CallInv => ReleasedOnReturn
  <2> SUFFICES ASSUME CallInv, pc = "returned", NEW r \in Resource PROVE held[r] = 0
    BY DEF ReleasedOnReturn
  <2>1. Kept(pc) = {} /\ Listed(todo) = {}
    BY KeptAre, ListsAre DEF CallInv, Accounted
  <2>2. held[r] # 1 /\ held[r] \in 0..1
    BY <2>1 DEF CallInv, Accounted
  <2> QED BY <2>2
<1> QED BY <1>1, CallInvariant, PTL

(* The file's bytes outlive the demuxer and the demuxer the iterators (lines  *)
(* 137-141, 170-260, 373-378).                                                *)
THEOREM BytesOutliveDemuxer == Spec => []DataOutlivesDemuxer
<1>1. CallInv => DataOutlivesDemuxer
  <2> SUFFICES ASSUME CallInv PROVE DataOutlivesDemuxer
    OBVIOUS
  <2>1. "data" \in Resource /\ "demux" \in Resource /\ "iterator" \in Resource
    BY Names
  <2>2. CASE pc = "check_strings"
    BY <2>1, <2>2 DEF CallInv, Accounted, Strings, DataOutlivesDemuxer
  <2>3. CASE pc # "check_strings"
    <3>1. /\ "iterator" \in Kept(pc) => "demux" \in Kept(pc)
          /\ "demux" \in Kept(pc) => "data" \in Kept(pc)
      BY DEF Kept, Strings
    <3> QED BY <2>1, <2>3, <3>1 DEF CallInv, Accounted, DataOutlivesDemuxer
  <2> QED BY <2>2, <2>3
<1> QED BY <1>1, CallInvariant, PTL

(* Nothing but the disposal of the last frame ever comes between the canvas   *)
(* and the last picture (lines 212-375).                                      *)
THEOREM CanvasKeepsPicture == Spec => []CanvasIsLastPicture
<1>1. CallInv => CanvasIsLastPicture
  BY DEF CallInv, CanvasInv
<1> QED BY <1>1, CallInvariant, PTL

(* The pictures a call saves are those of Canvas Assembly, for any canvas and *)
(* any frames, with the frames that cannot be decoded left out (lines         *)
(* 212-375).                                                                  *)
THEOREM CallAssemblesCanvas == Spec => AssemblesCanvas
<1>1. Init => A!Init
  BY DEF Init, InitCanvas, A!Init, Blank, A!Blank, NoFrame, A!NoFrame, Pixel, A!Pixel,
         Transparent, A!Transparent, Blend, A!Blend, Keep, A!Keep
<1>2. CallInv /\ [Next]_vars => [A!Render]_(A!vars)
  BY NextIsRound, RoundStep DEF CallInv
<1> QED BY <1>1, <1>2, CallInvariant, PTL DEF Spec, AssemblesCanvas, A!Spec

-----------------------------------------------------------------------------
(* How long a call runs, and which files it lists.                            *)

(* The places of a round, and of the call, that lie ahead of one.             *)
Ahead ==
  [p \in Place |->
     CASE p = "strings" -> 20    [] p = "check_strings" -> 19  [] p = "open" -> 18
       [] p = "measure" -> 17    [] p = "allocate" -> 16       [] p = "read" -> 15
       [] p = "check_read" -> 14 [] p = "demux" -> 13          [] p = "count" -> 12
       [] p = "size" -> 11       [] p = "borrow_size" -> 10    [] p = "canvas" -> 9
       [] p = "loop" -> 8        [] p = "decode" -> 7          [] p = "bitmap" -> 6
       [] p = "unlock" -> 5      [] p = "stream" -> 4          [] p = "compress" -> 3
       [] p = "array" -> 2       [] p = "releasing" -> 1       [] p = "returned" -> 0]

(* A round is six places long, and a list of releases at most five.           *)
CallRank == 36 * (FrameCount + 1 - i) + 6 * Ahead[pc] + Len(todo)

CallAdvances == Next => CallRank' \in Nat /\ CallRank' < CallRank

ShortList(s) == s \in Seq(Resource) /\ Len(s) \in Nat /\ Len(s) <= 5

(* The steps other than a release: the next place, or the next round.         *)
Onward ==
  todo = <<>> /\ ShortList(todo') /\ i' = i /\ Ahead[pc'] < Ahead[pc]

RoundEnds ==
  /\ todo = <<>> /\ ShortList(todo') /\ i \in 1..FrameCount /\ i' = i + 1
  /\ Ahead[pc'] < Ahead[pc] + 6

LEMMA AheadAre ==
  /\ Ahead \in [Place -> Nat]
  /\ Ahead["strings"] = 20 /\ Ahead["check_strings"] = 19 /\ Ahead["open"] = 18
  /\ Ahead["measure"] = 17 /\ Ahead["allocate"] = 16 /\ Ahead["read"] = 15
  /\ Ahead["check_read"] = 14 /\ Ahead["demux"] = 13 /\ Ahead["count"] = 12
  /\ Ahead["size"] = 11 /\ Ahead["borrow_size"] = 10 /\ Ahead["canvas"] = 9
  /\ Ahead["loop"] = 8 /\ Ahead["decode"] = 7 /\ Ahead["bitmap"] = 6
  /\ Ahead["unlock"] = 5 /\ Ahead["stream"] = 4 /\ Ahead["compress"] = 3
  /\ Ahead["array"] = 2 /\ Ahead["releasing"] = 1 /\ Ahead["returned"] = 0
BY DEF Ahead, Place

LEMMA ListsAreShort ==
  /\ ShortList(<<>>) /\ ShortList(<<"input_chars">>) /\ ShortList(<<"output_chars">>)
  /\ ShortList(<<"file">>) /\ ShortList(<<"iterator">>) /\ ShortList(<<"locked_bitmap">>)
  /\ ShortList(<<"pixels", "iterator">>) /\ ShortList(<<"stream", "pixels", "iterator">>)
  /\ ShortList(Chars) /\ ShortList(<<"file">> \o Chars) /\ ShortList(<<"data">> \o Chars)
  /\ ShortList(<<"demux", "data">> \o Chars)
  /\ ShortList(<<"demux", "data", "canvas">> \o Chars)
<1>1. /\ ShortList(<<>>) /\ ShortList(<<"input_chars">>) /\ ShortList(<<"output_chars">>)
      /\ ShortList(<<"file">>) /\ ShortList(<<"iterator">>)
      /\ ShortList(<<"locked_bitmap">>)
      /\ ShortList(<<"pixels", "iterator">>)
      /\ ShortList(<<"stream", "pixels", "iterator">>)
  BY DEF ShortList, Resource
<1>2. Chars \in Seq(Resource) /\ Len(Chars) = 2
  BY DEF Chars, Resource
<1>3. \A s \in Seq(Resource) : Len(s) \in {1, 2, 3} => ShortList(s \o Chars)
  <2> SUFFICES ASSUME NEW s \in Seq(Resource), Len(s) \in {1, 2, 3}
               PROVE  ShortList(s \o Chars)
    OBVIOUS
  <2> DEFINE n == Len(s)
             m == Len(Chars)
             t == s \o Chars
  <2>1. t \in Seq(Resource) /\ Len(t) = n + m
    BY <1>2, ConcatProperties
  <2>2. n \in {1, 2, 3} /\ m = 2
    BY <1>2
  <2> HIDE DEF n, m, t
  <2>3. Len(t) \in Nat /\ Len(t) <= 5
    BY <2>1, <2>2
  <2> QED BY <2>1, <2>3 DEF ShortList, t
<1>4. /\ <<"file">> \in Seq(Resource) /\ Len(<<"file">>) \in {1, 2, 3}
      /\ <<"data">> \in Seq(Resource) /\ Len(<<"data">>) \in {1, 2, 3}
      /\ <<"demux", "data">> \in Seq(Resource) /\ Len(<<"demux", "data">>) \in {1, 2, 3}
      /\ <<"demux", "data", "canvas">> \in Seq(Resource)
      /\ Len(<<"demux", "data", "canvas">>) \in {1, 2, 3}
  BY DEF Resource
<1>5. ShortList(Chars)
  BY <1>2 DEF ShortList
<1>6. ShortList(<<"file">> \o Chars)
  BY <1>3, <1>4
<1>7. ShortList(<<"data">> \o Chars)
  BY <1>3, <1>4
<1>8. ShortList(<<"demux", "data">> \o Chars)
  BY <1>3, <1>4
<1>9. ShortList(<<"demux", "data", "canvas">> \o Chars)
  BY <1>3, <1>4
<1> QED BY <1>1, <1>5, <1>6, <1>7, <1>8, <1>9

(* A step from one place to another, and one to the next round.               *)
Goes(p, q, list) ==
  pc = p /\ todo = <<>> /\ pc' = q /\ todo' = list /\ UNCHANGED canvasVars

Rounds(p, list) ==
  pc = p /\ todo = <<>> /\ pc' = "loop" /\ todo' = list /\ i <= FrameCount /\ i' = i + 1

LEMMA GoesOnward ==
  ASSUME NEW p, NEW q, NEW list, Goes(p, q, list), ShortList(list), Ahead[q] < Ahead[p]
  PROVE  Onward
BY DEF Goes, Onward, canvasVars

LEMMA RoundsEnd ==
  ASSUME CallInv, NEW p, NEW list, Rounds(p, list), ShortList(list),
         Ahead["loop"] < Ahead[p] + 6
  PROVE  RoundEnds
<1>1. i \in 1..FrameCount + 1
  BY DEF CallInv, CanvasInv, CanvasTypeOK
<1>2. i \in 1..FrameCount
  BY <1>1, CountAssumption DEF Rounds
<1> QED BY <1>2 DEF Rounds, RoundEnds

LEMMA EveryStepMoves == CallInv /\ Next => Release \/ Onward \/ RoundEnds
<1> SUFFICES ASSUME CallInv, Next PROVE Release \/ Onward \/ RoundEnds
  OBVIOUS
<1>1. CASE Return
  <2>1. Goes("releasing", "returned", <<>>)
    BY <1>1 DEF Return, Proceed, Ready, Goes
  <2> QED BY <2>1, AheadAre, ListsAreShort, GoesOnward
<1>2. CASE GetStrings
  <2>1. Goes("strings", "check_strings", <<>>)
    BY <1>2 DEF GetStrings, Ready, Goes
  <2> QED BY <2>1, AheadAre, ListsAreShort, GoesOnward
<1>3. CASE CheckStrings
  <2>1. \/ Goes("check_strings", "open", <<>>)
        \/ Goes("check_strings", "releasing", <<"input_chars">>)
        \/ Goes("check_strings", "releasing", <<"output_chars">>)
        \/ Goes("check_strings", "releasing", <<>>)
    BY <1>3 DEF CheckStrings, Proceed, Abandon, Ready, Goes
  <2> QED BY <2>1, AheadAre, ListsAreShort, GoesOnward
<1>4. CASE OpenFile
  <2>1. \/ Goes("open", "measure", <<>>)
        \/ Goes("open", "releasing", Chars)
    BY <1>4 DEF OpenFile, Acquire, Abandon, Ready, Goes
  <2> QED BY <2>1, AheadAre, ListsAreShort, GoesOnward
<1>5. CASE MeasureFile
  <2>1. \/ Goes("measure", "allocate", <<>>)
        \/ Goes("measure", "releasing", <<"file">> \o Chars)
    BY <1>5 DEF MeasureFile, Proceed, Abandon, Ready, Goes
  <2> QED BY <2>1, AheadAre, ListsAreShort, GoesOnward
<1>6. CASE AllocateData
  <2>1. \/ Goes("allocate", "read", <<>>)
        \/ Goes("allocate", "releasing", <<"file">> \o Chars)
    BY <1>6 DEF AllocateData, Acquire, Abandon, Ready, Goes
  <2> QED BY <2>1, AheadAre, ListsAreShort, GoesOnward
<1>7. CASE ReadData
  <2>1. Goes("read", "check_read", <<"file">>)
    BY <1>7 DEF ReadData, Free, Ready, Goes
  <2> QED BY <2>1, AheadAre, ListsAreShort, GoesOnward
<1>8. CASE CheckRead
  <2>1. \/ Goes("check_read", "demux", <<>>)
        \/ Goes("check_read", "releasing", <<"data">> \o Chars)
    BY <1>8 DEF CheckRead, Proceed, Abandon, Ready, Goes
  <2> QED BY <2>1, AheadAre, ListsAreShort, GoesOnward
<1>9. CASE Demux
  <2>1. \/ Goes("demux", "count", <<>>)
        \/ Goes("demux", "releasing", <<"data">> \o Chars)
    BY <1>9 DEF Demux, Acquire, Abandon, Ready, Goes
  <2> QED BY <2>1, AheadAre, ListsAreShort, GoesOnward
<1>10. CASE CountFrames
  <2>1. \/ Goes("count", "size", <<>>)
        \/ Goes("count", "releasing", <<"demux", "data">> \o Chars)
    BY <1>10 DEF CountFrames, Proceed, Abandon, Ready, Goes
  <2> QED BY <2>1, AheadAre, ListsAreShort, GoesOnward
<1>11. CASE SizeCanvas
  <2>1. \/ Goes("size", "canvas", <<>>)
        \/ Goes("size", "borrow_size", <<>>)
        \/ Goes("size", "releasing", <<"demux", "data">> \o Chars)
    BY <1>11 DEF SizeCanvas, Proceed, Acquire, Abandon, Ready, Goes
  <2> QED BY <2>1, AheadAre, ListsAreShort, GoesOnward
<1>12. CASE BorrowSize
  <2>1. Goes("borrow_size", "canvas", <<"iterator">>)
    BY <1>12 DEF BorrowSize, Free, Ready, Goes
  <2> QED BY <2>1, AheadAre, ListsAreShort, GoesOnward
<1>13. CASE AllocateCanvas
  <2>1. \/ Goes("canvas", "loop", <<>>)
        \/ Goes("canvas", "releasing", <<"demux", "data">> \o Chars)
    BY <1>13 DEF AllocateCanvas, Acquire, Abandon, Ready, Goes
  <2> QED BY <2>1, AheadAre, ListsAreShort, GoesOnward
<1>14. CASE UnlockBitmap
  <2>1. Goes("unlock", "stream", <<"locked_bitmap">>)
    BY <1>14 DEF UnlockBitmap, Free, Ready, Goes
  <2> QED BY <2>1, AheadAre, ListsAreShort, GoesOnward
<1>15. CASE OpenStream
  <2>1. Goes("stream", "compress", <<>>)
    BY <1>15 DEF OpenStream, Acquire, Ready, Goes
  <2> QED BY <2>1, AheadAre, ListsAreShort, GoesOnward
<1>16. CASE CleanUp
  <2>1. Goes("loop", "array", <<"demux", "data", "canvas">> \o Chars)
    BY <1>16 DEF CleanUp, Free, Ready, Goes
  <2> QED BY <2>1, AheadAre, ListsAreShort, GoesOnward
<1>17. CASE BuildArray
  <2>1. Goes("array", "returned", <<>>)
    BY <1>17 DEF BuildArray, Ready, Goes
  <2> QED BY <2>1, AheadAre, ListsAreShort, GoesOnward
<1>18. CASE GetFrame
  <2>1. \/ Goes("loop", "decode", <<>>)
        \/ Rounds("loop", <<>>)
    BY <1>18 DEF GetFrame, Acquire, FrameMissing, EndRound, Ready, Goes, Rounds
  <2>2. CASE Goes("loop", "decode", <<>>)
    BY <2>2, AheadAre, ListsAreShort, GoesOnward
  <2>3. CASE Rounds("loop", <<>>)
    BY <2>3, AheadAre, ListsAreShort, RoundsEnd
  <2> QED BY <2>1, <2>2, <2>3
<1>19. CASE DecodeFrame
  <2>1. \/ Goes("decode", "bitmap", <<>>)
        \/ Rounds("decode", <<"iterator">>)
    BY <1>19 DEF DecodeFrame, Acquire, FrameUndecodable, EndRound, Ready, Goes, Rounds
  <2>2. CASE Goes("decode", "bitmap", <<>>)
    BY <2>2, AheadAre, ListsAreShort, GoesOnward
  <2>3. CASE Rounds("decode", <<"iterator">>)
    BY <2>3, AheadAre, ListsAreShort, RoundsEnd
  <2> QED BY <2>1, <2>2, <2>3
<1>20. CASE LockBitmap
  <2>1. \/ Goes("bitmap", "unlock", <<>>)
        \/ Rounds("bitmap", <<"pixels", "iterator">>)
    BY <1>20 DEF LockBitmap, Acquire, FrameDrawn, EndRound, Ready, Goes, Rounds
  <2>2. CASE Goes("bitmap", "unlock", <<>>)
    BY <2>2, AheadAre, ListsAreShort, GoesOnward
  <2>3. CASE Rounds("bitmap", <<"pixels", "iterator">>)
    BY <2>3, AheadAre, ListsAreShort, RoundsEnd
  <2> QED BY <2>1, <2>2, <2>3
<1>21. CASE Compress
  <2>1. Rounds("compress", <<"stream", "pixels", "iterator">>)
    BY <1>21 DEF Compress, FrameDrawn, EndRound, Ready, Goes, Rounds
  <2> QED BY <2>1, AheadAre, ListsAreShort, RoundsEnd
<1> QED BY <1>1, <1>2, <1>3, <1>4, <1>5, <1>6, <1>7, <1>8, <1>9, <1>10, <1>11,
           <1>12, <1>13, <1>14, <1>15, <1>16, <1>17, <1>18, <1>19, <1>20,
           <1>21 DEF Next

LEMMA CallRankType == CallInv => CallRank \in Nat
<1> SUFFICES ASSUME CallInv PROVE CallRank \in Nat
  OBVIOUS
<1>1. i \in 1..FrameCount + 1 /\ Len(todo) \in Nat /\ pc \in Place
  BY LenProperties DEF CallInv, CanvasInv, CanvasTypeOK, Accounted, Orderly
<1>2. Ahead[pc] \in Nat
  BY <1>1, AheadAre
<1> QED BY <1>1, <1>2, CountAssumption DEF CallRank

LEMMA StepLowers == CallInv /\ CallInv' /\ Next => CallRank' < CallRank
<1> SUFFICES ASSUME CallInv, CallInv', Next PROVE CallRank' < CallRank
  OBVIOUS
<1>1. /\ i \in 1..FrameCount + 1 /\ Len(todo) \in Nat /\ todo \in Seq(Resource)
      /\ pc \in Place /\ pc' \in Place
  BY LenProperties DEF CallInv, CanvasInv, CanvasTypeOK, Accounted, Orderly
<1>2. Ahead[pc] \in Nat /\ Ahead[pc'] \in Nat
  BY <1>1, AheadAre
<1>3. CASE Release
  <2>1. pc' = pc /\ i' = i /\ todo # <<>> /\ todo' = Tail(todo)
    BY <1>3 DEF Release, canvasVars
  <2>2. Len(todo') = Len(todo) - 1
    BY <1>1, <2>1, HeadTailProperties
  <2> QED BY <1>1, <1>2, <2>1, <2>2, CountAssumption DEF CallRank
<1>4. CASE Onward
  <2>1. i' = i /\ Ahead[pc'] < Ahead[pc] /\ Len(todo) = 0 /\ Len(todo') \in Nat /\ Len(todo') <= 5
    BY <1>4 DEF Onward, ShortList
  <2> QED BY <1>1, <1>2, <2>1, CountAssumption DEF CallRank
<1>5. CASE RoundEnds
  <2>1. i' = i + 1 /\ Ahead[pc'] < Ahead[pc] + 6 /\ Len(todo) = 0 /\ Len(todo') \in Nat /\ Len(todo') <= 5
    BY <1>5 DEF RoundEnds, ShortList
  <2> QED BY <1>1, <1>2, <2>1, CountAssumption DEF CallRank
<1> QED BY <1>3, <1>4, <1>5, EveryStepMoves

(* Whatever fails and whichever frames are skipped with continue, every step  *)
(* of a call lowers the same natural number (lines 80-420): a call makes at   *)
(* most 36 steps for each frame and 120 more, and then it has returned.       *)
THEOREM CallRunsOut == Spec => [][CallAdvances]_vars
<1>1. CallInv /\ CallInv' => [CallAdvances]_vars
  <2>1. (CallInv => CallRank \in Nat)'
    BY CallRankType, PTL
  <2> QED BY <2>1, StepLowers DEF CallAdvances
<1> QED BY <1>1, CallInvariant, PTL

(* The files of saved_frames, in the order of the animation and each once.    *)
FilesInOrder == \A j, k \in 1..Len(saved) : j < k => saved[j] < saved[k]

(* Every file listed is of a round before this one.                           *)
FilesBehind == \A k \in 1..Len(saved) : saved[k] + 1 < i

LEMMA FilesNext ==
  CallInv /\ FilesInOrder /\ FilesBehind /\ [Next]_vars => FilesInOrder' /\ FilesBehind'
<1> SUFFICES ASSUME CallInv, FilesInOrder, FilesBehind, [NextRound]_canvasVars
             PROVE  FilesInOrder' /\ FilesBehind'
  BY NextIsRound
<1>1. i \in Nat /\ saved \in Seq(0..FrameCount - 1)
  BY CountAssumption DEF CallInv, CanvasInv, CanvasTypeOK
<1>2. \A k \in 1..Len(saved) : saved[k] \in Nat
  BY <1>1, CountAssumption
<1>3. CASE UNCHANGED canvasVars
  BY <1>3 DEF canvasVars, FilesInOrder, FilesBehind
<1>4. CASE saved' = saved /\ i' = i + 1
  <2>1. FilesInOrder'
    BY <1>4 DEF FilesInOrder
  <2>2. FilesBehind'
    BY <1>1, <1>2, <1>4 DEF FilesBehind
  <2> QED BY <2>1, <2>2
<1>5. CASE saved' = Append(saved, i - 1) /\ i' = i + 1
  <2> DEFINE n == Len(saved)
  <2>1. n \in Nat /\ saved \in Seq(Int) /\ i - 1 \in Int
    BY <1>1, CountAssumption, LenProperties
  <2>2. /\ Len(saved') = n + 1 /\ saved'[n + 1] = i - 1
        /\ \A k \in 1..n : saved'[k] = saved[k]
    BY <1>5, <2>1, AppendProperties
  <2> HIDE DEF n
  <2>3. ASSUME NEW k \in 1..Len(saved')
        PROVE  \/ k \in 1..n /\ saved'[k] = saved[k] /\ saved[k] \in Nat /\ saved[k] + 1 < i
               \/ k = n + 1 /\ saved'[k] = i - 1
    <3>1. k \in 1..n \/ k = n + 1
      BY <2>1, <2>2
    <3> QED BY <1>2, <2>2, <3>1 DEF FilesBehind, n
  <2>4. FilesBehind'
    BY <1>1, <1>5, <2>3 DEF FilesBehind
  <2>5. FilesInOrder'
    <3> SUFFICES ASSUME NEW j \in 1..Len(saved'), NEW k \in 1..Len(saved'), j < k
                 PROVE  saved'[j] < saved'[k]
      BY DEF FilesInOrder
    <3>1. j \in 1..n /\ saved'[j] = saved[j] /\ saved[j] \in Nat /\ saved[j] + 1 < i
      BY <2>1, <2>2, <2>3
    <3>2. CASE k \in 1..n
      BY <2>2, <3>1, <3>2 DEF FilesInOrder, n
    <3>3. CASE k = n + 1
      BY <1>1, <2>2, <3>1, <3>3
    <3> QED BY <2>3, <3>2, <3>3
  <2> QED BY <2>4, <2>5
<1> QED BY <1>3, <1>4, <1>5 DEF NextRound, FrameMissing, FrameUndecodable, FrameDrawn

(* The array a call returns names no file twice and names them in the order   *)
(* of the frames, although files are numbered from the loop's counter and     *)
(* frames that fail leave gaps (lines 212-216, 350-361).                      *)
THEOREM FilesAreInOrder == Spec => []FilesInOrder
<1>1. Init => FilesInOrder /\ FilesBehind
  BY DEF Init, InitCanvas, FilesInOrder, FilesBehind
<1> QED BY <1>1, FilesNext, CallInvariant, PTL DEF Spec

=============================================================================
