--------------------------- MODULE FileOpsProofs ---------------------------
(***************************************************************************)
(* What the file calls of module FileOps do to a name, for every set of    *)
(* names and every number of files: the facts the proofs about publication *)
(* protocols rest on.                                                      *)
(***************************************************************************)
EXTENDS FileOps, TLAPS

\* A directory with its four parts.
Shape(f) ==
  /\ f = [vis |-> f.vis, dur |-> f.dur, data |-> f.data, safe |-> f.safe]
  /\ f.vis \in [Names -> Files \cup {0}] /\ f.dur \in [Names -> Files \cup {0}]
  /\ f.data = [x \in Files |-> f.data[x]] /\ f.safe = [x \in Files |-> f.safe[x]]

\* A directory between two calls: a file that no name reaches is gone.
Dir(f) ==
  Shape(f) /\ \A x \in Files : x \notin Alive(f) => f.data[x] = Hole /\ f.safe[x] = Hole

\* What the files under a name hold, or may hold after a crash.
Contents(f, n) ==
  (UNION {{f.data[g], f.safe[g]} : g \in {f.vis[n], f.dur[n]} \ {0}}) \ {Hole, Torn}

\* A reader finds x under the name; the file is synchronised as well; the
\* directory entry is, too.
Written(f, n, x) == f.vis[n] # 0 /\ f.data[f.vis[n]] = x
Flushed(f, n, x) == Written(f, n, x) /\ f.safe[f.vis[n]] = x
Solid(f, n, x) == Flushed(f, n, x) /\ f.dur[n] = f.vis[n]

\* From f to g nothing durable is lost under the name; and nothing new appears.
Stays(f, g, n) == \A x : Solid(f, n, x) => Solid(g, n, x)
Keeps(f, g, n) == Stays(f, g, n) /\ Contents(g, n) \subseteq Contents(f, n)

\* A reader finds the same under the name.
Looks(f, g, n) ==
  g.vis[n] = f.vis[n] /\ (f.vis[n] # 0 => g.data[f.vis[n]] = f.data[f.vis[n]])

\* f and g do not differ in the name nor in its files.
Agrees(f, g, n) ==
  /\ g.vis[n] = f.vis[n] /\ g.dur[n] = f.dur[n]
  /\ \A x \in {f.vis[n], f.dur[n]} : x # 0 => g.data[x] = f.data[x] /\ g.safe[x] = f.safe[x]

-----------------------------------------------------------------------------
LEMMA ContentsIs ==
  ASSUME NEW f, NEW n, NEW x
  PROVE  x \in Contents(f, n) <=>
           /\ x \notin {Hole, Torn}
           /\ \E g \in {f.vis[n], f.dur[n]} : g # 0 /\ (x = f.data[g] \/ x = f.safe[g])
<1> DEFINE g == {f.vis[n], f.dur[n]} \ {0}
<1>1. x \in UNION {{f.data[y], f.safe[y]} : y \in g} <=> \E y \in g : x \in {f.data[y], f.safe[y]}
  BY Zenon
<1>2. x \in Contents(f, n) <=> x \in UNION {{f.data[y], f.safe[y]} : y \in g} /\ x \notin {Hole, Torn}
  BY Zenon DEF Contents
<1> QED BY <1>1, <1>2

LEMMA AgreesKeeps ==
  ASSUME NEW f, NEW g, NEW n, Agrees(f, g, n)
  PROVE  Keeps(f, g, n) /\ Looks(f, g, n) /\ Contents(g, n) = Contents(f, n)
<1>1. Looks(f, g, n)
  BY DEF Agrees, Looks
<1>2. ASSUME NEW x, Solid(f, n, x) PROVE Solid(g, n, x)
  BY <1>2 DEF Agrees, Solid, Flushed, Written
<1>3. ASSUME NEW x PROVE x \in Contents(g, n) <=> x \in Contents(f, n)
  BY ContentsIs DEF Agrees
<1> QED BY <1>1, <1>2, <1>3 DEF Keeps, Stays

\* Tidy drops only what no name reaches.
LEMMA TidyAgrees ==
  ASSUME NEW f, Shape(f)
  PROVE  /\ Dir(Tidy(f)) /\ Tidy(f).vis = f.vis /\ Tidy(f).dur = f.dur
         /\ \A n \in Names : Agrees(f, Tidy(f), n)
<1> DEFINE g == Tidy(f)
<1>1. /\ g.vis = f.vis /\ g.dur = f.dur
      /\ g.data = [x \in Files |-> IF x \in Alive(f) THEN f.data[x] ELSE Hole]
      /\ g.safe = [x \in Files |-> IF x \in Alive(f) THEN f.safe[x] ELSE Hole]
      /\ g = [vis |-> g.vis, dur |-> g.dur, data |-> g.data, safe |-> g.safe]
  <2> DEFINE a == [x \in Files |-> IF x \in Alive(f) THEN f.data[x] ELSE Hole]
             b == [x \in Files |-> IF x \in Alive(f) THEN f.safe[x] ELSE Hole]
  <2>1. g = [f EXCEPT !.data = a, !.safe = b]
    BY DEF Tidy
  <2> HIDE DEF a, b, g
  <2>2. g = [vis |-> f.vis, dur |-> f.dur, data |-> a, safe |-> b]
    BY <2>1, Zenon DEF Shape
  <2> QED BY <2>2 DEF a, b
<1> HIDE DEF g
<1>2. Alive(g) = Alive(f)
  BY <1>1 DEF Alive
<1>3. Shape(g)
  BY <1>1 DEF Shape
<1>4. \A x \in Files : x \notin Alive(g) => g.data[x] = Hole /\ g.safe[x] = Hole
  BY <1>1, <1>2
<1>5. ASSUME NEW n \in Names PROVE Agrees(f, g, n)
  <2>1. \A x \in {f.vis[n], f.dur[n]} : x # 0 => x \in Alive(f) /\ x \in Files
    BY DEF Alive, Shape
  <2> QED BY <1>1, <2>1 DEF Agrees
<1> QED BY <1>1, <1>3, <1>4, <1>5 DEF Dir, g

\* remove_file: the name is gone for readers, and nothing else is.
LEMMA RmDoes ==
  ASSUME NEW f, Dir(f), NEW n \in Names
  PROVE  LET g == Apply(f, Rm(n)) IN
         /\ Dir(g) /\ g.vis[n] = 0 /\ g.dur = f.dur
         /\ Contents(g, n) \subseteq Contents(f, n)
         /\ \A m \in Names : m # n => Agrees(f, g, m)
<1> DEFINE h == [vis |-> [f.vis EXCEPT ![n] = 0], dur |-> f.dur, data |-> f.data, safe |-> f.safe]
<1>1. Apply(f, Rm(n)) = Tidy(h)
  <2>1. [f EXCEPT !.vis[n] = 0] = h
    BY DEF Dir, Shape
  <2>2. Rm(n).op = "rm" /\ Rm(n).at = n
    BY DEF Rm, Cmd
  <2> QED BY <2>1, <2>2 DEF Apply
<1>2. Shape(h)
  BY DEF Dir, Shape
<1>3. /\ h.vis[n] = 0 /\ h.dur = f.dur /\ h.data = f.data /\ h.safe = f.safe
      /\ \A m \in Names : m # n => Agrees(f, h, m)
  BY DEF Dir, Shape, Agrees
<1> HIDE DEF h
<1>4. Contents(h, n) \subseteq Contents(f, n)
  BY <1>3, ContentsIs
<1> DEFINE g == Tidy(h)
<1>5. /\ Dir(g) /\ g.vis = h.vis /\ g.dur = h.dur
      /\ \A m \in Names : Agrees(h, g, m)
  BY <1>2, TidyAgrees
<1>6. Contents(g, n) = Contents(h, n)
  BY <1>5, AgreesKeeps
<1>7. \A m \in Names : m # n => Agrees(f, g, m)
  BY <1>3, <1>5 DEF Agrees
<1> QED BY <1>1, <1>3, <1>4, <1>5, <1>6, <1>7

\* sync_directory: every entry is durable as it is.
LEMMA DirSyncDoes ==
  ASSUME NEW f, Dir(f), NEW n
  PROVE  LET g == Apply(f, DirSync(n)) IN
         /\ Dir(g) /\ g.vis = f.vis /\ g.dur = f.vis
         /\ \A m \in Names : /\ Keeps(f, g, m) /\ Looks(f, g, m)
                             /\ \A x : Flushed(f, m, x) => Solid(g, m, x)
<1> DEFINE h == [vis |-> f.vis, dur |-> f.vis, data |-> f.data, safe |-> f.safe]
<1>1. Apply(f, DirSync(n)) = Tidy(h)
  <2>1. [f EXCEPT !.dur = f.vis] = h
    BY DEF Dir, Shape
  <2>2. DirSync(n).op = "dirsync"
    BY DEF DirSync, Cmd
  <2> QED BY <2>1, <2>2 DEF Apply
<1>2. Shape(h)
  BY DEF Dir, Shape
<1> DEFINE g == Tidy(h)
<1>3. /\ Dir(g) /\ g.vis = h.vis /\ g.dur = h.dur
      /\ \A m \in Names : Agrees(h, g, m)
  BY <1>2, TidyAgrees
<1>4. ASSUME NEW m \in Names
      PROVE  /\ Keeps(f, g, m) /\ Looks(f, g, m)
             /\ \A x : Flushed(f, m, x) => Solid(g, m, x)
  <2>1. Agrees(h, g, m) /\ h.vis = f.vis /\ h.dur = f.vis /\ h.data = f.data /\ h.safe = f.safe
    BY <1>3
  <2> HIDE DEF h, g
  <2>2. Looks(f, g, m) /\ \A x : Flushed(f, m, x) => Solid(g, m, x)
    BY <2>1 DEF Looks, Flushed, Written, Solid, Agrees
  <2>3. \A x : Solid(f, m, x) => Solid(g, m, x)
    BY <2>2 DEF Solid
  <2>4. Contents(g, m) = Contents(h, m)
    BY <2>1, AgreesKeeps
  <2>5. Contents(h, m) \subseteq Contents(f, m)
    BY <2>1, ContentsIs
  <2> QED BY <2>2, <2>3, <2>4, <2>5 DEF Keeps, Stays
<1> QED BY <1>1, <1>3, <1>4

\* sync_all: what readers find in the file is durable.
LEMMA SyncDoes ==
  ASSUME NEW f, Dir(f), NEW n \in Names, f.vis[n] # 0
  PROVE  LET g == Apply(f, Sync(n)) IN
         /\ Dir(g) /\ g.vis = f.vis /\ g.dur = f.dur
         /\ \A m \in Names : Keeps(f, g, m) /\ Looks(f, g, m)
         /\ \A x : Written(f, n, x) => Flushed(g, n, x)
         /\ \A m \in Names : \A x : Flushed(f, m, x) => Flushed(g, m, x)
<1> DEFINE v == f.vis[n]
           h == [vis |-> f.vis, dur |-> f.dur, data |-> f.data,
                 safe |-> [f.safe EXCEPT ![v] = f.data[v]]]
           g == Tidy(h)
<1>1. Apply(f, Sync(n)) = Tidy(h)
  <2>1. [f EXCEPT !.safe[v] = f.data[v]] = h
    BY DEF Dir, Shape
  <2>2. Sync(n).op = "sync" /\ Sync(n).at = n
    BY DEF Sync, Cmd
  <2>3. Read(f, n) = f.data[v]
    BY DEF Read
  <2> QED BY <2>1, <2>2, <2>3 DEF Apply
<1>2. Shape(h)
  BY Zenon DEF Dir, Shape
<1>3. /\ Dir(g) /\ g.vis = h.vis /\ g.dur = h.dur
      /\ \A m \in Names : Agrees(h, g, m)
  BY <1>2, TidyAgrees
<1>4. /\ h.vis = f.vis /\ h.dur = f.dur /\ h.data = f.data /\ h.safe[v] = f.data[v]
      /\ \A x \in Files : x # v => h.safe[x] = f.safe[x]
      /\ \A m \in Names : f.vis[m] \in Files \cup {0} /\ f.dur[m] \in Files \cup {0}
  BY DEF Dir, Shape
<1> HIDE DEF h, g
<1>5. \A x : Written(f, n, x) => Flushed(g, n, x)
  BY <1>3, <1>4 DEF Written, Flushed, Agrees
<1>6. ASSUME NEW m \in Names, NEW x, Flushed(f, m, x) PROVE Flushed(g, m, x)
  <2>1. g.data[f.vis[m]] = x /\ g.safe[f.vis[m]] = h.safe[f.vis[m]]
    BY <1>3, <1>4, <1>6 DEF Flushed, Written, Agrees
  <2>2. h.safe[f.vis[m]] = x
    BY <1>4, <1>6 DEF Flushed, Written
  <2> QED BY <1>3, <1>4, <1>6, <2>1, <2>2 DEF Flushed, Written
<1>7. ASSUME NEW m \in Names PROVE Keeps(f, g, m) /\ Looks(f, g, m)
  <2>1. Looks(f, g, m)
    BY <1>3, <1>4 DEF Looks, Agrees
  <2>2. \A x : Solid(f, m, x) => Solid(g, m, x)
    BY <1>3, <1>4, <1>6 DEF Solid
  <2>3. Contents(g, m) = Contents(h, m)
    BY <1>3, AgreesKeeps
  <2>4. ASSUME NEW x, x \in Contents(h, m) PROVE x \in Contents(f, m)
    <3>1. /\ x \notin {Hole, Torn}
          /\ \E y \in {f.vis[m], f.dur[m]} : y # 0 /\ (x = f.data[y] \/ x = h.safe[y])
      BY <2>4, <1>4, ContentsIs
    <3>2. \A y \in {f.vis[m], f.dur[m]} : y # 0 => h.safe[y] = f.safe[y] \/ h.safe[y] = f.data[y]
      BY <1>4
    <3> QED BY <3>1, <3>2, ContentsIs
  <2> QED BY <2>1, <2>2, <2>3, <2>4 DEF Keeps, Stays
<1> QED BY <1>1, <1>3, <1>4, <1>5, <1>6, <1>7 DEF g

\* A file that can be created gets an identity no name reaches.
LEMMA NewFileIs ==
  ASSUME NEW f, Dir(f), Alive(f) # Files
  PROVE  NewFile(f) \in Files \ Alive(f)
<1>1. Alive(f) \subseteq Files
  BY DEF Alive, Dir, Shape
<1>2. \E x \in Files : x \notin Alive(f)
  BY <1>1
<1> QED BY <1>2 DEF NewFile

\* create_new and the write of d, on a name readers do not find: no other name
\* is touched, and under this one nothing but d is added.
LEMMA CreatedDoes ==
  ASSUME NEW f, Dir(f), NEW n \in Names, NEW d, f.vis[n] = 0, Alive(f) # Files
  PROVE  LET g == Tidy(Created(f, n, d)) IN
         /\ Dir(g) /\ g.dur = f.dur /\ Written(g, n, d)
         /\ \A m \in Names : m # n => Agrees(f, g, m)
         /\ Contents(g, n) \subseteq Contents(f, n) \cup {d}
         /\ f.dur[n] = 0 => Contents(g, n) \subseteq {d}
         /\ d \in {Hole, Torn} => Keeps(f, g, n)
<1> DEFINE v == NewFile(f)
           h == [vis |-> [f.vis EXCEPT ![n] = v], dur |-> f.dur,
                 data |-> [f.data EXCEPT ![v] = d], safe |-> f.safe]
           g == Tidy(h)
<1>1. v \in Files /\ v \notin Alive(f) /\ v # 0
  BY NewFileIs DEF Files
<1> HIDE DEF v
<1>2. Created(f, n, d) = h
  <2>1. Created(f, n, d) = [f EXCEPT !.vis[n] = v, !.data[v] = d]
    BY Zenon DEF Created, v
  <2>2. f = [vis |-> f.vis, dur |-> f.dur, data |-> f.data, safe |-> f.safe]
    BY Zenon DEF Dir, Shape
  <2> QED BY <2>1, <2>2, Zenon
<1>3. Shape(h)
  BY <1>1 DEF Dir, Shape
<1>4. /\ Dir(g) /\ g.vis = h.vis /\ g.dur = h.dur
      /\ \A m \in Names : Agrees(h, g, m)
  BY <1>3, TidyAgrees
<1>5. /\ h.vis[n] = v /\ h.dur = f.dur /\ h.data[v] = d /\ h.safe[v] = Hole
      /\ \A x \in Files : x # v => h.data[x] = f.data[x] /\ h.safe[x] = f.safe[x]
      /\ \A m \in Names : /\ f.vis[m] \in Files \cup {0} /\ f.dur[m] \in Files \cup {0}
                          /\ m # n => h.vis[m] = f.vis[m]
                          /\ f.vis[m] # v /\ f.dur[m] # v
  BY <1>1 DEF Dir, Shape, Alive
<1> HIDE DEF h, g
<1>6. Written(g, n, d)
  BY <1>1, <1>4, <1>5 DEF Written, Agrees
<1>7. ASSUME NEW m \in Names, m # n PROVE Agrees(f, g, m)
  <2>1. Agrees(f, h, m)
    BY <1>5, <1>7 DEF Agrees
  <2> QED BY <1>4, <2>1 DEF Agrees
<1>8. Contents(g, n) = Contents(h, n)
  BY <1>4, AgreesKeeps
<1>9. ASSUME NEW x, x \in Contents(h, n)
      PROVE  (x \in Contents(f, n) /\ f.dur[n] # 0) \/ (x = d /\ d \notin {Hole, Torn})
  <2>1. /\ x \notin {Hole, Torn}
        /\ \E y \in {v, f.dur[n]} : y # 0 /\ (x = h.data[y] \/ x = h.safe[y])
    BY <1>5, <1>9, ContentsIs
  <2>2. PICK y \in {v, f.dur[n]} : y # 0 /\ (x = h.data[y] \/ x = h.safe[y])
    BY <2>1
  <2>3. CASE y = v
    BY <1>5, <2>1, <2>2, <2>3
  <2>4. CASE y # v
    <3>1. y = f.dur[n] /\ f.dur[n] # 0 /\ (x = f.data[y] \/ x = f.safe[y])
      BY <1>5, <2>2, <2>4
    <3> QED BY <2>1, <3>1, ContentsIs
  <2> QED BY <2>3, <2>4
<1>10. ASSUME d \in {Hole, Torn} PROVE Keeps(f, g, n)
  BY <1>8, <1>9, <1>10 DEF Keeps, Stays, Solid, Flushed, Written
<1> QED BY <1>2, <1>4, <1>5, <1>6, <1>7, <1>8, <1>9, <1>10 DEF g

LEMMA NewDoes ==
  ASSUME NEW f, Dir(f), NEW n \in Names, NEW d, Possible(f, New(n, d))
  PROVE  LET g == Apply(f, New(n, d)) IN
         /\ Dir(g) /\ g.dur = f.dur /\ Written(g, n, d) /\ f.vis[n] = 0
         /\ \A m \in Names : m # n => Agrees(f, g, m)
         /\ Contents(g, n) \subseteq Contents(f, n) \cup {d}
         /\ f.dur[n] = 0 => Contents(g, n) \subseteq {d}
<1>1. New(n, d).op = "new" /\ New(n, d).at = n /\ New(n, d).with = d
  BY DEF New, Cmd
<1>2. f.vis[n] = 0 /\ Alive(f) # Files
  BY <1>1 DEF Possible, Exists
<1>3. Apply(f, New(n, d)) = Tidy(Created(f, n, d))
  BY <1>1 DEF Apply
<1> QED BY <1>2, <1>3, CreatedDoes

\* A call that fails leaves the directory, or a new file with nothing in it.
LEMMA FailedKeeps ==
  ASSUME NEW f, Dir(f), NEW c, c.at \in Names, NEW g \in Failed(f, c)
  PROVE  /\ Shape(g)
         /\ \A n \in Names :
              /\ Keeps(f, g, n)
              /\ \/ Looks(f, g, n)
                 \/ f.vis[n] = 0 /\ \E x \in {Hole, Torn} : Written(g, n, x)
<1>1. CASE g = f
  <2>1. \A n \in Names : Agrees(f, f, n)
    BY DEF Agrees
  <2> QED BY <1>1, <2>1, AgreesKeeps DEF Dir
<1>2. CASE g # f
  <2>1. c.op = "new" /\ Possible(f, c) /\ \E d \in {Hole, Torn} : g = Created(f, c.at, d)
    BY <1>2 DEF Failed
  <2>2. f.vis[c.at] = 0 /\ Alive(f) # Files
    BY <2>1 DEF Possible, Exists
  <2>3. PICK d \in {Hole, Torn} : g = Created(f, c.at, d)
    BY <2>1
  <2>4. Shape(g)
    <3>1. NewFile(f) \in Files
      BY <2>2, NewFileIs
    <3> QED BY <2>3, <3>1, Zenon DEF Dir, Shape, Created
  <2>5. /\ \A m \in Names : m # c.at => Agrees(f, Tidy(g), m)
        /\ Keeps(f, Tidy(g), c.at) /\ Written(Tidy(g), c.at, d)
    BY <2>2, <2>3, CreatedDoes
  <2>6. \A m \in Names : Agrees(Tidy(g), g, m)
    BY <2>4, TidyAgrees DEF Agrees
  <2>7. \A m \in Names : m # c.at => Agrees(f, g, m)
    BY <2>5, <2>6 DEF Agrees
  <2>8. Keeps(f, g, c.at) /\ Written(g, c.at, d)
    <3>1. Keeps(Tidy(g), g, c.at) /\ Looks(Tidy(g), g, c.at)
      BY <2>6, AgreesKeeps
    <3> QED BY <2>5, <3>1 DEF Keeps, Stays, Looks, Written
  <2> QED BY <2>2, <2>4, <2>7, <2>8, AgreesKeeps
<1> QED BY <1>1, <1>2

LEMMA FailedIsDir ==
  ASSUME NEW f, Dir(f), NEW c, c.at \in Names, NEW g \in Failed(f, c)
  PROVE  Dir(g)
<1> DEFINE n == c.at
           v == NewFile(f)
<1>1. CASE g # f
  <2>1. c.op = "new" /\ Possible(f, c) /\ \E d \in {Hole, Torn} : g = Created(f, c.at, d)
    BY <1>1 DEF Failed
  <2>2. f.vis[n] = 0 /\ Alive(f) # Files
    BY <2>1 DEF Possible, Exists
  <2>3. PICK d \in {Hole, Torn} : g = Created(f, n, d)
    BY <2>1
  <2>4. v \in Files /\ v \notin Alive(f) /\ v # 0
    BY <2>2, NewFileIs DEF Files
  <2>5. g = [vis |-> [f.vis EXCEPT ![n] = v], dur |-> f.dur,
             data |-> [f.data EXCEPT ![v] = d], safe |-> f.safe]
    <3>1. g = [f EXCEPT !.vis[n] = v, !.data[v] = d]
      BY Zenon, <2>3 DEF Created
    <3>2. f = [vis |-> f.vis, dur |-> f.dur, data |-> f.data, safe |-> f.safe]
      BY Zenon DEF Dir, Shape
    <3> HIDE DEF v, n
    <3> QED BY <3>1, <3>2, Zenon
  <2> HIDE DEF v
  <2>6. Shape(g)
    BY <2>4, <2>5, Zenon DEF Dir, Shape
  <2>7. ASSUME NEW x \in Files, x \notin Alive(g)
        PROVE  g.data[x] = Hole /\ g.safe[x] = Hole
    <3>1. x # v
      BY <2>4, <2>5, <2>7 DEF Alive, Dir, Shape
    <3>2. x \notin Alive(f)
      <4>1. \A m \in Names : m # n => g.vis[m] = f.vis[m]
        BY <2>5 DEF Dir, Shape
      <4>2. g.dur = f.dur /\ x # 0
        BY <2>5 DEF Files
      <4> QED BY <2>2, <2>7, <4>1, <4>2 DEF Alive
    <3>3. f.data[x] = Hole /\ f.safe[x] = Hole
      BY <3>2 DEF Dir
    <3> QED BY <2>5, <3>1, <3>3 DEF Dir, Shape
  <2> QED BY <2>6, <2>7 DEF Dir
<1> QED BY <1>1

\* A crash: every name keeps one of its two files or entries, every file one of
\* its two contents or a torn one.
LEMMA CrashedNames ==
  ASSUME NEW f, Dir(f), NEW d \in SurvivingDirs(f)
  PROVE  /\ d \in [Names -> Files \cup {0}]
         /\ \A n \in Names : d[n] = f.vis[n] \/ d[n] = f.dur[n]
<1> DEFINE mixed(s) == [n \in Names |-> IF n \in s THEN f.vis[n] ELSE f.dur[n]]
<1>1. PICK s : d = mixed(s)
  BY Zenon DEF SurvivingDirs
<1>2. \A n \in Names : f.vis[n] \in Files \cup {0} /\ f.dur[n] \in Files \cup {0}
  BY DEF Dir, Shape
<1> QED BY <1>1, <1>2

LEMMA CrashedContents ==
  ASSUME NEW f, Dir(f), NEW c \in Survivors(f.safe, f.data)
  PROVE  /\ c = [x \in Files |-> c[x]]
         /\ \A x \in Files : /\ c[x] \in {f.safe[x], f.data[x], Torn}
                             /\ f.safe[x] = f.data[x] => c[x] = f.safe[x]
<1>1. PICK fate : c = AfterCrash(f.safe, f.data, fate)
  BY Zenon DEF Survivors
<1>2. DOMAIN f.safe = Files
  BY DEF Dir, Shape
<1>3. c = [x \in Files |-> IF x \notin Unsynced(f.safe, f.data) THEN f.safe[x]
                          ELSE IF fate[x] = "old" THEN f.safe[x]
                          ELSE IF fate[x] = "new" THEN f.data[x] ELSE Torn]
  BY Zenon, <1>1, <1>2 DEF AfterCrash
<1>4. \A x \in Files : x \in Unsynced(f.safe, f.data) <=> f.safe[x] # f.data[x]
  BY <1>2 DEF Unsynced
<1> QED BY <1>3, <1>4

LEMMA CrashKeeps ==
  ASSUME NEW f, Dir(f), NEW g \in Crashed(f)
  PROVE  /\ Dir(g) /\ g.vis = g.dur /\ g.data = g.safe
         /\ \A n \in Names : Keeps(f, g, n)
<1>1. PICK d \in SurvivingDirs(f), c \in Survivors(f.safe, f.data) :
        g = Tidy([vis |-> d, dur |-> d, data |-> c, safe |-> c])
  BY DEF Crashed
<1> DEFINE h == [vis |-> d, dur |-> d, data |-> c, safe |-> c]
<1>2. Shape(h)
  BY CrashedNames, CrashedContents DEF Shape
<1>3. /\ Dir(g) /\ g.vis = h.vis /\ g.dur = h.dur
      /\ \A m \in Names : Agrees(h, g, m)
  BY <1>1, <1>2, TidyAgrees
<1>4. g.data = g.safe
  <2>1. /\ g.data = [x \in Files |-> IF x \in Alive(h) THEN h.data[x] ELSE Hole]
        /\ g.safe = [x \in Files |-> IF x \in Alive(h) THEN h.safe[x] ELSE Hole]
    <3> DEFINE a == [x \in Files |-> IF x \in Alive(h) THEN h.data[x] ELSE Hole]
               b == [x \in Files |-> IF x \in Alive(h) THEN h.safe[x] ELSE Hole]
    <3>1. g = [h EXCEPT !.data = a, !.safe = b]
      BY <1>1 DEF Tidy
    <3> HIDE DEF a, b
    <3>2. g.data = a /\ g.safe = b
      BY <3>1
    <3> QED BY <3>2 DEF a, b
  <2> QED BY <2>1
<1>5. ASSUME NEW n \in Names PROVE Keeps(f, g, n)
  <2>1. /\ h.vis = d /\ h.dur = d /\ h.data = c /\ h.safe = c
        /\ f.vis[n] \in Files \cup {0} /\ f.dur[n] \in Files \cup {0}
    BY DEF Dir, Shape
  <2> HIDE DEF h
  <2>2. ASSUME NEW x, Solid(f, n, x) PROVE Solid(h, n, x)
    <3>1. d[n] = f.vis[n] /\ f.vis[n] \in Files
      BY <2>1, <2>2, CrashedNames DEF Solid, Flushed, Written
    <3>2. c[f.vis[n]] = x
      BY <3>1, <2>2, CrashedContents DEF Solid, Flushed, Written
    <3> QED BY <2>1, <2>2, <3>1, <3>2 DEF Solid, Flushed, Written
  <2>3. ASSUME NEW x, x \in Contents(h, n) PROVE x \in Contents(f, n)
    <3>1. x \notin {Hole, Torn} /\ d[n] # 0 /\ x = c[d[n]]
      BY <2>1, <2>3, ContentsIs
    <3>2. d[n] \in {f.vis[n], f.dur[n]} /\ d[n] \in Files
      BY <2>1, <3>1, CrashedNames
    <3>3. x = f.safe[d[n]] \/ x = f.data[d[n]]
      BY <3>1, <3>2, CrashedContents
    <3> QED BY <3>1, <3>2, <3>3, ContentsIs
  <2>4. Keeps(h, g, n)
    BY <1>3, AgreesKeeps
  <2> QED BY <2>2, <2>3, <2>4 DEF Keeps, Stays
<1> QED BY <1>3, <1>4, <1>5

-----------------------------------------------------------------------------
\* The calls that remain after the first one of a short sequence.
LEMMA Unqueue1 ==
  ASSUME NEW a
  PROVE  Head(<<a>>) = a /\ Tail(<<a>>) = <<>>
OBVIOUS

LEMMA Unqueue2 ==
  ASSUME NEW a, NEW b
  PROVE  Head(<<a, b>>) = a /\ Tail(<<a, b>>) = <<b>>
OBVIOUS

LEMMA Unqueue3 ==
  ASSUME NEW a, NEW b, NEW c
  PROVE  Head(<<a, b, c>>) = a /\ Tail(<<a, b, c>>) = <<b, c>>
OBVIOUS

LEMMA Unqueue4 ==
  ASSUME NEW a, NEW b, NEW c, NEW d
  PROVE  Head(<<a, b, c, d>>) = a /\ Tail(<<a, b, c, d>>) = <<b, c, d>>
OBVIOUS

LEMMA Unqueue5 ==
  ASSUME NEW a, NEW b, NEW c, NEW d, NEW e
  PROVE  Head(<<a, b, c, d, e>>) = a /\ Tail(<<a, b, c, d, e>>) = <<b, c, d, e>>
OBVIOUS

LEMMA Unqueue6 ==
  ASSUME NEW a, NEW b, NEW c, NEW d, NEW e, NEW f
  PROVE  Head(<<a, b, c, d, e, f>>) = a /\ Tail(<<a, b, c, d, e, f>>) = <<b, c, d, e, f>>
OBVIOUS

\* Two sequences of calls, one after the other.
LEMMA JoinIs ==
  ASSUME NEW S, NEW s \in Seq(S), NEW t \in Seq(S)
  PROVE  /\ s \o t \in Seq(S) /\ Len(s \o t) = Len(s) + Len(t)
         /\ \A i \in 1..Len(s) + Len(t) : (s \o t)[i] = IF i <= Len(s) THEN s[i] ELSE t[i - Len(s)]
OBVIOUS

LEMMA SameSequence ==
  ASSUME NEW S, NEW s \in Seq(S), NEW t \in Seq(S), Len(s) = Len(t),
         \A i \in 1..Len(s) : s[i] = t[i]
  PROVE  s = t
OBVIOUS

LEMMA JoinShort ==
  ASSUME NEW a, NEW b, NEW c
  PROVE  /\ <<>> \o <<a>> = <<a>> /\ <<>> \o <<a, b>> = <<a, b>>
         /\ <<a>> \o <<b>> = <<a, b>> /\ <<a>> \o <<b, c>> = <<a, b, c>>
<1> DEFINE S == {a, b, c}
           s == <<a>>
<1>1. <<>> \o <<a>> = <<a>>
  OBVIOUS
<1>2. <<>> \o <<a, b>> = <<a, b>>
  OBVIOUS
<1>3. <<a>> \o <<b>> = <<a, b>>
  <2> DEFINE t == <<b>>
             u == <<a, b>>
  <2>1. /\ s \in Seq(S) /\ t \in Seq(S) /\ u \in Seq(S) /\ Len(s) = 1 /\ Len(t) = 1 /\ Len(u) = 2
        /\ s[1] = a /\ t[1] = b /\ u[1] = a /\ u[2] = b
    OBVIOUS
  <2> HIDE DEF S, s, t, u
  <2>2. /\ s \o t \in Seq(S) /\ Len(s \o t) = Len(s) + Len(t)
        /\ \A i \in 1..Len(s) + Len(t) : (s \o t)[i] = IF i <= Len(s) THEN s[i] ELSE t[i - Len(s)]
    BY Zenon, <2>1, JoinIs
  <2>3. \A i \in 1..2 : i = 1 \/ i = 2
    OBVIOUS
  <2>4. Len(s \o t) = 2 /\ \A i \in 1..2 : (s \o t)[i] = u[i]
    BY <2>1, <2>2, <2>3
  <2>5. s \o t = u
    BY Zenon, <2>1, <2>2, <2>4, SameSequence
  <2> QED BY <2>5 DEF s, t, u
<1>4. <<a>> \o <<b, c>> = <<a, b, c>>
  <2> DEFINE t == <<b, c>>
             u == <<a, b, c>>
  <2>1. /\ s \in Seq(S) /\ t \in Seq(S) /\ u \in Seq(S) /\ Len(s) = 1 /\ Len(t) = 2 /\ Len(u) = 3
        /\ s[1] = a /\ t[1] = b /\ t[2] = c /\ u[1] = a /\ u[2] = b /\ u[3] = c
    OBVIOUS
  <2> HIDE DEF S, s, t, u
  <2>2. /\ s \o t \in Seq(S) /\ Len(s \o t) = Len(s) + Len(t)
        /\ \A i \in 1..Len(s) + Len(t) : (s \o t)[i] = IF i <= Len(s) THEN s[i] ELSE t[i - Len(s)]
    BY Zenon, <2>1, JoinIs
  <2>3. \A i \in 1..3 : i = 1 \/ i = 2 \/ i = 3
    OBVIOUS
  <2>4. Len(s \o t) = 3 /\ \A i \in 1..3 : (s \o t)[i] = u[i]
    BY <2>1, <2>2, <2>3
  <2>5. s \o t = u
    BY Zenon, <2>1, <2>2, <2>4, SameSequence
  <2> QED BY <2>5 DEF s, t, u
<1> QED BY <1>1, <1>2, <1>3, <1>4

LEMMA JoinThree ==
  ASSUME NEW a, NEW b, NEW c, NEW d, NEW e, NEW f
  PROVE  <<a, b, c>> \o <<d, e, f>> = <<a, b, c, d, e, f>>
<1> DEFINE S == {a, b, c, d, e, f}
           s == <<a, b, c>>
           t == <<d, e, f>>
           u == <<a, b, c, d, e, f>>
<1>1. s \in Seq(S) /\ t \in Seq(S) /\ u \in Seq(S) /\ Len(s) = 3 /\ Len(t) = 3 /\ Len(u) = 6
  OBVIOUS
<1>2. /\ s[1] = a /\ s[2] = b /\ s[3] = c /\ t[1] = d /\ t[2] = e /\ t[3] = f
      /\ u[1] = a /\ u[2] = b /\ u[3] = c /\ u[4] = d /\ u[5] = e /\ u[6] = f
  OBVIOUS
<1> HIDE DEF S, s, t, u
<1>3. /\ s \o t \in Seq(S) /\ Len(s \o t) = 6
      /\ \A i \in 1..6 : (s \o t)[i] = IF i <= 3 THEN s[i] ELSE t[i - 3]
  <2>1. /\ s \o t \in Seq(S) /\ Len(s \o t) = Len(s) + Len(t)
        /\ \A i \in 1..Len(s) + Len(t) :
             (s \o t)[i] = IF i <= Len(s) THEN s[i] ELSE t[i - Len(s)]
    BY Zenon, <1>1, JoinIs
  <2>2. Len(s) + Len(t) = 6
    BY <1>1
  <2> QED BY Zenon, <1>1, <2>1, <2>2
<1> DEFINE w == s \o t
<1> HIDE DEF w
<1>4. \A i \in 1..6 : w[i] = IF i <= 3 THEN s[i] ELSE t[i - 3]
  BY Zenon, <1>3 DEF w
<1>5. /\ w[1] = s[1] /\ w[2] = s[2] /\ w[3] = s[3]
      /\ w[4] = t[1] /\ w[5] = t[2] /\ w[6] = t[3]
  BY <1>4
<1>6. \A i \in 1..6 : i = 1 \/ i = 2 \/ i = 3 \/ i = 4 \/ i = 5 \/ i = 6
  OBVIOUS
<1>7. \A i \in 1..Len(s \o t) : (s \o t)[i] = u[i]
  BY <1>2, <1>3, <1>5, <1>6, Zenon DEF w
<1>8. s \o t = u
  BY Zenon, <1>1, <1>3, <1>7, SameSequence
<1> QED BY <1>8 DEF s, t, u

LEMMA JoinOne ==
  ASSUME NEW a, NEW b, NEW c, NEW d, NEW e
  PROVE  <<a>> \o <<b, c, d, e>> = <<a, b, c, d, e>>
<1> DEFINE S == {a, b, c, d, e}
           s == <<a>>
           t == <<b, c, d, e>>
           u == <<a, b, c, d, e>>
<1>1. s \in Seq(S) /\ t \in Seq(S) /\ u \in Seq(S) /\ Len(s) = 1 /\ Len(t) = 4 /\ Len(u) = 5
  OBVIOUS
<1>2. /\ s[1] = a /\ t[1] = b /\ t[2] = c /\ t[3] = d /\ t[4] = e
      /\ u[1] = a /\ u[2] = b /\ u[3] = c /\ u[4] = d /\ u[5] = e
  OBVIOUS
<1> HIDE DEF S, s, t, u
<1>3. /\ s \o t \in Seq(S) /\ Len(s \o t) = 5
      /\ \A i \in 1..5 : (s \o t)[i] = IF i <= 1 THEN s[i] ELSE t[i - 1]
  <2>1. /\ s \o t \in Seq(S) /\ Len(s \o t) = Len(s) + Len(t)
        /\ \A i \in 1..Len(s) + Len(t) :
             (s \o t)[i] = IF i <= Len(s) THEN s[i] ELSE t[i - Len(s)]
    BY Zenon, <1>1, JoinIs
  <2>2. Len(s) + Len(t) = 5
    BY <1>1
  <2> QED BY Zenon, <1>1, <2>1, <2>2
<1> DEFINE w == s \o t
<1> HIDE DEF w
<1>4. \A i \in 1..5 : w[i] = IF i <= 1 THEN s[i] ELSE t[i - 1]
  BY Zenon, <1>3 DEF w
<1>5. /\ w[1] = s[1] /\ w[2] = t[1]
      /\ w[3] = t[2] /\ w[4] = t[3] /\ w[5] = t[4]
  BY <1>4
<1>6. \A i \in 1..5 : i = 1 \/ i = 2 \/ i = 3 \/ i = 4 \/ i = 5
  OBVIOUS
<1>7. \A i \in 1..Len(s \o t) : (s \o t)[i] = u[i]
  BY <1>2, <1>3, <1>5, <1>6, Zenon DEF w
<1>8. s \o t = u
  BY Zenon, <1>1, <1>3, <1>7, SameSequence
<1> QED BY <1>8 DEF s, t, u

LEMMA JoinNone ==
  ASSUME NEW a, NEW b, NEW c, NEW d
  PROVE  <<>> \o <<a, b, c, d>> = <<a, b, c, d>>
OBVIOUS
=============================================================================
