--------------------------- MODULE ServicesProofs ---------------------------
(* What runs beside the UI thread, for every value of the constants: the     *)
(* messages of the panel (AmeLink), the watched folder (FolderWatch), the    *)
(* pipe to the panels (PanelLink) and the sessions of the engine             *)
(* (EngineRestart).                                                          *)
EXTENDS EngineRestart, AmeLink, FolderWatch, PanelLink, SequenceTheorems, FiniteSetTheorems, TLAPS

Pairs == [Positions \cup {Latest} -> Paths \cup {None}]

(* The panel.  That a failure is never put down to another job rests on what *)
(* the messages on their way say together.  The engine keeps one entry for   *)
(* the last start and one for each position; Sets says which entry a message *)
(* overwrites.  An entry Holds a path for the i-th message if the last of    *)
(* the messages before it that sets the entry is about that path or, with    *)
(* none on its way, the entry has the path (or nothing, since its job was    *)
(* removed).  A status that was heard needs the last start (Fair), and from  *)
(* then on the item's position has its path.                                 *)
Entries == Positions \cup {Latest}
Sets(m, r) == IF r = Latest THEN m.type = "encodingStarted"
                            ELSE m.type = "itemEncoding" /\ m.at = r
About(m, r, x) == m.path = x /\ (r # Latest => m.heard)
LastSet(s, k, i, r) == Sets(s[k], r) /\ \A j \in (k + 1) .. (i - 1) : ~Sets(s[j], r)
Holds(s, p, r, x, i) ==
    /\ \A k \in 1 .. (i - 1) : LastSet(s, k, i, r) => About(s[k], r, x)
    /\ (\A k \in 1 .. (i - 1) : ~Sets(s[k], r)) => p[r] = x \/ (r # Latest /\ p[r] = None)
Heard(m, type) == m.type = type /\ m.heard
Entry(e) == IF e.told THEN e.at ELSE Latest
Fair(s, p, E) ==
    /\ \A i \in 1 .. Len(s) : Heard(s[i], "itemEncoding") => Holds(s, p, Latest, s[i].path, i)
    /\ \A i \in 1 .. Len(s) : Heard(s[i], "itemFailed") => Holds(s, p, s[i].at, s[i].path, i)
    /\ \A e \in E : e.heard => Holds(s, p, Entry(e), e.path, Len(s) + 1)
Apart(E) == \A e, f \in E : e.at = f.at => e = f

PanelInv == /\ AmeTypeOK /\ Fair(line, pairs, encoding) /\ Apart(encoding)
            /\ known \cap Ignored = {} /\ PanelIsBelieved

\* One message more leaves what the others found.
LEMMA Before ==
  ASSUME NEW s \in Seq(Message), NEW m \in Message, NEW p, NEW r, NEW x,
         NEW i \in 1 .. (Len(s) + 1), Holds(s, p, r, x, i)
  PROVE  Holds(Append(s, m), p, r, x, i)
<1> DEFINE t == Append(s, m)
<1>1. Len(s) \in Nat /\ \A k \in 1 .. Len(s) : t[k] = s[k]
  OBVIOUS
<1> HIDE DEF t
<1>2. \A k \in 1 .. (i - 1) : k \in 1 .. Len(s) /\ t[k] = s[k]
  BY <1>1
<1>3. ASSUME NEW k \in 1 .. (i - 1), LastSet(t, k, i, r) PROVE About(t[k], r, x)
  <2>1. \A j \in (k + 1) .. (i - 1) : t[j] = s[j]
    BY <1>1, <1>2
  <2>2. LastSet(s, k, i, r)
    BY <1>2, <1>3, <2>1 DEF LastSet
  <2> QED
    BY <1>2, <2>2 DEF Holds
<1>4. ASSUME \A k \in 1 .. (i - 1) : ~Sets(t[k], r)
      PROVE  p[r] = x \/ (r # Latest /\ p[r] = None)
  BY <1>2, <1>4 DEF Holds
<1>5. Holds(t, p, r, x, i)
  BY <1>3, <1>4 DEF Holds
<1> QED
  BY <1>5 DEF t

\* What comes after it finds the message, or what it would have found.
LEMMA After ==
  ASSUME NEW s \in Seq(Message), NEW m \in Message, NEW p, NEW r, NEW x,
         \/ Sets(m, r) /\ About(m, r, x)
         \/ ~Sets(m, r) /\ Holds(s, p, r, x, Len(s) + 1)
  PROVE  Holds(Append(s, m), p, r, x, Len(s) + 2)
<1> DEFINE t == Append(s, m)
           n == Len(s) + 1
<1>1. n \in Nat /\ n > 0 /\ t[n] = m /\ \A k \in 1 .. (n - 1) : t[k] = s[k]
  OBVIOUS
<1>2. Len(s) + 2 = n + 1 /\ Len(s) + 1 = n /\ Len(s) \in Nat
  OBVIOUS
<1> HIDE DEF t, n
<1>3. \A k \in 1 .. (n + 1 - 1) : k \in 1 .. (n - 1) \/ k = n
  BY <1>1
<1>4. CASE Sets(m, r) /\ About(m, r, x)
  <2>1. n \in 1 .. (n + 1 - 1) /\ Sets(t[n], r)
    BY <1>1, <1>4
  <2>2. ASSUME NEW k \in 1 .. (n + 1 - 1), LastSet(t, k, n + 1, r) PROVE k = n
    <3>1. k # n => n \in (k + 1) .. (n + 1 - 1)
      BY <1>1
    <3> QED
      BY <2>1, <2>2, <3>1 DEF LastSet
  <2>3. Holds(t, p, r, x, n + 1)
    BY <1>1, <1>4, <2>1, <2>2 DEF Holds
  <2> QED
    BY <1>2, <2>3 DEF t
<1>5. CASE ~Sets(m, r) /\ Holds(s, p, r, x, n)
  <2>1. ASSUME NEW k \in 1 .. (n + 1 - 1), LastSet(t, k, n + 1, r) PROVE About(t[k], r, x)
    <3>1. k \in 1 .. (n - 1) /\ t[k] = s[k]
      BY <1>1, <1>3, <1>5, <2>1 DEF LastSet
    <3>2. \A j \in (k + 1) .. (n - 1) : j \in (k + 1) .. (n + 1 - 1) /\ t[j] = s[j]
      BY <1>1
    <3>3. LastSet(s, k, n, r)
      BY <1>1, <2>1, <3>1, <3>2 DEF LastSet
    <3> QED
      BY <1>5, <3>1, <3>3 DEF Holds
  <2>2. ASSUME \A k \in 1 .. (n + 1 - 1) : ~Sets(t[k], r)
        PROVE  p[r] = x \/ (r # Latest /\ p[r] = None)
    <3>1. \A k \in 1 .. (n - 1) : k \in 1 .. (n + 1 - 1) /\ ~Sets(s[k], r)
      BY <1>1, <2>2
    <3> QED
      BY <1>5, <3>1 DEF Holds
  <2>3. 1 .. (n + 1 - 1) = 1 .. ((n + 1) - 1)
    BY <1>1
  <2>5. Holds(t, p, r, x, n + 1)
    BY <2>1, <2>2, <2>3 DEF Holds
  <2> QED
    BY <1>2, <2>5 DEF t
<1> QED
  BY <1>2, <1>4, <1>5

\* What a message says is so; F are the items from then on.
Timely(s, p, m, F) ==
    /\ Heard(m, "itemEncoding") => Holds(s, p, Latest, m.path, Len(s) + 1)
    /\ Heard(m, "itemFailed") => Holds(s, p, m.at, m.path, Len(s) + 1)
    /\ \A e \in F : e.heard =>
           \/ Sets(m, Entry(e)) /\ About(m, Entry(e), e.path)
           \/ ~Sets(m, Entry(e)) /\ Holds(s, p, Entry(e), e.path, Len(s) + 1)

LEMMA MessageKeeps ==
  ASSUME NEW s \in Seq(Message), NEW p, NEW E, NEW F, NEW m \in Message, Fair(s, p, E),
         Timely(s, p, m, F)
  PROVE  Fair(Append(s, m), p, F) /\ Append(s, m) \in Seq(Message)
<1> DEFINE t == Append(s, m)
<1>1. /\ t \in Seq(Message) /\ Len(t) = Len(s) + 1 /\ t[Len(s) + 1] = m /\ Len(s) \in Nat
      /\ \A i \in 1 .. Len(s) : t[i] = s[i]
  OBVIOUS
<1>2. ASSUME NEW r, NEW x, NEW i \in 1 .. (Len(s) + 1), Holds(s, p, r, x, i) PROVE Holds(t, p, r, x, i)
  BY <1>2, Before
<1>3. ASSUME NEW e \in F, e.heard PROVE Holds(t, p, Entry(e), e.path, Len(s) + 2)
  <2>1. \/ Sets(m, Entry(e)) /\ About(m, Entry(e), e.path)
        \/ ~Sets(m, Entry(e)) /\ Holds(s, p, Entry(e), e.path, Len(s) + 1)
    BY <1>3 DEF Timely
  <2> QED
    BY <2>1, After
<1>a. /\ Heard(m, "itemEncoding") => Holds(s, p, Latest, m.path, Len(s) + 1)
      /\ Heard(m, "itemFailed") => Holds(s, p, m.at, m.path, Len(s) + 1)
  BY DEF Timely
<1> HIDE DEF t
<1>4. ASSUME NEW i \in 1 .. Len(t) PROVE i \in 1 .. Len(s) \/ i = Len(s) + 1
  BY <1>1
<1>5. ASSUME NEW i \in 1 .. Len(t), Heard(t[i], "itemEncoding") PROVE Holds(t, p, Latest, t[i].path, i)
  <2>1. Holds(s, p, Latest, t[i].path, i) /\ i \in 1 .. (Len(s) + 1)
    BY <1>1, <1>4, <1>5, <1>a DEF Fair
  <2> QED
    BY <1>2, <2>1
<1>6. ASSUME NEW i \in 1 .. Len(t), Heard(t[i], "itemFailed") PROVE Holds(t, p, t[i].at, t[i].path, i)
  <2>1. Holds(s, p, t[i].at, t[i].path, i) /\ i \in 1 .. (Len(s) + 1)
    BY <1>1, <1>4, <1>6, <1>a DEF Fair
  <2> QED
    BY <1>2, <2>1
<1>7. Len(t) + 1 = Len(s) + 2
  BY <1>1
<1>8. Fair(t, p, F)
  BY <1>3, <1>5, <1>6, <1>7 DEF Fair
<1> QED
  BY <1>1, <1>8 DEF t

\* A pair is forgotten with the job.
LEMMA Forgotten ==
  ASSUME NEW s \in Seq(Message), NEW p \in Pairs, NEW q \in Pairs, NEW E \in SUBSET Item,
         Fair(s, p, E), q[Latest] = p[Latest], \A at \in Positions : q[at] \in {p[at], None}
  PROVE  Fair(s, q, E)
<1>1. \A i \in 1 .. Len(s) : s[i].at \in Entries
  <2>1. \A i \in 1 .. Len(s) : s[i] \in Message
    OBVIOUS
  <2> QED
    BY <2>1 DEF Message, Entries
<1>2. \A e \in E : Entry(e) \in Entries
  BY DEF Item, Entry, Entries
<1>3. ASSUME NEW r \in Entries, NEW x, NEW i, Holds(s, p, r, x, i) PROVE Holds(s, q, r, x, i)
  <2>1. q[r] = p[r] \/ (r # Latest /\ q[r] = None)
    BY AmeAssumption DEF Entries
  <2> QED
    BY <1>3, <2>1 DEF Holds
<1>4. Latest \in Entries
  BY DEF Entries
<1> QED
  BY <1>1, <1>2, <1>3, <1>4 DEF Fair

-----------------------------------------------------------------------------
(* The engine takes the first message *)

\* What the engine's entries are after it.
Applied(m, p, q) ==
    /\ m.type = "encodingStarted" => q[Latest] = m.path
    /\ m.type # "encodingStarted" => q[Latest] = p[Latest]
    /\ m.type = "itemEncoding" /\ p[Latest] # None => q[m.at] = p[Latest]
    /\ \A at \in Positions : ~Sets(m, at) => q[at] \in {p[at], None}

LEMMA OneTaken ==
  ASSUME NEW s \in Seq(Message), s # <<>>, NEW p \in Pairs, NEW q \in Pairs,
         NEW E \in SUBSET Item, Fair(s, p, E), Applied(s[1], p, q)
  PROVE  Fair(Tail(s), q, E) /\ Tail(s) \in Seq(Message)
<1> DEFINE t == Tail(s)
<1>1. /\ t \in Seq(Message) /\ Len(t) = Len(s) - 1 /\ Len(s) \in Nat /\ Len(s) > 0
      /\ \A i \in 1 .. Len(t) : t[i] = s[i + 1]
  OBVIOUS
<1>2. /\ \A i \in 1 .. Len(t) : i + 1 \in 1 .. Len(s)
      /\ \A i \in 1 .. Len(s) : s[i] \in Message
      /\ 1 \in 1 .. Len(s)
  BY <1>1
<1> HIDE DEF t
<1>3. ASSUME NEW r \in Entries, NEW x, Sets(s[1], r), About(s[1], r, x)
      PROVE  q[r] = x
  <2>1. CASE r = Latest
    BY <1>3, <2>1 DEF Applied, Sets, About
  <2>2. CASE r # Latest
    <3>1. s[1].type = "itemEncoding" /\ s[1].at = r /\ s[1].heard /\ s[1].path = x
      BY <1>3, <2>2 DEF Sets, About
    <3>2. Holds(s, p, Latest, x, 1) /\ x \in Paths
      BY <1>2, <3>1 DEF Fair, Heard, Message
    <3>3. p[Latest] = x /\ x # None
      BY <3>2, AmeAssumption DEF Holds
    <3> QED
      BY <3>1, <3>3 DEF Applied
  <2> QED
    BY <2>1, <2>2
<1>4. ASSUME NEW r \in Entries, ~Sets(s[1], r) PROVE q[r] = p[r] \/ (r # Latest /\ q[r] = None)
  <2>1. CASE r = Latest
    BY <1>4, <2>1 DEF Applied, Sets
  <2>2. CASE r # Latest
    BY <1>4, <2>2 DEF Applied, Entries
  <2> QED
    BY <2>1, <2>2
<1>5. ASSUME NEW r \in Entries, NEW x, NEW i \in 1 .. (Len(t) + 1), Holds(s, p, r, x, i + 1)
      PROVE  Holds(t, q, r, x, i)
  <2>1. \A k \in 1 .. (i - 1) : k + 1 \in 1 .. (i + 1 - 1) /\ t[k] = s[k + 1]
    BY <1>1
  <2>2. ASSUME NEW k \in 1 .. (i - 1), LastSet(t, k, i, r) PROVE About(t[k], r, x)
    <3>1. ASSUME NEW j \in (k + 1 + 1) .. (i + 1 - 1) PROVE ~Sets(s[j], r)
      <4>1. j - 1 \in (k + 1) .. (i - 1) /\ j - 1 \in 1 .. (i - 1) /\ j - 1 + 1 = j
        BY <1>1
      <4>2. t[j - 1] = s[j]
        BY <2>1, <4>1
      <4> QED
        BY <2>2, <4>1, <4>2 DEF LastSet
    <3>2. LastSet(s, k + 1, i + 1, r)
      BY <2>1, <2>2, <3>1 DEF LastSet
    <3> QED
      BY <1>5, <2>1, <3>2 DEF Holds
  <2>3. ASSUME \A k \in 1 .. (i - 1) : ~Sets(t[k], r)
        PROVE  q[r] = x \/ (r # Latest /\ q[r] = None)
    <3>1. ASSUME NEW j \in 2 .. (i + 1 - 1) PROVE ~Sets(s[j], r)
      <4>1. j - 1 \in 1 .. (i - 1) /\ j - 1 + 1 = j
        BY <1>1
      <4> QED
        BY <2>1, <2>3, <4>1
    <3>2. CASE Sets(s[1], r)
      <4>1. 1 \in 1 .. (i + 1 - 1) /\ (1 + 1) .. (i + 1 - 1) = 2 .. (i + 1 - 1)
        BY <1>1
      <4>2. LastSet(s, 1, i + 1, r)
        BY <3>1, <3>2, <4>1 DEF LastSet
      <4>3. About(s[1], r, x)
        BY <1>5, <4>1, <4>2 DEF Holds
      <4> QED
        BY <1>3, <3>2, <4>3
    <3>3. CASE ~Sets(s[1], r)
      <4>1. \A k \in 1 .. (i + 1 - 1) : ~Sets(s[k], r)
        <5>1. \A k \in 1 .. (i + 1 - 1) : k = 1 \/ k \in 2 .. (i + 1 - 1)
          BY <1>1
        <5> QED
          BY <3>1, <3>3, <5>1
      <4>2. p[r] = x \/ (r # Latest /\ p[r] = None)
        BY <1>5, <4>1 DEF Holds
      <4> QED
        BY <1>4, <3>3, <4>2
    <3> QED
      BY <3>2, <3>3
  <2> QED
    BY <2>2, <2>3 DEF Holds
<1>6. ASSUME NEW i \in 1 .. Len(t)
      PROVE  /\ t[i] = s[i + 1] /\ i + 1 \in 1 .. Len(s) /\ i \in 1 .. (Len(t) + 1)
             /\ t[i].at \in Entries /\ Latest \in Entries
  <2>1. t[i] = s[i + 1] /\ i + 1 \in 1 .. Len(s) /\ t[i] \in Message /\ i \in 1 .. (Len(t) + 1)
    BY <1>1, <1>2
  <2> QED
    BY <2>1 DEF Message, Entries
<1>7. ASSUME NEW i \in 1 .. Len(t), Heard(t[i], "itemEncoding") PROVE Holds(t, q, Latest, t[i].path, i)
  <2>1. Holds(s, p, Latest, t[i].path, i + 1)
    BY <1>6, <1>7 DEF Fair
  <2> QED
    BY <1>5, <1>6, <2>1
<1>8. ASSUME NEW i \in 1 .. Len(t), Heard(t[i], "itemFailed") PROVE Holds(t, q, t[i].at, t[i].path, i)
  <2>1. Holds(s, p, t[i].at, t[i].path, i + 1)
    BY <1>6, <1>8 DEF Fair
  <2> QED
    BY <1>5, <1>6, <2>1
<1>9. ASSUME NEW e \in E, e.heard PROVE Holds(t, q, Entry(e), e.path, Len(t) + 1)
  <2>1. Len(t) + 1 + 1 = Len(s) + 1 /\ Len(t) + 1 \in 1 .. (Len(t) + 1)
    BY <1>1
  <2>2. Holds(s, p, Entry(e), e.path, Len(t) + 1 + 1)
    BY <1>9, <2>1 DEF Fair
  <2>3. Entry(e) \in Entries
    BY DEF Item, Entry, Entries
  <2> QED
    BY <1>5, <2>1, <2>2, <2>3
<1>10. Fair(t, q, E)
  BY <1>7, <1>8, <1>9 DEF Fair
<1> QED
  BY <1>1, <1>10 DEF t

-----------------------------------------------------------------------------
(* The steps *)

Foldered == /\ {extra, known, watched} \subseteq SUBSET Dirs
            /\ known \cap Ignored = {} /\ FoldersAgree

LEMMA FoldersKept ==
  ASSUME Foldered,
         \/ \E S \in SUBSET Dirs : LogFolders(S)
         \/ \E d \in Dirs : RegisterFolder(d) \/ AddWatchFolder(d) \/ RemoveWatchFolder(d)
         \/ ApplySettings
         \/ UNCHANGED folders
  PROVE  Foldered'
<1>1. ASSUME NEW S \in SUBSET Dirs, LogFolders(S) PROVE Foldered'
  BY <1>1 DEF LogFolders, Foldered, FoldersAgree
<1>2. ASSUME NEW d \in Dirs, RegisterFolder(d) PROVE Foldered'
  BY <1>2 DEF RegisterFolder, Foldered, FoldersAgree
<1>3. ASSUME NEW d \in Dirs, AddWatchFolder(d) \/ RemoveWatchFolder(d) PROVE Foldered'
  BY <1>3 DEF AddWatchFolder, RemoveWatchFolder, Foldered, FoldersAgree
<1>4. CASE ApplySettings
  BY <1>4 DEF ApplySettings, Foldered, FoldersAgree
<1>5. CASE UNCHANGED folders
  BY <1>5 DEF folders, Foldered, FoldersAgree
<1> QED
  BY <1>1, <1>2, <1>3, <1>4, <1>5

Speaks(E) == /\ Fair(line', pairs, E) /\ line' \in Seq(Message)
             /\ E \subseteq Item /\ Apart(E)

LEMMA StartsItemKeeps ==
  ASSUME AmeTypeOK, Fair(line, pairs, encoding), Apart(encoding),
         NEW p \in Paths, NEW at \in Positions, StartsItem(p, at)
  PROVE  Speaks(encoding')
<1> DEFINE e == [path |-> p, at |-> at, heard |-> open, told |-> FALSE]
           m == Word("encodingStarted", e, TRUE)
           F == {Overtaken(f) : f \in encoding} \cup {e}
<1>1. /\ line \in Seq(Message) /\ encoding \subseteq Item /\ open \in BOOLEAN
      /\ \A f \in encoding : f.at # at
      /\ open => encoding' = F /\ line' = Append(line, m)
      /\ ~open => encoding' = encoding \cup {e} /\ line' = line
  BY DEF AmeTypeOK, StartsItem
<1>2. e \in Item /\ e.path = p /\ e.at = at /\ e.heard = open /\ ~e.told
  BY <1>1 DEF Item
<1>3. m \in Message /\ m.type = "encodingStarted" /\ m.path = p
  BY <1>2 DEF Word, Item, Message
<1>4. \A f \in encoding : /\ Overtaken(f) \in Item /\ Overtaken(f).at = f.at /\ Overtaken(f).path = f.path
                          /\ Overtaken(f).told = f.told
                          /\ Overtaken(f).heard = (f.heard /\ f.told)
  BY <1>1 DEF Overtaken, Item
<1> HIDE DEF e, m
<1>5. CASE ~open
  <2>1. Fair(line, pairs, encoding \cup {e})
    BY <1>2, <1>5 DEF Fair
  <2>2. encoding \cup {e} \subseteq Item /\ Apart(encoding \cup {e})
    BY <1>1, <1>2 DEF Apart
  <2> QED
    BY <1>1, <1>5, <2>1, <2>2 DEF Speaks
<1>6. CASE open
  <2>1. F \subseteq Item /\ Apart(F)
    <3>1. F \subseteq Item
      BY <1>2, <1>4
    <3>2. ASSUME NEW a \in F, NEW b \in F, a.at = b.at PROVE a = b
      <4>1. (a = e \/ \E f \in encoding : a = Overtaken(f)) /\ (b = e \/ \E f \in encoding : b = Overtaken(f))
        BY <3>2
      <4>2. ASSUME NEW f \in encoding, NEW g \in encoding, a = Overtaken(f), b = Overtaken(g)
            PROVE  a = b
        <5>1. f.at = g.at
          BY <1>4, <3>2, <4>2
        <5>2. f = g
          BY <5>1 DEF Apart
        <5> QED
          BY <4>2, <5>2
      <4> QED
        BY <1>1, <1>2, <1>4, <3>2, <4>1, <4>2
    <3> QED
      BY <3>1, <3>2 DEF Apart
  <2>2. ASSUME NEW a \in F, a.heard
        PROVE  \/ Sets(m, Entry(a)) /\ About(m, Entry(a), a.path)
               \/ ~Sets(m, Entry(a)) /\ Holds(line, pairs, Entry(a), a.path, Len(line) + 1)
    <3>1. CASE a = e
      BY <1>2, <1>3, <3>1 DEF Sets, About, Entry
    <3>2. ASSUME NEW f \in encoding, a = Overtaken(f)
          PROVE  ~Sets(m, Entry(a)) /\ Holds(line, pairs, Entry(a), a.path, Len(line) + 1)
      <4>1. f.heard /\ f.told /\ a.told /\ a.at = f.at /\ a.path = f.path /\ f.at \in Positions
        BY <1>1, <1>4, <2>2, <3>2 DEF Item
      <4>2. Entry(a) = f.at /\ Entry(f) = f.at /\ f.at # Latest
        BY <4>1, AmeAssumption DEF Entry
      <4>3. Holds(line, pairs, Entry(f), f.path, Len(line) + 1)
        BY <4>1 DEF Fair
      <4> QED
        BY <1>3, <4>1, <4>2, <4>3 DEF Sets
    <3> QED
      BY <3>1, <3>2
  <2> HIDE DEF F
  <2>3. ~Heard(m, "itemEncoding") /\ ~Heard(m, "itemFailed")
    BY <1>3 DEF Heard
  <2>4. Timely(line, pairs, m, F)
    BY <2>2, <2>3 DEF Timely
  <2>5. Fair(Append(line, m), pairs, F) /\ Append(line, m) \in Seq(Message)
    BY <1>1, <1>3, <2>4, MessageKeeps
  <2> QED
    BY <1>1, <1>6, <2>1, <2>5 DEF Speaks
<1> QED
  BY <1>1, <1>5, <1>6

LEMMA TellsStatusKeeps ==
  ASSUME AmeTypeOK, Fair(line, pairs, encoding), Apart(encoding),
         NEW e \in encoding, TellsStatus(e)
  PROVE  Speaks(encoding')
<1> DEFINE d == [e EXCEPT !.told = TRUE, !.heard = @ /\ open]
           m == Word("itemEncoding", e, e.heard)
           F == (encoding \ {e}) \cup {d}
<1>1. /\ line \in Seq(Message) /\ encoding \subseteq Item /\ open \in BOOLEAN /\ e \in Item
      /\ ~e.told /\ encoding' = F
      /\ line' = IF open THEN Append(line, m) ELSE line
  BY DEF AmeTypeOK, TellsStatus
<1>2. d \in Item /\ d.path = e.path /\ d.at = e.at /\ d.heard = (e.heard /\ open) /\ d.told
  BY <1>1 DEF Item
<1>3. /\ m \in Message /\ m.type = "itemEncoding" /\ m.path = e.path /\ m.at = e.at
      /\ m.heard = e.heard /\ e.at \in Positions
  BY <1>1 DEF Word, Item, Message
<1> HIDE DEF d, m
<1>4. F \subseteq Item /\ Apart(F)
  BY <1>1, <1>2 DEF Apart
<1>5. CASE ~open
  <2>1. Fair(line, pairs, F)
    BY <1>2, <1>5 DEF Fair
  <2> QED
    BY <1>1, <1>4, <1>5, <2>1 DEF Speaks
<1>6. CASE open
  <2>1. ASSUME NEW a \in F, a.heard
        PROVE  \/ Sets(m, Entry(a)) /\ About(m, Entry(a), a.path)
               \/ ~Sets(m, Entry(a)) /\ Holds(line, pairs, Entry(a), a.path, Len(line) + 1)
    <3>1. CASE a = d
      <4>1. Entry(a) = e.at /\ e.at # Latest /\ e.heard
        BY <1>2, <1>3, <2>1, <3>1, AmeAssumption DEF Entry
      <4> QED
        BY <1>2, <1>3, <3>1, <4>1 DEF Sets, About
    <3>2. CASE a \in encoding /\ a # e
      <4>1. a.at # e.at /\ Holds(line, pairs, Entry(a), a.path, Len(line) + 1)
        BY <2>1, <3>2 DEF Fair, Apart
      <4> QED
        BY <1>3, <4>1 DEF Sets, Entry
    <3> QED
      BY <2>1, <3>1, <3>2
  <2>2. Heard(m, "itemEncoding") => Holds(line, pairs, Latest, m.path, Len(line) + 1)
    BY <1>1, <1>3 DEF Heard, Fair, Entry
  <2>3. ~Heard(m, "itemFailed")
    BY <1>3 DEF Heard
  <2> HIDE DEF F
  <2>4. Timely(line, pairs, m, F)
    BY <2>1, <2>2, <2>3 DEF Timely
  <2>5. Fair(Append(line, m), pairs, F) /\ Append(line, m) \in Seq(Message)
    BY <1>1, <1>3, <2>4, MessageKeeps
  <2> QED
    BY <1>1, <1>4, <1>6, <2>5 DEF Speaks
<1> QED
  BY <1>1, <1>5, <1>6

Ends == {"encodeComplete", "encodeFailed", "itemFailed"}

\* Words about an item that set no entry.
LEMMA SaysMore ==
  ASSUME NEW s \in Seq(Message), NEW p, NEW E \in SUBSET Item, NEW e \in E, Fair(s, p, E),
         NEW type \in Ends \cup {"progress"}, NEW heard \in BOOLEAN,
         type = "itemFailed" /\ heard => e.heard /\ e.told
  PROVE  LET m == Word(type, e, heard)
         IN  Fair(Append(s, m), p, E) /\ Append(s, m) \in Seq(Message)
<1> DEFINE m == Word(type, e, heard)
<1>1. /\ m \in Message /\ m.type = type /\ m.path = e.path /\ m.at = e.at /\ m.heard = heard
      /\ type # "itemEncoding" /\ type # "encodingStarted"
  BY DEF Word, Item, Message, Ends
<1> HIDE DEF m
<1>2. \A r : ~Sets(m, r)
  BY <1>1 DEF Sets
<1>3. \A a \in E : a.heard => Holds(s, p, Entry(a), a.path, Len(s) + 1)
  BY DEF Fair
<1>4. Heard(m, "itemFailed") => Holds(s, p, m.at, m.path, Len(s) + 1)
  BY <1>1, <1>3 DEF Heard, Entry
<1>5. ~Heard(m, "itemEncoding")
  BY <1>1 DEF Heard
<1>7. Timely(s, p, m, E)
  BY <1>2, <1>3, <1>4, <1>5 DEF Timely
<1>6. Fair(Append(s, m), p, E) /\ Append(s, m) \in Seq(Message)
  BY <1>1, <1>7, MessageKeeps
<1> QED
  BY <1>6 DEF m

LEMMA ProgressesKeeps ==
  ASSUME AmeTypeOK, Fair(line, pairs, encoding), Apart(encoding),
         NEW e \in encoding, Progresses(e)
  PROVE  Speaks(encoding)
<1>1. /\ line \in Seq(Message) /\ encoding \in SUBSET Item
      /\ line' = Append(line, Word("progress", e, FALSE))
  BY DEF AmeTypeOK, Progresses
<1>2. Fair(line', pairs, encoding) /\ line' \in Seq(Message)
  BY <1>1, SaysMore
<1> QED
  BY <1>1, <1>2 DEF Speaks

LEMMA EndsItemKeeps ==
  ASSUME AmeTypeOK, Fair(line, pairs, encoding), Apart(encoding),
         NEW e \in encoding, NEW types \in Endings, EndsItem(e, types)
  PROVE  Speaks(encoding')
<1> DEFINE h == e.heard /\ e.told
           more == [i \in DOMAIN types |-> Word(types[i], e, h)]
           E == encoding
<1>1. /\ line \in Seq(Message) /\ E \in SUBSET Item /\ open \in BOOLEAN /\ e \in Item
      /\ line' = IF open THEN line \o more ELSE line
      /\ encoding' = E \ {e}
  BY DEF AmeTypeOK, EndsItem
<1>2. h \in BOOLEAN /\ (h => e.heard /\ e.told)
  BY <1>1 DEF Item
<1> HIDE DEF h
<1>3. \A s : Fair(s, pairs, E) => Fair(s, pairs, encoding')
  BY <1>1 DEF Fair
<1>4. encoding' \subseteq Item /\ Apart(encoding')
  BY <1>1 DEF Apart
<1>5. CASE ~open
  BY <1>1, <1>3, <1>4, <1>5 DEF Speaks
<1>6. ASSUME NEW type \in Ends, types = <<type>>, open
      PROVE  Fair(line', pairs, E) /\ line' \in Seq(Message)
  <2>1. more = <<Word(type, e, h)>>
    BY <1>6
  <2> HIDE DEF more
  <2>2. line' = Append(line, Word(type, e, h))
    BY <1>1, <1>6, <2>1
  <2> QED
    BY <1>1, <1>2, <2>2, SaysMore
<1>7. ASSUME types = <<"encodeFailed", "itemFailed">>, open
      PROVE  Fair(line', pairs, E) /\ line' \in Seq(Message)
  <2> DEFINE m1 == Word("encodeFailed", e, h)
             m2 == Word("itemFailed", e, h)
             one == Append(line, m1)
  <2>1. more = <<m1, m2>>
    BY <1>7
  <2>2. one \in Seq(Message) /\ Fair(one, pairs, E)
    BY <1>1, <1>2, SaysMore DEF Ends
  <2>3. line' = Append(one, m2)
    <3> HIDE DEF more, m1, m2
    <3>1. line' = line \o <<m1, m2>>
      BY <1>1, <1>7, <2>1
    <3> QED
      BY <1>1, <3>1
  <2> HIDE DEF one
  <2>4. Fair(Append(one, m2), pairs, E) /\ Append(one, m2) \in Seq(Message)
    BY <1>1, <1>2, <2>2, SaysMore DEF Ends
  <2> QED
    BY <2>3, <2>4
<1>8. open => Fair(line', pairs, E) /\ line' \in Seq(Message)
  BY <1>6, <1>7 DEF Endings, Ends
<1> QED
  BY <1>3, <1>4, <1>5, <1>8 DEF Speaks

LEMMA StartedKeeps ==
  ASSUME newest \in [Paths -> Export], pairs \in Pairs, NEW p \in Paths, EncodingStarted(p)
  PROVE  newest' \in [Paths -> Export] /\ pairs' = [pairs EXCEPT ![Latest] = p] /\ wronged' = wronged
<1> DEFINE j == Ensured(p)
           k == [j EXCEPT !.state = IF @ = "Discovered" THEN "Encoding" ELSE @]
           n == IF k.state = "Encoding" THEN [k EXCEPT !.shown = FALSE] ELSE k
<1>1. /\ newest' = [newest EXCEPT ![p] = n]
      /\ pairs' = [pairs EXCEPT ![Latest] = p] /\ wronged' = wronged
  BY DEF EncodingStarted
<1>2. j \in [state : Active \cup {"Discovered"}, shown : BOOLEAN, confirmed : BOOLEAN]
  BY DEF Ensured, Export, NoJob, Active, None
<1> HIDE DEF j
<1>3. k \in [state : Active, shown : BOOLEAN, confirmed : BOOLEAN]
  BY <1>2 DEF Active
<1> HIDE DEF k
<1>4. n \in Export
  BY <1>3 DEF Export
<1> HIDE DEF n
<1> QED
  BY <1>1, <1>4

LEMMA CompleteKeeps ==
  ASSUME newest \in [Paths -> Export], NEW p \in Paths, NEW ok \in BOOLEAN, EncodeComplete(p, ok)
  PROVE  newest' \in [Paths -> Export] /\ pairs' = pairs /\ wronged' = wronged
<1> DEFINE e == Ensured(p)
           j == [e EXCEPT !.confirmed = TRUE]
           g == [j EXCEPT !.state = "Probing"]
           n == IF ~ok THEN FailedBy(j) ELSE IF j.state \in {"Discovered", "Encoding"} THEN g ELSE j
<1>1. newest' = [newest EXCEPT ![p] = n] /\ pairs' = pairs /\ wronged' = wronged
  BY DEF EncodeComplete
<1>2. e \in [state : Active \cup {"Discovered"}, shown : BOOLEAN, confirmed : BOOLEAN]
  BY DEF Ensured, Export, NoJob, Active, None
<1> HIDE DEF e
<1>3. j \in [state : Active \cup {"Discovered"}, shown : BOOLEAN, confirmed : BOOLEAN]
  BY <1>2
<1> HIDE DEF j
<1>4. g \in Export
  BY <1>3 DEF Export, Active
<1>5. FailedBy(j) \in Export
  BY <1>3 DEF FailedBy, Export, Active
<1>6. j.state # "Discovered" => j \in Export
  BY <1>3 DEF Export
<1> HIDE DEF g
<1>7. n \in Export
  BY <1>4, <1>5, <1>6
<1> HIDE DEF n
<1> QED
  BY <1>1, <1>7

\* The one place where a job is failed for a position.
LEMMA FailedKeeps ==
  ASSUME newest \in [Paths -> Export], pairs \in Pairs, NEW m \in Message,
         m.heard => pairs[m.at] \in {m.path, None}, wronged = {}, ItemFailed(m)
  PROVE  /\ newest' \in [Paths -> Export] /\ wronged' = {}
         /\ pairs' = [pairs EXCEPT ![m.at] = None]
<1> DEFINE p == pairs[m.at]
           hit == p # None /\ newest[p].state \in Active \ {"Muxing"}
<1>1. /\ newest' = IF hit THEN [newest EXCEPT ![p] = FailedBy(@)] ELSE newest
      /\ wronged' = IF hit /\ p # m.path /\ m.heard THEN wronged \cup {p} ELSE wronged
      /\ pairs' = [pairs EXCEPT ![m.at] = None]
  BY DEF ItemFailed
<1>2. p \in Paths \cup {None}
  BY DEF Message, Pairs
<1>3. p # None => FailedBy(newest[p]) \in Export
  <2>1. \A j \in Export : FailedBy(j) \in Export
    BY DEF FailedBy, Export, Active, None
  <2> QED
    BY <1>2, <2>1
<1> QED
  BY <1>1, <1>2, <1>3

LEMMA ApplyKeeps == ASSUME PanelInv, ApplyAmeMessage PROVE PanelInv'
<1> DEFINE m == line[1]
<1>1. /\ line \in Seq(Message) /\ line # <<>> /\ line' = Tail(line) /\ pairs \in Pairs
      /\ encoding \in SUBSET Item /\ Apart(encoding) /\ newest \in [Paths -> Export] /\ wronged = {}
      /\ encoding' = encoding /\ open' = open /\ open \in BOOLEAN
      /\ Fair(line, pairs, encoding) /\ Foldered
  BY DEF ApplyAmeMessage, PanelInv, AmeTypeOK, Pairs, Foldered, PanelIsBelieved, BlameIsFair, encoder
<1>2. m \in Message /\ Head(line) = m /\ 1 \in 1 .. Len(line)
  BY <1>1
<1>3. m.path \in Paths /\ m.at \in Positions /\ DirOf[m.path] \in Dirs
  BY <1>2, AmeAssumption DEF Message
<1>4. m.type = "itemFailed" /\ m.heard => pairs[m.at] \in {m.path, None}
  <2>1. ASSUME m.type = "itemFailed", m.heard PROVE Holds(line, pairs, m.at, m.path, 1)
    BY <1>1, <1>2, <2>1 DEF Fair, Heard
  <2> QED
    BY <2>1 DEF Holds
<1>5. \/ m.type = "encodingStarted" /\ EncodingStarted(m.path)
      \/ m.type = "progress" /\ Progress(m.path)
      \/ m.type = "encodeComplete" /\ EncodeComplete(m.path, TRUE)
      \/ m.type = "encodeFailed" /\ EncodeComplete(m.path, FALSE)
      \/ m.type = "itemEncoding" /\ ItemEncoding(m.at)
      \/ m.type = "itemFailed" /\ ItemFailed(m)
  BY <1>2 DEF ApplyAmeMessage
<1> DEFINE Fine == /\ newest' \in [Paths -> Export] /\ pairs' \in Pairs /\ wronged' = {}
                   /\ Foldered' /\ Applied(m, pairs, pairs')
<1>m. m = line[1]
  OBVIOUS
<1> HIDE DEF m
<1>6. ASSUME m.type = "encodingStarted" /\ EncodingStarted(m.path)
      PROVE  Fine
  <2>1. RegisterFolder(DirOf[m.path])
    BY <1>6 DEF EncodingStarted
  <2>2. newest' \in [Paths -> Export] /\ pairs' = [pairs EXCEPT ![Latest] = m.path] /\ wronged' = wronged
    BY <1>1, <1>3, <1>6, StartedKeeps
  <2>3. Foldered'
    BY <1>1, <1>3, <2>1, FoldersKept
  <2>4. /\ pairs' \in Pairs /\ pairs'[Latest] = m.path
        /\ \A at \in Positions : pairs'[at] = pairs[at]
    BY <1>1, <1>3, <2>2, AmeAssumption DEF Pairs
  <2>5. Applied(m, pairs, pairs')
    BY <1>6, <2>4 DEF Applied
  <2> QED
    BY <1>1, <2>2, <2>3, <2>4, <2>5
<1>7. ASSUME m.type = "progress" /\ Progress(m.path)
      PROVE  Fine
  <2>1. newest' \in [Paths -> Export]
    BY <1>1, <1>3, <1>7, ZenonT(30) DEF Progress, Export
  <2>2. pairs' = pairs /\ wronged' = wronged /\ UNCHANGED folders
    BY <1>7 DEF Progress
  <2>3. Applied(m, pairs, pairs')
    BY <1>7, <2>2 DEF Applied
  <2> QED
    BY <1>1, <2>1, <2>2, <2>3, FoldersKept
<1>8. ASSUME NEW ok \in BOOLEAN, EncodeComplete(m.path, ok),
             m.type \in {"encodeComplete", "encodeFailed"}
      PROVE  Fine
  <2>1. RegisterFolder(DirOf[m.path])
    BY <1>8 DEF EncodeComplete
  <2>2. newest' \in [Paths -> Export] /\ pairs' = pairs /\ wronged' = wronged
    BY <1>1, <1>3, <1>8, CompleteKeeps
  <2>3. Foldered'
    BY <1>1, <1>3, <2>1, FoldersKept
  <2>4. Applied(m, pairs, pairs')
    BY <1>8, <2>2 DEF Applied
  <2> QED
    BY <1>1, <2>2, <2>3, <2>4
<1>9. ASSUME m.type = "itemEncoding" /\ ItemEncoding(m.at)
      PROVE  Fine
  <2>1. /\ newest' = newest /\ wronged' = wronged /\ UNCHANGED folders
        /\ pairs' = IF pairs[Latest] = None THEN pairs ELSE [pairs EXCEPT ![m.at] = pairs[Latest]]
    BY <1>9 DEF ItemEncoding, Paired
  <2>2. Foldered'
    BY <1>1, <2>1, FoldersKept
  <2>3. /\ pairs' \in Pairs /\ pairs'[Latest] = pairs[Latest]
        /\ pairs[Latest] # None => pairs'[m.at] = pairs[Latest]
        /\ \A at \in Positions : at # m.at => pairs'[at] = pairs[at]
    BY <1>1, <1>3, <2>1, AmeAssumption DEF Pairs
  <2>4. Applied(m, pairs, pairs')
    BY <1>9, <2>3, AmeAssumption DEF Applied, Sets
  <2> QED
    BY <1>1, <2>1, <2>2, <2>3, <2>4
<1>10. ASSUME m.type = "itemFailed" /\ ItemFailed(m)
       PROVE  Fine
  <2>1. /\ newest' \in [Paths -> Export] /\ wronged' = {}
        /\ pairs' = [pairs EXCEPT ![m.at] = None]
    BY <1>1, <1>2, <1>4, <1>10, <1>m, FailedKeeps
  <2>2. UNCHANGED folders
    BY <1>10 DEF ItemFailed
  <2>3. Foldered'
    BY <1>1, <2>2, FoldersKept
  <2>4. /\ pairs' \in Pairs /\ pairs'[Latest] = pairs[Latest]
        /\ \A at \in Positions : pairs'[at] \in {pairs[at], None}
    BY <1>1, <1>3, <2>1, AmeAssumption DEF Pairs
  <2>5. Applied(m, pairs, pairs')
    BY <1>10, <2>4 DEF Applied
  <2> QED
    BY <2>1, <2>3, <2>4, <2>5
<1>11. Fine
  BY <1>5, <1>6, <1>7, <1>8, <1>9, <1>10
<1>12. Fair(Tail(line), pairs', encoding) /\ Tail(line) \in Seq(Message)
  BY <1>1, <1>11, <1>m, OneTaken
<1> QED
  BY <1>1, <1>11, <1>12 DEF PanelInv, AmeTypeOK, Pairs, Foldered, PanelIsBelieved, BlameIsFair, FoldersAgree

LEMMA OthersKeep ==
  ASSUME PanelInv,
         \/ \E p \in Paths, at \in Positions : StartsItem(p, at)
         \/ \E e \in encoding : \/ TellsStatus(e)
                               \/ Progresses(e)
                               \/ \E types \in Endings : EndsItem(e, types)
         \/ PanelToggles
         \/ FolderTurn
  PROVE  PanelInv'
<1>1. /\ AmeTypeOK /\ Fair(line, pairs, encoding) /\ Apart(encoding) /\ Foldered /\ wronged = {}
      /\ encoding \in SUBSET Item /\ line \in Seq(Message) /\ open \in BOOLEAN
  BY DEF PanelInv, AmeTypeOK, Foldered, PanelIsBelieved, BlameIsFair
<1> DEFINE Told == /\ Speaks(encoding') /\ open' \in BOOLEAN
                   /\ Foldered' /\ UNCHANGED <<newest, pairs, wronged>>
<1>2. ASSUME NEW p \in Paths, NEW at \in Positions, StartsItem(p, at)
      PROVE  Told
  <2>1. UNCHANGED folders /\ UNCHANGED <<newest, pairs, wronged>> /\ open' = open
    BY <1>2 DEF StartsItem
  <2> QED
    BY <1>1, <1>2, <2>1, StartsItemKeeps, FoldersKept
<1>a. ASSUME NEW e \in encoding, TellsStatus(e) PROVE Told
  <2>1. UNCHANGED folders /\ UNCHANGED <<newest, pairs, wronged>> /\ open' = open
    BY <1>a DEF TellsStatus
  <2> QED
    BY <1>1, <1>a, <2>1, TellsStatusKeeps, FoldersKept
<1>3. ASSUME NEW e \in encoding, Progresses(e) PROVE Told
  <2>1. UNCHANGED folders /\ UNCHANGED <<newest, pairs, wronged>> /\ open' = open /\ encoding' = encoding
    BY <1>3 DEF Progresses, encoder
  <2> QED
    BY <1>1, <1>3, <2>1, ProgressesKeeps, FoldersKept
<1>4. ASSUME NEW e \in encoding, NEW types \in Endings, EndsItem(e, types) PROVE Told
  <2>1. UNCHANGED folders /\ UNCHANGED <<newest, pairs, wronged>> /\ open' = open
    BY <1>4 DEF EndsItem
  <2> QED
    BY <1>1, <1>4, <2>1, EndsItemKeeps, FoldersKept
<1>b. encoding' = encoding /\ line' = line => Speaks(encoding')
  BY <1>1 DEF Speaks
<1>5. ASSUME PanelToggles PROVE Told
  <2>1. /\ UNCHANGED folders /\ UNCHANGED <<newest, pairs, wronged>> /\ open' = ~open
        /\ encoding' = encoding /\ line' = line
    BY <1>5 DEF PanelToggles
  <2> QED
    BY <1>1, <1>b, <2>1, FoldersKept
<1>6. ASSUME FolderTurn PROVE Told
  <2>1. /\ UNCHANGED <<newest, pairs, wronged>> /\ open' = open
        /\ encoding' = encoding /\ line' = line
    BY <1>6 DEF FolderTurn, encoder
  <2>2. Foldered'
    BY <1>1, <1>6, FoldersKept DEF FolderTurn
  <2> QED
    BY <1>1, <1>b, <2>1, <2>2
<1>7. Told
  BY <1>2, <1>a, <1>3, <1>4, <1>5, <1>6
<1>8. AmeTypeOK'
  BY <1>1, <1>7 DEF AmeTypeOK, Foldered, Speaks
<1>9. Fair(line, pairs, encoding)' /\ Apart(encoding)'
  BY <1>7 DEF Speaks
<1> QED
  BY <1>1, <1>7, <1>8, <1>9 DEF PanelInv, Foldered, PanelIsBelieved, BlameIsFair

LEMMA JobsMove ==
  ASSUME PanelInv, NEW p \in Paths,
         \/ Moves(p, "Probing", "Muxing") \/ Moves(p, "Failing", "Failed")
         \/ Moves(p, "Muxing", "Done") \/ RemoveJob(p)
  PROVE  PanelInv'
<1>1. /\ AmeTypeOK /\ Fair(line, pairs, encoding) /\ Apart(encoding) /\ Foldered
      /\ wronged = {} /\ pairs \in Pairs
  BY DEF PanelInv, AmeTypeOK, Foldered, PanelIsBelieved, BlameIsFair, Pairs
<1>2. /\ UNCHANGED folders /\ wronged' = wronged /\ open' = open
      /\ encoding' = encoding /\ line' = line
  BY DEF Moves, RemoveJob, encoder
<1>3. Foldered'
  BY <1>1, <1>2, FoldersKept
<1>4. ASSUME NEW from, NEW to \in {"Muxing", "Failed", "Done"}, Moves(p, from, to)
      PROVE  newest' \in [Paths -> Export] /\ pairs' = pairs
  BY <1>1, <1>4 DEF Moves, AmeTypeOK, Export, Active
<1>5. ASSUME RemoveJob(p)
      PROVE  /\ newest' \in [Paths -> Export] /\ pairs' \in Pairs /\ pairs'[Latest] = pairs[Latest]
             /\ \A at \in Positions : pairs'[at] \in {pairs[at], None}
  <2>1. newest' \in [Paths -> Export]
    BY <1>1, <1>5 DEF RemoveJob, AmeTypeOK, Export, NoJob
  <2>2. pairs' = [q \in Positions \cup {Latest} |->
                    IF q # Latest /\ pairs[q] = p THEN None ELSE pairs[q]]
    BY <1>1, <1>5 DEF RemoveJob, Pairs
  <2> QED
    BY <1>1, <2>1, <2>2 DEF Pairs
<1>6. /\ newest' \in [Paths -> Export] /\ pairs' \in Pairs /\ pairs'[Latest] = pairs[Latest]
      /\ \A at \in Positions : pairs'[at] \in {pairs[at], None}
  BY <1>1, <1>4, <1>5
<1>7. Fair(line, pairs', encoding)
  BY <1>1, <1>6, Forgotten DEF AmeTypeOK
<1>8. AmeTypeOK'
  BY <1>1, <1>2, <1>3, <1>6 DEF AmeTypeOK, Foldered, Pairs
<1> QED
  BY <1>1, <1>2, <1>3, <1>7, <1>8 DEF PanelInv, Foldered, PanelIsBelieved, BlameIsFair

LEMMA AmeInitInv == AmeInit => PanelInv
<1> SUFFICES ASSUME AmeInit PROVE PanelInv
  OBVIOUS
<1>1. AmeTypeOK
  BY DEF AmeInit, AmeTypeOK, NoJob, Export
<1>2. Fair(line, pairs, encoding) /\ Apart(encoding)
  BY DEF AmeInit, Fair, Apart
<1> QED
  BY <1>1, <1>2 DEF AmeInit, PanelInv, PanelIsBelieved, BlameIsFair, FoldersAgree

LEMMA AmeNextInv == PanelInv /\ [AmeNext]_ameVars => PanelInv'
<1> SUFFICES ASSUME PanelInv, [AmeNext]_ameVars PROVE PanelInv'
  OBVIOUS
<1>1. CASE AmeNext
  BY <1>1, ApplyKeeps, OthersKeep, JobsMove DEF AmeNext
<1>2. CASE UNCHANGED ameVars
  BY <1>2 DEF ameVars, encoder, folders, PanelInv, AmeTypeOK, PanelIsBelieved, BlameIsFair, FoldersAgree
<1> QED
  BY <1>1, <1>2

(* For any outputs, folders and batch positions, and however many items run  *)
(* and messages are on their way: a failure the panel reports fails a job of *)
(* another output only if the start or the status of the item was missed, or *)
(* another start was heard between them, and the watched folders are those   *)
(* of the settings and those learned (applyAmeMessage, registerKnownFolder,  *)
(* addWatchFolder, removeWatchFolder).                                       *)
THEOREM PanelBelieved == AmeSpec => []PanelIsBelieved
<1>1. PanelInv => PanelIsBelieved
  BY DEF PanelInv
<1> QED
  BY <1>1, AmeInitInv, AmeNextInv, PTL DEF AmeSpec

-----------------------------------------------------------------------------
(* The watched folder.  Of a name the watcher still has something to hear    *)
(* unless its events tell the folder already, and what it is about to hear   *)
(* last is true when it says that the file is gone (Told).  The snapshot     *)
(* holds what the events told (Posted), which is what lets a rescan find     *)
(* every difference.                                                         *)
LastWord(n) ==
    IF Words(n, Kinds) = {} THEN debounced[n] ELSE raised[LastOf(Words(n, Kinds))][2]
HasLast(S) == S # {} => \E i \in S : \A j \in S : j <= i
Told == active /\ ~overflow => \A n \in Names :
            /\ LastWord(n) = "Remove" => sizes[n] = 0
            /\ n \notin skipped /\ LastWord(n) = "none" => view[n] = sizes[n]
Posted == \A n \in Names \ skipped : view[n] = snapshot[n]
Watching ==
    /\ active = available /\ (available => inWatch)
    /\ ~active => raised = <<>> /\ ~overflow
    /\ ~inWatch => ~retry /\ view = NoFiles /\ snapshot = NoFiles /\ skipped = {} /\ outcome = "none"
    /\ inWatch /\ ~available => retry
FolderInv ==
    /\ FolderTypeOK /\ Watching /\ Posted /\ Told
    /\ \A n \in Names : HasLast(Words(n, Kinds))
    /\ OutagesAreTold

Sizes == [Names -> 0 .. MaxSize]
Pending == [Names -> Kinds \cup {"none"}]

LEMMA FolderTypes ==
  FolderTypeOK <=>
    /\ sizes \in Sizes /\ snapshot \in Sizes /\ view \in Sizes
    /\ old \subseteq Names /\ skipped \subseteq Names
    /\ reach \in BOOLEAN /\ ame \in BOOLEAN /\ desired \in BOOLEAN /\ command \in BOOLEAN
    /\ inWatch \in BOOLEAN /\ active \in BOOLEAN /\ overflow \in BOOLEAN
    /\ available \in BOOLEAN /\ retry \in BOOLEAN
    /\ raised \in Seq(Names \X Kinds) /\ Len(raised) <= MaxNotified
    /\ debounced \in Pending /\ outcome \in {"none", "available", "unavailable", "repeated"}
BY DEF FolderTypeOK, Sizes, Pending

LEMMA LastIsLast ==
  ASSUME NEW S \in SUBSET Nat, HasLast(S), S # {}
  PROVE  LastOf(S) \in S /\ \A j \in S : j <= LastOf(S)
BY DEF HasLast, LastOf

\* With nothing on its way there is no word left.
LEMMA NoWord ==
  ASSUME raised = <<>>
  PROVE  \A n \in Names : Words(n, Kinds) = {} /\ HasLast(Words(n, Kinds)) /\ LastWord(n) = debounced[n]
BY DEF Words, LastWord, HasLast

LEMMA OneWordMore ==
  ASSUME NEW m \in Names, NEW k \in Kinds, raised \in Seq(Names \X Kinds),
         raised' = Append(raised, <<m, k>>), debounced' = debounced,
         \A n \in Names : HasLast(Words(n, Kinds))
  PROVE  \A n \in Names : /\ HasLast(Words(n, Kinds)')
                          /\ LastWord(n)' = IF n = m THEN k ELSE LastWord(n)
<1> DEFINE L == Len(raised) + 1
<1> SUFFICES ASSUME NEW n \in Names
             PROVE  /\ HasLast(Words(n, Kinds)')
                    /\ LastWord(n)' = IF n = m THEN k ELSE LastWord(n)
  OBVIOUS
<1>1. /\ DOMAIN raised = 1 .. Len(raised) /\ DOMAIN raised' = 1 .. L /\ Len(raised) \in Nat
      /\ raised'[L] = <<m, k>> /\ \A i \in 1 .. Len(raised) : raised'[i] = raised[i]
  OBVIOUS
<1>2. Words(n, Kinds)' = Words(n, Kinds) \cup (IF n = m THEN {L} ELSE {})
  BY <1>1 DEF Words
<1>3. Words(n, Kinds) \subseteq 1 .. Len(raised) /\ HasLast(Words(n, Kinds))
  BY <1>1 DEF Words
<1>4. CASE n = m
  <2>1. L \in Words(n, Kinds)' /\ \A j \in Words(n, Kinds)' : j <= L
    BY <1>1, <1>2, <1>3, <1>4
  <2>2. HasLast(Words(n, Kinds)') /\ Words(n, Kinds)' \in SUBSET Nat
    BY <1>1, <1>2, <1>3, <2>1 DEF HasLast
  <2>3. LastOf(Words(n, Kinds)') \in Words(n, Kinds)' /\ L <= LastOf(Words(n, Kinds)')
    BY <2>1, <2>2, LastIsLast
  <2>4. LastOf(Words(n, Kinds)') = L
    BY <1>1, <2>1, <2>2, <2>3
  <2> QED
    BY <1>1, <1>4, <2>1, <2>2, <2>4 DEF LastWord
<1>5. CASE n # m
  <2>1. Words(n, Kinds)' = Words(n, Kinds)
    BY <1>2, <1>5
  <2>2. Words(n, Kinds) # {} => LastOf(Words(n, Kinds)) \in 1 .. Len(raised)
    BY <1>1, <1>3, LastIsLast, SMTT(30)
  <2> QED
    BY <1>1, <1>3, <1>5, <2>1, <2>2 DEF LastWord
<1> QED
  BY <1>4, <1>5

\* What the drain writes down of a name is its last word, but for add and modify.
LEMMA MergedIsTheWord ==
  ASSUME NEW n \in Names, raised \in Seq(Names \X Kinds), debounced \in Pending,
         HasLast(Words(n, Kinds))
  PROVE  /\ Merged(n) \in Kinds \cup {"none"}
         /\ Merged(n) = "Remove" <=> LastWord(n) = "Remove"
         /\ Merged(n) = "none" <=> LastWord(n) = "none"
<1>1. LastWord(n) \in Kinds \cup {"none"}
  <2>1. Words(n, Kinds) \subseteq DOMAIN raised /\ DOMAIN raised \subseteq Nat
    BY DEF Words
  <2>2. \A i \in DOMAIN raised : raised[i][2] \in Kinds
    OBVIOUS
  <2> QED
    BY <2>1, <2>2, LastIsLast DEF LastWord, Pending
<1>2. Merged(n) = LastWord(n) \/ (LastWord(n) = "Modify" /\ Merged(n) = "Add")
  BY DEF Merged, LastWord
<1> QED
  BY <1>1, <1>2 DEF Kinds

LEMMA ClassifiedTypes ==
  ASSUME FolderTypeOK, NEW names \in SUBSET Names, NEW kinds \in Pending
  PROVE  LET f == Classified(names, kinds)
         IN f.snap \in Sizes /\ f.view \in Sizes /\ f.skip \subseteq Names
BY FolderAssumption, FolderTypes DEF Classified, Sizes

\* What is classified is told as it is, unless it is told to be gone.
LEMMA ClassifiedTells ==
  ASSUME NEW names \in SUBSET Names, NEW kinds \in Pending, NEW n \in Names, Posted,
         view \in Sizes, snapshot \in Sizes
  PROVE  LET f == Classified(names, kinds)
         IN n \notin f.skip =>
              /\ f.view[n] = f.snap[n]
              /\ n \notin names => n \notin skipped /\ f.view[n] = view[n] /\ f.snap[n] = snapshot[n]
              /\ n \in names => f.view[n] = (IF kinds[n] = "Remove" THEN 0 ELSE sizes[n])
<1> DEFINE f == Classified(names, kinds)
           posted == {x \in names : Trusted(x, kinds[x]) /\ Known(x, kinds[x])}
<1> SUFFICES ASSUME n \notin f.skip
             PROVE  /\ f.view[n] = f.snap[n]
                    /\ n \notin names => n \notin skipped /\ f.view[n] = view[n] /\ f.snap[n] = snapshot[n]
                    /\ n \in names => f.view[n] = (IF kinds[n] = "Remove" THEN 0 ELSE sizes[n])
  OBVIOUS
<1>1. f = [snap |-> [x \in Names |-> IF x \notin posted THEN snapshot[x]
                                    ELSE IF kinds[x] = "Remove" THEN 0 ELSE sizes[x]],
           view |-> [x \in Names |-> IF x \notin posted THEN view[x]
                                    ELSE IF kinds[x] = "Remove" THEN 0 ELSE sizes[x]],
           skip |-> (skipped \ posted) \cup {x \in names : ~Trusted(x, kinds[x])}]
  BY DEF Classified
<1>2. n \in names => Trusted(n, kinds[n])
  BY <1>1
<1>3. n \notin posted => n \notin skipped
  BY <1>1
<1>4. CASE n \in posted
  BY <1>1, <1>4
<1>5. CASE n \notin posted
  <2>1. f.view[n] = view[n] /\ f.snap[n] = snapshot[n] /\ view[n] = snapshot[n]
    BY <1>1, <1>3, <1>5 DEF Posted
  <2>2. n \in names => kinds[n] # "Remove" /\ sizes[n] = 0 /\ snapshot[n] = 0
    BY <1>2, <1>5 DEF Known
  <2> QED
    BY <1>3, <1>5, <2>1, <2>2
<1> QED
  BY <1>4, <1>5

-----------------------------------------------------------------------------
(* The steps *)

LEMMA DiskKeeps ==
  ASSUME FolderInv, NEW n \in Names, NEW size \in 0 .. MaxSize, Changes(n, size)
  PROVE  FolderInv'
<1> USE FolderTypes
<1> DEFINE kind == IF size = 0 THEN "Remove" ELSE IF sizes[n] = 0 THEN "Add" ELSE "Modify"
<1>1. /\ sizes' = [sizes EXCEPT ![n] = size] /\ old' = old \ {n} /\ Raise(n, kind)
      /\ UNCHANGED <<reach, ame, desired, command, inWatch, active, available, retry, debounced,
                     snapshot, outcome, view, skipped>>
  BY DEF Changes, listVars, stateVars, ghosts
<1>2. kind \in Kinds
  BY DEF Kinds
<1>3. FolderTypeOK /\ Watching /\ Posted /\ Told /\ OutagesAreTold
      /\ \A x \in Names : HasLast(Words(x, Kinds))
  BY DEF FolderInv
<1>4. FolderTypeOK' /\ Watching'
  <2>1. sizes' \in Sizes /\ old' \subseteq Names
    BY <1>1, <1>3 DEF Sizes
  <2>2. raised' \in Seq(Names \X Kinds) /\ Len(raised') <= MaxNotified /\ overflow' \in BOOLEAN
        /\ (~active => raised' = raised /\ overflow' = overflow)
    BY <1>1, <1>2, <1>3, FolderAssumption DEF Raise
  <2>3. FolderTypeOK'
    BY <1>1, <1>3, <2>1, <2>2 DEF FolderTypeOK, Sizes, Pending
  <2> QED
    BY <1>1, <1>3, <2>2, <2>3 DEF Watching
<1>5. Posted' /\ OutagesAreTold'
  BY <1>1, <1>3 DEF Posted, OutagesAreTold
<1>6. Told' /\ \A x \in Names : HasLast(Words(x, Kinds)')
  <2>1. CASE raised' = Append(raised, <<n, kind>>)
    <3>1. \A x \in Names : /\ HasLast(Words(x, Kinds)')
                           /\ LastWord(x)' = IF x = n THEN kind ELSE LastWord(x)
      BY <1>1, <1>2, <1>3, <2>1, OneWordMore
    <3>2. kind = "Remove" <=> size = 0
      OBVIOUS
    <3>3. overflow => overflow'
      BY <1>1, <1>3 DEF Raise
    <3> QED
      BY <1>1, <1>2, <1>3, <3>1, <3>2, <3>3 DEF Told, Sizes, Kinds
  <2>2. CASE raised' = raised /\ (active => overflow')
    <3>1. \A x \in Names : Words(x, Kinds)' = Words(x, Kinds)
      BY <2>2 DEF Words
    <3> QED
      BY <1>1, <1>3, <2>2, <3>1 DEF Told
  <2>3. \/ raised' = Append(raised, <<n, kind>>)
        \/ raised' = raised /\ (active => overflow')
    BY <1>1, <1>3, FolderAssumption DEF Raise
  <2> QED
    BY <2>1, <2>2, <2>3
<1> QED
  BY <1>4, <1>5, <1>6 DEF FolderInv

\* What listing leaves, with the watch armed and nothing on its way.
LEMMA ListsKeeps ==
  ASSUME FolderInv, NEW initial \in BOOLEAN, Lists(initial), initial => snapshot = NoFiles,
         sizes' = sizes
  PROVE  /\ snapshot' \in Sizes /\ view' \in Sizes /\ skipped' \subseteq Names
         /\ Posted' /\ \A n \in Names \ skipped' : view'[n] = sizes[n]
<1>1. FolderTypeOK /\ Posted
  BY DEF FolderInv
<1>2. sizes \in Sizes /\ snapshot \in Sizes /\ view \in Sizes /\ skipped \subseteq Names
  BY <1>1, FolderTypes
<1>3. CASE skipped' = skipped \cup Names /\ UNCHANGED <<snapshot, view>>
  BY <1>2, <1>3 DEF Posted
<1>4. CASE initial /\ snapshot' = Scanned.snap /\ view' = Scanned.view /\ skipped' = Scanned.skip
  <2>1. /\ snapshot' = sizes
        /\ view' = [n \in Names |-> IF sizes[n] # 0 /\ n \notin Stale THEN sizes[n] ELSE view[n]]
        /\ skipped' = (skipped \ {n \in Names : sizes[n] # 0}) \cup Stale
    BY <1>4 DEF Scanned
  <2>2. Stale \subseteq Names
    BY DEF Stale, Names
  <2>3. view' \in Sizes /\ skipped' \subseteq Names
    BY <1>2, <2>1, <2>2 DEF Sizes
  <2>4. ASSUME NEW n \in Names \ skipped' PROVE view'[n] = sizes[n]
    <3>1. n \notin Stale /\ (sizes[n] = 0 => n \notin skipped)
      BY <2>1
    <3>2. sizes[n] = 0 => view[n] = 0
      BY <1>1, <1>4, <3>1 DEF Posted, NoFiles
    <3> QED
      BY <2>1, <3>1, <3>2
  <2> QED
    BY <1>2, <2>1, <2>3, <2>4 DEF Posted
<1>5. CASE snapshot' = Rescanned.snap /\ view' = Rescanned.view /\ skipped' = Rescanned.skip
  <2> DEFINE names == {n \in Names : Differs(n)}
             kinds == [n \in Names |-> IF sizes[n] = 0 THEN "Remove"
                                      ELSE IF snapshot[n] = 0 THEN "Add" ELSE "Modify"]
             f == Classified(names, kinds)
  <2>1. names \in SUBSET Names /\ kinds \in Pending
    BY DEF Pending, Kinds
  <2>2. snapshot' = sizes /\ view' = f.view /\ skipped' = f.skip
    BY <1>5 DEF Rescanned, Classified
  <2>3. view' \in Sizes /\ skipped' \subseteq Names
    BY <1>1, <2>1, <2>2, ClassifiedTypes
  <2>4. ASSUME NEW n \in Names \ skipped' PROVE view'[n] = sizes[n]
    <3>1. /\ n \notin names => n \notin skipped /\ view'[n] = view[n]
          /\ n \in names => view'[n] = (IF kinds[n] = "Remove" THEN 0 ELSE sizes[n])
      BY <1>1, <1>2, <2>1, <2>2, <2>4, ClassifiedTells
    <3>2. CASE n \notin names
      BY <1>1, <3>1, <3>2 DEF Differs, Posted
    <3>3. CASE n \in names
      BY <3>1, <3>3
    <3> QED
      BY <3>2, <3>3
  <2> QED
    BY <1>2, <2>2, <2>3, <2>4 DEF Posted
<1> QED
  BY <1>3, <1>4, <1>5 DEF Lists

LEMMA OpensKeeps ==
  ASSUME FolderInv, NEW initial \in BOOLEAN, Opens(initial), initial => snapshot = NoFiles,
         ~available, UNCHANGED <<sizes, old, reach, ame, desired>>, inWatch' = TRUE,
         command' \in BOOLEAN
  PROVE  FolderInv'
<1>1. FolderTypeOK /\ Watching /\ Posted /\ Told /\ OutagesAreTold
      /\ \A x \in Names : HasLast(Words(x, Kinds))
  BY DEF FolderInv
<1>0. /\ inWatch => outcome = "unavailable" /\ retry
      /\ ~inWatch => outcome = "none" /\ ~retry
  BY <1>1 DEF Watching, OutagesAreTold
<1>2. CASE reach
  <2>1. /\ active' = TRUE /\ raised' = <<>> /\ overflow' = FALSE /\ available' = TRUE
        /\ retry' = FALSE /\ debounced' = Quiet /\ outcome' = "available" /\ Lists(initial)
    BY <1>0, <1>1, <1>2, FolderTypes DEF Opens, Tells
  <2>2. /\ snapshot' \in Sizes /\ view' \in Sizes /\ skipped' \subseteq Names
        /\ Posted' /\ \A n \in Names \ skipped' : view'[n] = sizes[n]
    BY <2>1, ListsKeeps
  <2>3. debounced' \in Pending /\ raised' \in Seq(Names \X Kinds) /\ Len(raised') <= MaxNotified
    BY <2>1, FolderAssumption DEF Pending, Quiet
  <2>4. FolderTypeOK'
    BY <1>1, <2>1, <2>2, <2>3, FolderTypes DEF FolderTypeOK, Sizes, Pending
  <2>5. \A n \in Names : HasLast(Words(n, Kinds)') /\ LastWord(n)' = "none"
    BY <2>1 DEF Words, HasLast, LastWord, Quiet
  <2> QED
    BY <2>1, <2>2, <2>4, <2>5 DEF FolderInv, Watching, Told, OutagesAreTold
<1>3. CASE ~reach
  <2>1. /\ available' = FALSE /\ retry' = TRUE /\ debounced' = Quiet
        /\ IF FailureIsNews THEN Tells("unavailable") ELSE UNCHANGED outcome
        /\ UNCHANGED <<active, raised, overflow, snapshot, view, skipped>>
    BY <1>3 DEF Opens, watchVars
  <2>2. debounced' \in Pending
    BY <2>1 DEF Pending, Quiet
  <2>3. outcome' = "unavailable"
    BY <1>0, <1>1, <2>1, FolderTypes DEF FailureIsNews, Tells
  <2>4. FolderTypeOK'
    BY <1>1, <2>1, <2>2, <2>3, FolderTypes DEF FolderTypeOK, Sizes, Pending
  <2>5. \A n \in Names : Words(n, Kinds)' = Words(n, Kinds)
    BY <2>1 DEF Words
  <2>6. active = FALSE /\ raised = <<>> /\ ~overflow
    BY <1>1, FolderTypes DEF Watching
  <2>7. Watching'
    BY <2>1, <2>6 DEF Watching
  <2>8. Posted' /\ Told' /\ OutagesAreTold'
    BY <1>1, <2>1, <2>3, <2>6 DEF Posted, Told, OutagesAreTold
  <2> QED
    BY <1>1, <2>4, <2>5, <2>7, <2>8 DEF FolderInv
<1> QED
  BY <1>1, <1>2, <1>3, FolderTypes

LEMMA CommandsKeep == ASSUME FolderInv, Commands PROVE FolderInv'
<1>1. FolderTypeOK /\ Watching /\ Posted /\ Told /\ OutagesAreTold
      /\ \A x \in Names : HasLast(Words(x, Kinds))
  BY DEF FolderInv
<1>2. command' = FALSE /\ inWatch' = desired /\ UNCHANGED <<sizes, old, reach, ame, desired>>
  BY DEF Commands
<1>3. CASE desired = inWatch /\ UNCHANGED <<watchVars, stateVars, ghosts, outages>>
  <2>1. UNCHANGED <<inWatch, active, raised, overflow, available, retry, debounced, snapshot,
                    outcome, view, skipped>>
    BY <1>1, <1>2, <1>3, FolderTypes DEF watchVars, stateVars, ghosts
  <2>2. FolderTypeOK'
    BY <1>1, <1>2, <2>1, FolderTypes DEF FolderTypeOK, Sizes, Pending
  <2>3. \A n \in Names : Words(n, Kinds)' = Words(n, Kinds) /\ LastWord(n)' = LastWord(n)
    BY <2>1 DEF Words, LastWord
  <2> QED
    BY <1>1, <1>2, <2>1, <2>2, <2>3 DEF FolderInv, Watching, Posted, Told, OutagesAreTold
<1>4. CASE desired /\ ~inWatch /\ Opens(TRUE)
  <2>1. snapshot = NoFiles /\ ~available /\ inWatch' = TRUE
    BY <1>1, <1>2, <1>4, FolderTypes DEF Watching
  <2> QED
    BY <1>2, <1>4, <2>1, OpensKeeps
<1>5. CASE /\ ~desired /\ inWatch
           /\ active' = FALSE /\ raised' = <<>> /\ overflow' = FALSE
           /\ available' = FALSE /\ retry' = FALSE /\ debounced' = Quiet /\ snapshot' = NoFiles
           /\ outcome' = "none" /\ view' = NoFiles /\ skipped' = {}
  <2>1. NoFiles \in Sizes /\ Quiet \in Pending /\ <<>> \in Seq(Names \X Kinds) /\ Len(<<>>) <= MaxNotified
    BY FolderAssumption DEF NoFiles, Quiet, Sizes, Pending
  <2>2. FolderTypeOK'
    BY <1>1, <1>2, <1>5, <2>1, FolderTypes DEF FolderTypeOK, Sizes, Pending
  <2>3. \A n \in Names : HasLast(Words(n, Kinds)')
    BY <1>5 DEF Words, HasLast
  <2> QED
    BY <1>2, <1>5, <2>2, <2>3 DEF FolderInv, Watching, Posted, Told, OutagesAreTold
<1> QED
  BY <1>3, <1>4, <1>5 DEF Commands

LEMMA WatchDiesKeeps == ASSUME FolderInv, WatchDies PROVE FolderInv'
<1>1. FolderTypeOK /\ Watching /\ Posted /\ OutagesAreTold
  BY DEF FolderInv
<1>2. /\ active' = FALSE /\ raised' = <<>> /\ overflow' = FALSE /\ available' = FALSE /\ retry' = TRUE
      /\ debounced' = Quiet /\ outcome' = "unavailable" /\ inWatch
      /\ UNCHANGED <<sizes, old, reach, ame, desired, command, inWatch, snapshot, view, skipped>>
  BY <1>1, FolderTypes DEF WatchDies, Tells, OutagesAreTold, Watching, osVars, listVars
<1>3. Quiet \in Pending /\ <<>> \in Seq(Names \X Kinds) /\ Len(<<>>) <= MaxNotified
  BY FolderAssumption DEF Quiet, Pending
<1>4. FolderTypeOK'
  BY <1>1, <1>2, <1>3, FolderTypes DEF FolderTypeOK, Sizes, Pending
<1>5. \A n \in Names : HasLast(Words(n, Kinds)')
  BY <1>2 DEF Words, HasLast
<1> QED
  BY <1>1, <1>2, <1>4, <1>5 DEF FolderInv, Watching, Posted, Told, OutagesAreTold

LEMMA OverflowsKeeps == ASSUME FolderInv, Overflows PROVE FolderInv'
<1>1. FolderTypeOK /\ Watching /\ Posted /\ OutagesAreTold
  BY DEF FolderInv
<1>2. /\ inWatch /\ active /\ raised' = <<>> /\ overflow' = FALSE /\ debounced' = Quiet /\ Lists(FALSE)
      /\ UNCHANGED <<sizes, old, reach, ame, desired, command, inWatch, active, available, retry, outcome>>
  BY DEF Overflows, listVars
<1>3. /\ snapshot' \in Sizes /\ view' \in Sizes /\ skipped' \subseteq Names
      /\ Posted' /\ \A n \in Names \ skipped' : view'[n] = sizes[n]
  BY <1>2, ListsKeeps
<1>4. Quiet \in Pending /\ <<>> \in Seq(Names \X Kinds) /\ Len(<<>>) <= MaxNotified
  BY FolderAssumption DEF Quiet, Pending
<1>5. FolderTypeOK'
  BY <1>1, <1>2, <1>3, <1>4, FolderTypes DEF FolderTypeOK, Sizes, Pending
<1>6. \A n \in Names : HasLast(Words(n, Kinds)') /\ LastWord(n)' = "none"
  BY <1>2 DEF Words, HasLast, LastWord, Quiet
<1> QED
  BY <1>1, <1>2, <1>3, <1>5, <1>6 DEF FolderInv, Watching, Told, OutagesAreTold

LEMMA DrainsKeeps == ASSUME FolderInv, Drains PROVE FolderInv'
<1>1. FolderTypeOK /\ Watching /\ Posted /\ Told /\ OutagesAreTold
      /\ \A x \in Names : HasLast(Words(x, Kinds))
  BY DEF FolderInv
<1>2. /\ active /\ ~overflow /\ raised' = <<>> /\ debounced' = [n \in Names |-> Merged(n)]
      /\ UNCHANGED <<sizes, old, reach, ame, desired, command, inWatch, active, overflow,
                     available, retry, snapshot, outcome, view, skipped>>
  BY DEF Drains, osVars, listVars, ghosts
<1>3. raised \in Seq(Names \X Kinds) /\ debounced \in Pending
  BY <1>1, FolderTypes
<1>4. \A n \in Names : /\ Merged(n) \in Kinds \cup {"none"}
                       /\ Merged(n) = "Remove" <=> LastWord(n) = "Remove"
                       /\ Merged(n) = "none" <=> LastWord(n) = "none"
  BY <1>1, <1>3, MergedIsTheWord
<1>5. debounced' \in Pending /\ raised' \in Seq(Names \X Kinds) /\ Len(raised') <= MaxNotified
  BY <1>2, <1>4, FolderAssumption DEF Pending
<1>6. FolderTypeOK'
  BY <1>1, <1>2, <1>5, FolderTypes DEF FolderTypeOK, Sizes, Pending
<1>7. \A n \in Names : HasLast(Words(n, Kinds)') /\ LastWord(n)' = Merged(n)
  BY <1>2 DEF Words, HasLast, LastWord
<1>8. Told'
  BY <1>1, <1>2, <1>4, <1>7 DEF Told
<1> QED
  BY <1>1, <1>2, <1>6, <1>7, <1>8 DEF FolderInv, Watching, Posted, OutagesAreTold

LEMMA FlushesKeeps == ASSUME FolderInv, NEW names \in SUBSET Names, Flushes(names) PROVE FolderInv'
<1> DEFINE f == Classified(names, debounced)
<1>1. FolderTypeOK /\ Watching /\ Posted /\ Told /\ OutagesAreTold
      /\ \A x \in Names : HasLast(Words(x, Kinds))
  BY DEF FolderInv
<1>2. /\ inWatch /\ available
      /\ debounced' = [n \in Names |-> IF n \in names THEN "none" ELSE debounced[n]]
      /\ snapshot' = f.snap /\ view' = f.view /\ skipped' = f.skip
      /\ UNCHANGED <<sizes, old, reach, ame, desired, command, inWatch, active, raised, overflow,
                     available, retry, outcome>>
  BY DEF Flushes, osVars, listVars, watchVars
<1>3. debounced \in Pending /\ view \in Sizes /\ snapshot \in Sizes
  BY <1>1, FolderTypes
<1>4. snapshot' \in Sizes /\ view' \in Sizes /\ skipped' \subseteq Names /\ debounced' \in Pending
  <2>1. f.snap \in Sizes /\ f.view \in Sizes /\ f.skip \subseteq Names
    BY <1>1, <1>3, ClassifiedTypes
  <2> QED
    BY <1>2, <1>3, <2>1 DEF Pending
<1>5. FolderTypeOK'
  BY <1>1, <1>2, <1>4, FolderTypes DEF FolderTypeOK, Sizes, Pending
<1>6. ASSUME NEW n \in Names, n \notin skipped'
      PROVE  /\ view'[n] = snapshot'[n]
             /\ n \notin names => n \notin skipped /\ view'[n] = view[n]
             /\ n \in names => view'[n] = (IF debounced[n] = "Remove" THEN 0 ELSE sizes[n])
  BY <1>1, <1>2, <1>3, <1>6, ClassifiedTells
<1>7. \A n \in Names : /\ Words(n, Kinds)' = Words(n, Kinds)
                       /\ LastWord(n)' = IF Words(n, Kinds) = {} /\ n \in names THEN "none" ELSE LastWord(n)
                       /\ Words(n, Kinds) = {} => LastWord(n) = debounced[n]
  BY <1>2 DEF Words, LastWord
<1>8. Told'
  <2> SUFFICES ASSUME active', ~overflow', NEW n \in Names
               PROVE  /\ LastWord(n)' = "Remove" => sizes'[n] = 0
                      /\ n \notin skipped' /\ LastWord(n)' = "none" => view'[n] = sizes'[n]
    BY DEF Told
  <2>1. /\ LastWord(n) = "Remove" => sizes[n] = 0
        /\ n \notin skipped /\ LastWord(n) = "none" => view[n] = sizes[n]
    BY <1>1, <1>2 DEF Told
  <2>2. LastWord(n)' = "Remove" => sizes'[n] = 0
    BY <1>2, <1>7, <2>1
  <2>3. ASSUME n \notin skipped', LastWord(n)' = "none" PROVE view'[n] = sizes'[n]
    <3>1. CASE n \notin names
      BY <1>2, <1>6, <1>7, <2>1, <2>3, <3>1
    <3>2. CASE n \in names
      <4>1. Words(n, Kinds) = {}
        <5>1. ASSUME Words(n, Kinds) # {} PROVE LastWord(n) \in Kinds
          <6>1. Words(n, Kinds) \in SUBSET Nat /\ Words(n, Kinds) \subseteq DOMAIN raised
            BY <1>1, FolderTypes DEF Words
          <6>2. LastOf(Words(n, Kinds)) \in Words(n, Kinds)
            BY <1>1, <5>1, <6>1, LastIsLast
          <6> QED
            BY <5>1, <6>2 DEF LastWord, Words
        <5> QED
          BY <1>7, <2>3, <5>1 DEF Kinds
      <4>2. debounced[n] = "Remove" => sizes[n] = 0
        BY <1>7, <2>1, <4>1
      <4> QED
        BY <1>2, <1>6, <2>3, <3>2, <4>2
    <3> QED
      BY <3>1, <3>2
  <2> QED
    BY <2>2, <2>3
<1>9. Posted'
  BY <1>6 DEF Posted
<1> QED
  BY <1>1, <1>2, <1>5, <1>7, <1>8, <1>9 DEF FolderInv, Watching, OutagesAreTold

LEMMA FolderInitInv == FolderInit => FolderInv
<1> SUFFICES ASSUME FolderInit PROVE FolderInv
  OBVIOUS
<1>1. NoFiles \in Sizes /\ Quiet \in Pending /\ <<>> \in Seq(Names \X Kinds) /\ Len(<<>>) <= MaxNotified
  BY FolderAssumption DEF NoFiles, Quiet, Sizes, Pending
<1>2. sizes \in Sizes /\ old \subseteq Names
  BY FolderAssumption DEF FolderInit, Sizes
<1>3. FolderTypeOK
  BY <1>1, <1>2, FolderTypes DEF FolderInit
<1> QED
  BY <1>3, NoWord DEF FolderInit, FolderInv, Watching, Posted, Told, OutagesAreTold

LEMMA FolderNextInv == FolderInv /\ [FolderNext]_folderVars => FolderInv'
<1> SUFFICES ASSUME FolderInv, [FolderNext]_folderVars PROVE FolderInv'
  OBVIOUS
<1>1. FolderTypeOK /\ Watching /\ Posted /\ Told /\ OutagesAreTold
      /\ \A x \in Names : HasLast(Words(x, Kinds))
  BY DEF FolderInv
<1>2. ASSUME UNCHANGED <<sizes, inWatch, active, raised, overflow, available, retry, debounced,
                         snapshot, outcome, view, skipped>>,
             old' \subseteq Names, reach' \in BOOLEAN, ame' \in BOOLEAN, desired' \in BOOLEAN,
             command' \in BOOLEAN
      PROVE  FolderInv'
  <2>1. FolderTypeOK'
    BY <1>1, <1>2, FolderTypes DEF FolderTypeOK, Sizes, Pending
  <2> QED
    BY <1>1, <1>2, <2>1 DEF FolderInv, Watching, Posted, Told, OutagesAreTold, Words, LastWord
<1>3. CASE \/ \E n \in Names : Ages(n)
           \/ AmeEnds \/ GoesAway \/ ComesBack
           \/ \E on \in BOOLEAN : SetDesired(on)
           \/ UNCHANGED folderVars
  BY <1>1, <1>2, <1>3, FolderTypes DEF Ages, AmeEnds, GoesAway, ComesBack, SetDesired, folderVars,
                                       osVars, listVars, watchVars, stateVars, ghosts
<1>4. CASE Retries
  <2>1. /\ inWatch' = TRUE /\ ~available /\ Opens(snapshot = NoFiles) /\ command' \in BOOLEAN
        /\ UNCHANGED <<sizes, old, reach, ame, desired>>
    BY <1>1, <1>4, FolderTypes DEF Retries, listVars
  <2>2. (snapshot = NoFiles) \in BOOLEAN
    OBVIOUS
  <2> QED
    BY <2>1, <2>2, OpensKeeps
<1> QED
  BY <1>3, <1>4, DiskKeeps, CommandsKeep, WatchDiesKeeps, OverflowsKeeps, DrainsKeeps, FlushesKeeps
     DEF FolderNext

(* For any files, sizes and buffer of the watch: whenever the watcher has    *)
(* nothing left to do, what it has posted says what the folder holds, and    *)
(* the last availability event is what it believes (FolderWatcher,           *)
(* DirectoryWatch).                                                          *)
THEOREM FolderTold == FolderSpec => []FolderIsTold
<1>1. FolderInv => FolderIsTold
  <2> SUFFICES ASSUME FolderInv, Settled, NEW n \in Names \ skipped PROVE view[n] = sizes[n]
    BY DEF FolderInv, FolderIsTold, EventsTellTheFolder
  <2>1. LastWord(n) = "none"
    BY NoWord DEF Settled, Quiet
  <2> QED
    BY <2>1 DEF FolderInv, Told, Watching, Settled
<1> QED
  BY <1>1, FolderInitInv, FolderNextInv, PTL DEF FolderSpec

-----------------------------------------------------------------------------
(* The pipe.  What the count will be once every event is applied is found by *)
(* walking the events from the count and never below 0; it is the number of  *)
(* clients when no rest of the events adds more than that number, and some   *)
(* rest, or the count with all of them, makes exactly that (Balanced; d is   *)
(* what each rest adds).  It survives a stop, which zeroes the count with    *)
(* events still on their way.                                                *)
Worth(e) == IF e.kind = "line" THEN 0 ELSE IF e.connected THEN 1 ELSE -1
Adds(d, q) ==
    /\ d \in [1 .. (Len(q) + 1) -> Int] /\ d[Len(q) + 1] = 0
    /\ \A k \in 1 .. Len(q) : d[k] = d[k + 1] + Worth(q[k])
Balanced(c, q, f) ==
    \E d \in [1 .. (Len(q) + 1) -> Int] :
        /\ Adds(d, q) /\ c + d[1] <= f
        /\ \A k \in 1 .. (Len(q) + 1) : d[k] <= f
        /\ c + d[1] = f \/ \E k \in 1 .. (Len(q) + 1) : d[k] = f

Connected(at) == {s \in Slots : at[s].con}

(* The bytes of a client: buffer and unread pieces follow one another from   *)
(* the start of a line.                                                      *)
Stream(b, r) ==
    /\ \A i \in 1 .. Len(b) : /\ b[i].of = r.peer /\ b[i].n = r.pieces - Len(b) + i
                              /\ b[i].starts <=> (i = 1 \/ b[i - 1].ends)
    /\ r.mid <=> (Len(b) > 0 /\ ~b[Len(b)].ends)
Orderly(r) ==
    /\ Stream(r.inb \o r.unread, r)
    /\ r.con => r.pipe = "reading"
    /\ r.pipe = "reading" => r.peer # NoPeer
    /\ ~r.con => r.inb = <<>>
    /\ r.peer = NoPeer => r.unread = <<>> /\ r.inb = <<>> /\ r.pieces = 0 /\ r.mid = FALSE

WholeLine(l, who) ==
    \A k \in DOMAIN l : /\ l[k].of = who /\ l[k].n = l[1].n + k - 1
                        /\ l[k].starts <=> k = 1
                        /\ l[k].ends <=> k = Len(l)
Whole(e) == e.kind = "line" => WholeLine(e.pieces, e.who)
AllWhole(q) == \A i \in 1 .. Len(q) : Whole(q[i])

Kept(at, c, q) ==
    /\ at \in [Slots -> Client] /\ \A s \in Slots : Orderly(at[s])
    /\ q \in Seq(Event) /\ AllWhole(q) /\ Balanced(c, q, Cardinality(Connected(at)))
LinkInv == /\ LinkTypeOK /\ Kept(slot, count, events)
           /\ server = "stopped" => Connected(slot) = {}

-----------------------------------------------------------------------------
(* The count *)

LEMMA ConsFinite ==
  ASSUME NEW at PROVE IsFiniteSet(Connected(at)) /\ Cardinality(Connected(at)) \in Nat
BY LinkAssumption, FS_Subset, FS_CardinalityType DEF Connected

LEMMA WorthType == ASSUME NEW e \in Event PROVE Worth(e) \in {-1, 0, 1}
BY DEF Worth, Event

\* Events that change the number of clients by what they add, and never add more than it.
LEMMA Posting ==
  ASSUME NEW c \in Int, NEW q \in Seq(Event), NEW p \in Seq(Event), NEW f \in Int, NEW g \in Nat,
         Balanced(c, q, f), NEW d, Adds(d, p), d[1] = g - f,
         \A k \in 1 .. (Len(p) + 1) : d[k] <= g
  PROVE  Balanced(c, q \o p, g)
<1> DEFINE n == Len(q)
           m == Len(p)
           t == q \o p
<1>1. PICK a \in [1 .. (n + 1) -> Int] :
           /\ Adds(a, q) /\ c + a[1] <= f
           /\ \A k \in 1 .. (n + 1) : a[k] <= f
           /\ c + a[1] = f \/ \E k \in 1 .. (n + 1) : a[k] = f
  BY DEF Balanced
<1> DEFINE b == [k \in 1 .. (Len(t) + 1) |-> IF k <= n THEN a[k] + d[1] ELSE d[k - n]]
<1>2. /\ t \in Seq(Event) /\ Len(t) = n + m /\ n \in Nat /\ m \in Nat
      /\ \A k \in 1 .. n : t[k] = q[k]
      /\ \A k \in (n + 1) .. (n + m) : t[k] = p[k - n]
      /\ \A k \in 1 .. n : q[k] \in Event
  OBVIOUS
<1>3. /\ d \in [1 .. (m + 1) -> Int] /\ d[m + 1] = 0 /\ a[n + 1] = 0
      /\ \A k \in 1 .. m : d[k] = d[k + 1] + Worth(p[k])
      /\ \A k \in 1 .. n : a[k] = a[k + 1] + Worth(q[k])
  BY <1>1 DEF Adds
<1>t. t = q \o p
  OBVIOUS
<1>n. n = Len(q) /\ m = Len(p)
  OBVIOUS
<1> HIDE DEF t, n, m
<1>a. a \in [1 .. (n + 1) -> Int] /\ c + a[1] <= f /\ (\A k \in 1 .. (n + 1) : a[k] <= f)
      /\ (c + a[1] = f \/ \E k \in 1 .. (n + 1) : a[k] = f)
      /\ d[1] = g - f /\ (\A k \in 1 .. (m + 1) : d[k] <= g)
  BY <1>1, <1>n
<1>4. d[1] \in Int /\ \A k \in 1 .. (n + 1) : b[k] = a[k] + d[1] /\ b[k] \in Int
  <2>1. d[1] \in Int
    BY <1>2, <1>3
  <2>2. ASSUME NEW k \in 1 .. (n + 1) PROVE b[k] = a[k] + d[1] /\ b[k] \in Int
    <3>1. k \in 1 .. (Len(t) + 1) /\ a[k] \in Int
      BY <1>2, <1>a, SMTT(30)
    <3>2. CASE k <= n
      BY <2>1, <3>1, <3>2
    <3>3. CASE k = n + 1
      BY <1>2, <1>3, <2>1, <3>1, <3>3
    <3> QED
      BY <1>2, <3>2, <3>3
  <2> QED
    BY <2>1, <2>2
<1>5. \A k \in (n + 1) .. (n + m + 1) : b[k] = d[k - n] /\ b[k] \in Int /\ b[k] <= g
  <2> SUFFICES ASSUME NEW k \in (n + 1) .. (n + m + 1)
               PROVE  b[k] = d[k - n] /\ b[k] \in Int /\ b[k] <= g
    OBVIOUS
  <2>1. k \in 1 .. (Len(t) + 1) /\ ~(k <= n) /\ k - n \in 1 .. (m + 1)
    BY <1>2, SMTT(30)
  <2>2. b[k] = d[k - n]
    BY <2>1
  <2> QED
    BY <1>3, <1>a, <2>1, <2>2
<1>6. b \in [1 .. (Len(t) + 1) -> Int]
  <2>1. \A k \in 1 .. (Len(t) + 1) : k \in 1 .. (n + 1) \/ k \in (n + 1) .. (n + m + 1)
    BY <1>2
  <2>2. \A k \in 1 .. (Len(t) + 1) : b[k] \in Int
    BY <1>4, <1>5, <2>1
  <2> QED
    BY <2>2
<1> HIDE DEF b
<1>7. ASSUME NEW k \in 1 .. Len(t) PROVE b[k] = b[k + 1] + Worth(t[k])
  <2>1. CASE k <= n
    <3>0. k \in 1 .. n /\ k \in 1 .. (n + 1) /\ k + 1 \in 1 .. (n + 1)
      BY <1>2, <2>1
    <3>w. q[k] \in Event
      BY <1>2, <3>0
    <3>u. Worth(q[k]) \in {-1, 0, 1}
      BY <3>w, WorthType
    <3>x. Worth(q[k]) \in Int
      BY <3>u
    <3>y. t[k] = q[k]
      BY <1>2, <3>0
    <3>z. a[k] = a[k + 1] + Worth(q[k])
      BY <1>3, <3>0
    <3>2. b[k] = a[k] + d[1] /\ b[k + 1] = a[k + 1] + d[1]
      BY <1>4, <3>0
    <3>3. a[k + 1] \in Int /\ d[1] \in Int
      BY <1>4, <1>a, <3>0
    <3> QED
      BY <3>x, <3>y, <3>z, <3>2, <3>3
  <2>2. CASE k > n
    <3>0. k \in (n + 1) .. (n + m) /\ k \in (n + 1) .. (n + m + 1) /\ k + 1 \in (n + 1) .. (n + m + 1)
      BY <1>2, <2>2, SMTT(30)
    <3>1. t[k] = p[k - n] /\ k - n \in 1 .. m /\ b[k] = d[k - n] /\ b[k + 1] = d[k + 1 - n]
      BY <1>2, <1>5, <3>0
    <3>2. k + 1 - n = (k - n) + 1
      BY <1>2, <3>0
    <3> QED
      BY <1>3, <3>1, <3>2
  <2> QED
    BY <1>2, <2>1, <2>2
<1>8. b[Len(t) + 1] = 0
  <2>1. Len(t) + 1 \in (n + 1) .. (n + m + 1) /\ (Len(t) + 1) - n = m + 1
    BY <1>2, SMTT(30)
  <2> QED
    BY <1>3, <1>5, <2>1
<1>9. c + b[1] <= g /\ \A k \in 1 .. (Len(t) + 1) : b[k] <= g
  <2>1. 1 \in 1 .. (n + 1) /\ a[1] \in Int
    BY <1>2, <1>a
  <2>2. c + b[1] <= g
    BY <1>4, <1>a, <2>1
  <2>3. ASSUME NEW k \in 1 .. (n + 1) PROVE b[k] <= g
    <3>1. a[k] \in Int /\ a[k] <= f /\ b[k] = a[k] + d[1]
      BY <1>4, <1>a
    <3> QED
      BY <1>4, <1>a, <3>1
  <2>4. \A k \in 1 .. (Len(t) + 1) : k \in 1 .. (n + 1) \/ k \in (n + 1) .. (n + m + 1)
    BY <1>2
  <2> QED
    BY <1>5, <2>2, <2>3, <2>4
<1>10. c + b[1] = g \/ \E k \in 1 .. (Len(t) + 1) : b[k] = g
  <2>1. CASE c + a[1] = f
    <3>1. 1 \in 1 .. (n + 1) /\ a[1] \in Int
      BY <1>2, <1>a
    <3>2. b[1] = a[1] + d[1] /\ d[1] = g - f
      BY <1>4, <1>a, <3>1
    <3>3. c + b[1] = g
      BY <2>1, <3>1, <3>2, SMTT(30)
    <3> QED
      BY <3>3
  <2>2. ASSUME NEW k \in 1 .. (n + 1), a[k] = f PROVE b[k] = g /\ k \in 1 .. (Len(t) + 1)
    <3>1. k \in 1 .. (Len(t) + 1)
      BY <1>2, SMTT(30)
    <3>2. b[k] = f + d[1]
      BY <1>4, <2>2
    <3> QED
      BY <1>a, <3>1, <3>2
  <2> QED
    BY <1>a, <2>1, <2>2
<1> QED
  BY <1>6, <1>7, <1>8, <1>9, <1>10, <1>t DEF Balanced, Adds

\* The same when the count is zeroed with the clients.
LEMMA Zeroing ==
  ASSUME NEW c \in Int, NEW q \in Seq(Event), NEW p \in Seq(Event), NEW f \in Int,
         Balanced(c, q, f), NEW d, Adds(d, p), d[1] = -f,
         \A k \in 1 .. (Len(p) + 1) : d[k] <= 0
  PROVE  Balanced(0, q \o p, 0)
<1>1. Balanced(c, q \o p, 0)
  BY Posting
<1>2. q \o p \in Seq(Event) /\ Len(q \o p) \in Nat
  OBVIOUS
<1>3. PICK b \in [1 .. (Len(q \o p) + 1) -> Int] :
           Adds(b, q \o p) /\ \A k \in 1 .. (Len(q \o p) + 1) : b[k] <= 0
  BY <1>1 DEF Balanced
<1>4. b[Len(q \o p) + 1] = 0 /\ b[1] \in Int
  BY <1>2, <1>3 DEF Adds
<1> DEFINE L == Len(q \o p) + 1
<1>5. L \in 1 .. L /\ b[L] = 0 /\ 1 \in 1 .. L
  BY <1>2, <1>4
<1>6. 0 + b[1] <= 0
  BY <1>3, <1>4, <1>5
<1> QED
  BY <1>3, <1>5, <1>6 DEF Balanced

\* Engine::apply takes the first.
LEMMA Applying ==
  ASSUME NEW c \in Nat, NEW q \in Seq(Event), q # <<>>, NEW f \in Nat, Balanced(c, q, f)
  PROVE  Balanced(IF Worth(Head(q)) = 0 THEN c
                  ELSE IF Worth(Head(q)) = 1 THEN c + 1 ELSE IF c > 0 THEN c - 1 ELSE 0, Tail(q), f)
<1> DEFINE n == Len(q)
           t == Tail(q)
           w == Worth(q[1])
           c2 == IF w = 0 THEN c ELSE IF w = 1 THEN c + 1 ELSE IF c > 0 THEN c - 1 ELSE 0
<1>1. PICK a \in [1 .. (n + 1) -> Int] :
           /\ Adds(a, q) /\ c + a[1] <= f
           /\ \A k \in 1 .. (n + 1) : a[k] <= f
           /\ c + a[1] = f \/ \E k \in 1 .. (n + 1) : a[k] = f
  BY DEF Balanced
<1> DEFINE b == [k \in 1 .. (Len(t) + 1) |-> a[k + 1]]
<1>2. /\ n \in Nat /\ n > 0 /\ t \in Seq(Event) /\ Len(t) = n - 1 /\ Head(q) = q[1]
      /\ \A k \in 1 .. (n - 1) : t[k] = q[k + 1]
      /\ q[1] \in Event
  OBVIOUS
<1>3. /\ a[n + 1] = 0 /\ a[1] = a[2] + w
      /\ \A k \in 1 .. (n - 1) : a[k + 1] = a[k + 2] + Worth(q[k + 1])
  <2>1. a[n + 1] = 0 /\ \A k \in 1 .. n : a[k] = a[k + 1] + Worth(q[k])
    BY <1>1 DEF Adds
  <2> QED
    BY <1>2, <2>1
<1>4. w \in {-1, 0, 1}
  BY <1>2, WorthType
<1>5. /\ b \in [1 .. (Len(t) + 1) -> Int] /\ b[Len(t) + 1] = 0
      /\ b[1] = a[2] /\ a[1] \in Int /\ a[2] \in Int
  BY <1>1, <1>2, <1>3
<1>6. ASSUME NEW k \in 1 .. Len(t) PROVE b[k] = b[k + 1] + Worth(t[k])
  <2>1. b[k] = a[k + 1] /\ b[k + 1] = a[k + 2] /\ k \in 1 .. (n - 1)
    BY <1>2
  <2> QED
    BY <1>2, <1>3, <2>1
<1>7. \A k \in 1 .. (Len(t) + 1) : b[k] <= f
  BY <1>1, <1>2
<1>8. c2 + b[1] <= f
  BY <1>1, <1>2, <1>3, <1>4, <1>5
<1>9. c2 + b[1] = f \/ \E k \in 1 .. (Len(t) + 1) : b[k] = f
  <2>1. CASE c + a[1] = f
    <3>1. CASE w # -1 \/ c > 0
      BY <1>3, <1>4, <1>5, <2>1, <3>1
    <3>2. CASE w = -1 /\ c = 0
      <4>1. a[2] = f + 1 /\ a[2] <= f
        BY <1>1, <1>2, <1>3, <1>5, <2>1, <3>2
      <4> QED
        BY <1>5, <4>1
    <3> QED
      BY <1>4, <3>1, <3>2
  <2>2. ASSUME c + a[1] # f, NEW k \in 1 .. (n + 1), a[k] = f
        PROVE  k - 1 \in 1 .. (Len(t) + 1) /\ b[k - 1] = f
    <3>1. k # 1
      BY <1>1, <1>5, <2>2
    <3> QED
      BY <1>2, <2>2, <3>1
  <2> QED
    BY <1>1, <2>1, <2>2
<1> HIDE DEF b
<1>10. Balanced(c2, t, f)
  BY <1>5, <1>6, <1>7, <1>8, <1>9 DEF Balanced, Adds
<1> QED
  BY <1>2, <1>10

-----------------------------------------------------------------------------
(* The events *)

LEMMA Ordered ==
  ASSUME NEW S \in SUBSET Nat, IsFiniteSet(S), NEW q \in InOrder(S)
  PROVE  /\ q \in Seq(S) /\ Len(q) = Cardinality(S) /\ Cardinality(S) \in Nat
         /\ \A x \in S : \E i \in 1 .. Len(q) : q[i] = x
         /\ \A i, j \in 1 .. Len(q) : i < j => q[i] < q[j]
<1>1. Cardinality(S) \in Nat
  BY FS_CardinalityType
<1>2. q \in [1 .. Cardinality(S) -> S] /\ DOMAIN q = 1 .. Cardinality(S)
  BY DEF InOrder
<1>3. q \in Seq(S) /\ Len(q) = Cardinality(S)
  BY <1>1, <1>2
<1> QED
  BY <1>1, <1>2, <1>3 DEF InOrder

LEMMA GoodbyesAdd ==
  ASSUME NEW S \in SUBSET Slots, NEW at, \A s \in Slots : at[s].peer \in Nat,
         NEW p \in Goodbyes(S, at)
  PROVE  /\ p \in Seq(Event) /\ AllWhole(p) /\ Cardinality(S) \in Nat
         /\ \E d : /\ Adds(d, p) /\ d[1] = -Cardinality(S)
                   /\ \A k \in 1 .. (Len(p) + 1) : d[k] <= 0
<1> DEFINE n == Cardinality(S)
<1>1. PICK q \in InOrder(S) : p = [k \in DOMAIN q |-> Disconnects(q[k], at[q[k]].peer)]
  BY DEF Goodbyes
<1>2. S \in SUBSET Nat /\ IsFiniteSet(S)
  BY LinkAssumption, FS_Subset
<1>3. q \in Seq(S) /\ Len(q) = n /\ n \in Nat /\ DOMAIN q = 1 .. n
  BY <1>2, Ordered
<1>4. \A k \in 1 .. n : /\ p[k] \in Event /\ p[k].kind = "client" /\ p[k].connected = FALSE
  <2> SUFFICES ASSUME NEW k \in 1 .. n
               PROVE  p[k] \in Event /\ p[k].kind = "client" /\ p[k].connected = FALSE
    OBVIOUS
  <2>1. q[k] \in Slots /\ at[q[k]].peer \in Nat
    BY <1>3
  <2>2. p[k] = [kind |-> "client", id |-> q[k], connected |-> FALSE, who |-> at[q[k]].peer]
    BY <1>1, <1>3 DEF Disconnects
  <2> QED
    BY <2>1, <2>2 DEF Event
<1>5. p \in Seq(Event) /\ Len(p) = n
  BY <1>1, <1>3, <1>4
<1>6. AllWhole(p) /\ \A k \in 1 .. n : Worth(p[k]) = -1
  BY <1>4, <1>5 DEF AllWhole, Whole, Worth
<1> DEFINE d == [k \in 1 .. (Len(p) + 1) |-> k - n - 1]
<1>7. Adds(d, p) /\ d[1] = -n /\ \A k \in 1 .. (Len(p) + 1) : d[k] <= 0
  BY <1>3, <1>5, <1>6 DEF Adds
<1> QED
  BY <1>3, <1>5, <1>6, <1>7

LEMMA ConcatWhole ==
  ASSUME NEW q \in Seq(Event), NEW p \in Seq(Event), AllWhole(q), AllWhole(p)
  PROVE  q \o p \in Seq(Event) /\ AllWhole(q \o p)
<1>1. /\ q \o p \in Seq(Event) /\ Len(q \o p) = Len(q) + Len(p)
      /\ \A k \in 1 .. Len(q) : (q \o p)[k] = q[k]
      /\ \A k \in (Len(q) + 1) .. (Len(q) + Len(p)) : (q \o p)[k] = p[k - Len(q)] /\ k - Len(q) \in 1 .. Len(p)
  OBVIOUS
<1> QED
  BY <1>1 DEF AllWhole

\* What posts add up to the change of the number of clients keeps everything.
LEMMA PostsKeep ==
  ASSUME NEW at, NEW c \in Nat, NEW q, Kept(at, c, q),
         NEW new \in [Slots -> Client], \A s \in Slots : Orderly(new[s]),
         NEW p \in Seq(Event), AllWhole(p), NEW d, Adds(d, p),
         d[1] = Cardinality(Connected(new)) - Cardinality(Connected(at)),
         \A k \in 1 .. (Len(p) + 1) : d[k] <= Cardinality(Connected(new))
  PROVE  Kept(new, c, q \o p)
<1>1. q \in Seq(Event) /\ AllWhole(q) /\ Balanced(c, q, Cardinality(Connected(at)))
  BY DEF Kept
<1>2. Cardinality(Connected(new)) \in Nat /\ Cardinality(Connected(at)) \in Nat
  BY ConsFinite
<1>3. Balanced(c, q \o p, Cardinality(Connected(new)))
  BY <1>1, <1>2, Posting
<1>4. q \o p \in Seq(Event) /\ AllWhole(q \o p)
  BY <1>1, ConcatWhole
<1> QED
  BY <1>3, <1>4 DEF Kept

\* An instance listens again: nothing of its client is left.
LEMMA Listening ==
  ASSUME NEW r \in Client, NEW ok \in BOOLEAN
  PROVE  LET x == Relistens(Dropped(r), ok)
         IN x \in Client /\ Orderly(x) /\ x.con = FALSE
<1> DEFINE y == [r EXCEPT !.con = FALSE, !.inb = <<>>, !.silent = 0]
           x == Relistens(Dropped(r), ok)
<1> DEFINE y0 == [r EXCEPT !.con = FALSE, !.inb = <<>>]
<1>z. <<>> \in Seq(Piece)
  OBVIOUS
<1>c. y0 \in Client
  BY <1>z DEF Client
<1>a. y0 \in Client /\ y0.con = FALSE /\ y0.inb = <<>>
  BY <1>c DEF Client
<1>b. y = [y0 EXCEPT !.silent = 0]
  OBVIOUS
<1> HIDE DEF y0, y
<1>0. y \in Client
  BY <1>a, <1>b DEF Client
<1>1. y \in Client /\ y.con = FALSE /\ y.inb = <<>>
  BY <1>0, <1>a, <1>b DEF Client
<1> DEFINE z == [y EXCEPT !.pipe = IF ok THEN "connecting" ELSE "closed", !.peer = NoPeer, !.gone = FALSE]
           u == [z EXCEPT !.unread = <<>>, !.pieces = 0, !.mid = FALSE]
<1>2. z \in Client /\ z.con = FALSE /\ z.inb = <<>> /\ z.peer = NoPeer /\ z.pipe # "reading"
  BY <1>1 DEF Client, NoPeer
<1>3. x = u
  BY DEF Relistens, Dropped, y
<1> HIDE DEF z
<1>5. u \in Client
  BY <1>2 DEF Client
<1>4. /\ u \in Client /\ u.con = FALSE /\ u.inb = <<>> /\ u.peer = NoPeer /\ u.pipe # "reading"
      /\ u.unread = <<>> /\ u.pieces = 0 /\ u.mid = FALSE
  BY <1>2, <1>5 DEF Client
<1> HIDE DEF u
<1>6. Orderly(u)
  <2>1. u.inb \o u.unread = <<>> /\ Len(<<>>) = 0
    BY <1>4
  <2> QED
    BY <1>4, <2>1 DEF Orderly, Stream
<1> QED
  BY <1>3, <1>4, <1>6

\* Clients of a set are dropped, and the engine told of each.
LEMMA DropsKeep ==
  ASSUME NEW at, NEW c \in Nat, NEW q, Kept(at, c, q), NEW S \in SUBSET Connected(at), NEW ok \in BOOLEAN,
         NEW p \in Goodbyes(S, at)
  PROVE  Kept([s \in Slots |-> IF s \in S THEN Relistens(Dropped(at[s]), ok) ELSE at[s]], c, q \o p)
<1> DEFINE new == [s \in Slots |-> IF s \in S THEN Relistens(Dropped(at[s]), ok) ELSE at[s]]
<1>1. at \in [Slots -> Client] /\ \A s \in Slots : Orderly(at[s])
  BY DEF Kept
<1>2. new \in [Slots -> Client] /\ \A s \in Slots : Orderly(new[s]) /\ (s \in S => new[s].con = FALSE)
  BY <1>1, Listening
<1>3. Connected(new) = Connected(at) \ S
  BY <1>2 DEF Connected
<1>4. Cardinality(Connected(new)) = Cardinality(Connected(at)) - Cardinality(S)
  <2>1. Connected(at) \cap S = S
    OBVIOUS
  <2> QED
    BY <1>3, <2>1, ConsFinite, FS_Difference
<1>5. S \in SUBSET Slots /\ \A s \in Slots : at[s].peer \in Nat
  BY <1>1 DEF Connected, Client
<1>6. p \in Seq(Event) /\ AllWhole(p) /\ Cardinality(S) \in Nat
  BY <1>5, GoodbyesAdd
<1>7. PICK d : Adds(d, p) /\ d[1] = -Cardinality(S) /\ \A k \in 1 .. (Len(p) + 1) : d[k] <= 0
  BY <1>5, GoodbyesAdd
<1>8. Cardinality(Connected(new)) \in Nat /\ Cardinality(Connected(at)) \in Nat
  BY ConsFinite
<1> HIDE DEF new
<1>9. d[1] = Cardinality(Connected(new)) - Cardinality(Connected(at))
  BY <1>4, <1>6, <1>7, <1>8
<1>10. \A k \in 1 .. (Len(p) + 1) : d[k] <= Cardinality(Connected(new))
  <2>1. \A k \in 1 .. (Len(p) + 1) : d[k] \in Int
    BY <1>6, <1>7 DEF Adds
  <2> QED
    BY <1>7, <1>8, <2>1
<1>11. Kept(new, c, q \o p)
  BY <1>2, <1>6, <1>7, <1>9, <1>10, PostsKeep
<1> QED
  BY <1>11 DEF new

LEMMA SweepKeeps ==
  ASSUME NEW c \in Nat, NEW new, NEW posts \in Seq(Event), events \in Seq(Event),
         Kept(new, c, events \o posts), Sweep(new, posts)
  PROVE  Kept(slot', c, events')
<1>1. PICK ok \in BOOLEAN : slot' = Swept(new, ok)
  BY DEF Sweep
<1>2. PICK p \in Goodbyes(Silent(new), new) : events' = events \o posts \o p
  BY DEF Sweep
<1>3. Silent(new) \in SUBSET Connected(new)
  BY DEF Silent, Connected
<1>4. Kept(Swept(new, ok), c, (events \o posts) \o p)
  BY <1>3, DropsKeep DEF Swept
<1> QED
  BY <1>1, <1>2, <1>4

\* One instance changes, and what is posted adds up to its change.
One(b) == IF b THEN 1 ELSE 0
LEMMA OneKeeps ==
  ASSUME NEW at, NEW c \in Nat, NEW q, Kept(at, c, q), NEW s \in Slots, NEW x \in Client, Orderly(x),
         NEW p \in Seq(Event), AllWhole(p), NEW d, Adds(d, p), d[1] = One(x.con) - One(at[s].con),
         \A k \in 1 .. (Len(p) + 1) : d[k] <= One(x.con)
  PROVE  Kept([at EXCEPT ![s] = x], c, q \o p)
<1> DEFINE new == [at EXCEPT ![s] = x]
<1>1. at \in [Slots -> Client] /\ \A t \in Slots : Orderly(at[t])
  BY DEF Kept
<1>2. new \in [Slots -> Client] /\ new[s] = x /\ \A t \in Slots \ {s} : new[t] = at[t]
  BY <1>1
<1> HIDE DEF new
<1>3. \A t \in Slots : Orderly(new[t])
  BY <1>1, <1>2
<1>4. x.con \in BOOLEAN /\ at[s].con \in BOOLEAN
  BY <1>1 DEF Client
<1>5. Connected(new) = IF x.con THEN Connected(at) \cup {s} ELSE Connected(at) \ {s}
  BY <1>2 DEF Connected
<1>6. s \in Connected(at) <=> at[s].con
  BY DEF Connected
<1>7. IsFiniteSet(Connected(at)) /\ Cardinality(Connected(at)) \in Nat /\ Cardinality(Connected(new)) \in Nat
  BY ConsFinite
<1>8. /\ Cardinality(Connected(at) \cup {s}) =
         IF s \in Connected(at) THEN Cardinality(Connected(at)) ELSE Cardinality(Connected(at)) + 1
      /\ Cardinality(Connected(at) \ {s}) =
         IF s \in Connected(at) THEN Cardinality(Connected(at)) - 1 ELSE Cardinality(Connected(at))
  BY <1>7, FS_AddElement, FS_RemoveElement
<1>9. Cardinality(Connected(new)) = Cardinality(Connected(at)) + One(x.con) - One(at[s].con)
  BY <1>4, <1>5, <1>6, <1>7, <1>8 DEF One
<1>10. One(x.con) <= Cardinality(Connected(new))
  <2>1. CASE x.con
    <3>1. s \in Connected(new) /\ IsFiniteSet(Connected(new))
      BY <1>5, <2>1, ConsFinite
    <3>2. Cardinality(Connected(new)) # 0
      BY <3>1, FS_EmptySet
    <3> QED
      BY <1>7, <2>1, <3>2 DEF One
  <2>2. CASE ~x.con
    BY <1>7, <2>2 DEF One
  <2> QED
    BY <1>4, <2>1, <2>2
<1>11. \A k \in 1 .. (Len(p) + 1) : d[k] \in Int
  BY DEF Adds
<1>12. One(x.con) \in Int
  BY DEF One
<1>13. \A k \in 1 .. (Len(p) + 1) : d[k] <= Cardinality(Connected(new))
  BY <1>7, <1>10, <1>11, <1>12
<1>14. One(at[s].con) \in Int
  BY DEF One
<1>15. d[1] = Cardinality(Connected(new)) - Cardinality(Connected(at))
  BY <1>7, <1>9, <1>12, <1>14
<1>16. Kept(new, c, q \o p)
  BY <1>2, <1>3, <1>13, <1>15, PostsKeep
<1> QED
  BY <1>16 DEF new

\* The same without a post, and with one.
LEMMA OneQuiet ==
  ASSUME NEW at, NEW c \in Nat, NEW q, Kept(at, c, q), NEW s \in Slots, NEW x \in Client, Orderly(x),
         x.con = at[s].con
  PROVE  Kept([at EXCEPT ![s] = x], c, q)
<1> DEFINE p == <<>>
           d == [k \in 1 .. 1 |-> 0]
<1>1. p \in Seq(Event) /\ Len(p) = 0 /\ AllWhole(p) /\ Adds(d, p)
  BY DEF AllWhole, Adds
<1>2. d[1] = One(x.con) - One(at[s].con) /\ \A k \in 1 .. (Len(p) + 1) : d[k] <= One(x.con)
  BY <1>1 DEF One
<1>3. q \in Seq(Event)
  BY DEF Kept
<1>4. q \o p = q
  BY <1>3, ConcatEmptySeq
<1> HIDE DEF p, d
<1>5. Kept([at EXCEPT ![s] = x], c, q \o p)
  BY <1>1, <1>2, OneKeeps
<1> QED
  BY <1>4, <1>5

LEMMA OnePost ==
  ASSUME NEW at, NEW c \in Nat, NEW q, Kept(at, c, q), NEW s \in Slots, NEW x \in Client, Orderly(x),
         NEW e \in Event, e.kind = "client", Worth(e) = One(x.con) - One(at[s].con)
  PROVE  Kept([at EXCEPT ![s] = x], c, q \o <<e>>)
<1> DEFINE p == <<e>>
           d == [k \in 1 .. 2 |-> IF k = 1 THEN Worth(e) ELSE 0]
<1>1. p \in Seq(Event) /\ Len(p) = 1 /\ p[1] = e
  OBVIOUS
<1>2. Worth(e) \in Int
  BY WorthType
<1>3. d \in [1 .. 2 -> Int] /\ d[1] = Worth(e) /\ d[2] = 0
  BY <1>2
<1> HIDE DEF p, d
<1>4. AllWhole(p)
  BY <1>1 DEF AllWhole, Whole
<1>5. Adds(d, p)
  <2>1. \A k \in 1 .. Len(p) : d[k] = d[k + 1] + Worth(p[k])
    BY <1>1, <1>2, <1>3
  <2> QED
    BY <1>1, <1>3, <2>1 DEF Adds
<1>6. \A k \in 1 .. (Len(p) + 1) : d[k] <= One(x.con)
  <2>1. \A k \in 1 .. (Len(p) + 1) : k = 1 \/ k = 2
    BY <1>1
  <2>2. 0 <= One(x.con) /\ Worth(e) <= One(x.con)
    BY DEF One
  <2> QED
    BY <1>3, <2>1, <2>2
<1>7. Kept([at EXCEPT ![s] = x], c, q \o p)
  BY <1>1, <1>3, <1>4, <1>5, <1>6, OneKeeps
<1> QED
  BY <1>7 DEF p

\* The same with any number of lines.
LEMMA OneLines ==
  ASSUME NEW at, NEW c \in Nat, NEW q, Kept(at, c, q), NEW s \in Slots, NEW x \in Client, Orderly(x),
         x.con = at[s].con,
         NEW p \in Seq(Event), AllWhole(p), \A k \in 1 .. Len(p) : p[k].kind = "line"
  PROVE  Kept([at EXCEPT ![s] = x], c, q \o p)
<1> DEFINE d == [k \in 1 .. (Len(p) + 1) |-> 0]
<1>1. Len(p) \in Nat /\ \A k \in 1 .. Len(p) : Worth(p[k]) = 0
  BY DEF Worth
<1>2. d \in [1 .. (Len(p) + 1) -> Int] /\ \A k \in 1 .. (Len(p) + 1) : d[k] = 0
  OBVIOUS
<1> HIDE DEF d
<1>3. Adds(d, p)
  BY <1>1, <1>2 DEF Adds
<1>4. d[1] = One(x.con) - One(at[s].con) /\ \A k \in 1 .. (Len(p) + 1) : d[k] <= One(x.con)
  BY <1>1, <1>2 DEF One
<1> QED
  BY <1>3, <1>4, OneKeeps

-----------------------------------------------------------------------------
(* The bytes *)

LEMMA OneBefore ==
  ASSUME NEW i \in Nat, NEW m \in Nat, NEW n \in Nat, i > 1, i <= n
  PROVE  i - 1 \in 1 .. n /\ m + (i - 1) = (m + i) - 1 /\ m + i # 1
OBVIOUS

\* What is left of a stream after the end of a line is a stream.
LEMMA StreamSuffix ==
  ASSUME NEW w \in Seq(Piece), NEW x \in Seq(Piece), NEW m \in 0 .. Len(w), Len(x) = Len(w) - m,
         \A i \in 1 .. Len(x) : x[i] = w[m + i], m = 0 \/ w[m].ends,
         NEW r, NEW y, Stream(w, r), y.peer = r.peer, y.pieces = r.pieces, y.mid = r.mid,
         r.pieces \in Nat, r.mid \in BOOLEAN
  PROVE  Stream(x, y)
<1>1. Len(w) \in Nat /\ m \in Nat /\ m <= Len(w)
  OBVIOUS
<1>2. \A i \in 1 .. Len(w) : /\ w[i].of = r.peer /\ w[i].n = r.pieces - Len(w) + i
                             /\ w[i].starts <=> (i = 1 \/ w[i - 1].ends)
  BY DEF Stream
<1>3. ASSUME NEW i \in 1 .. Len(x)
      PROVE  /\ x[i].of = y.peer /\ x[i].n = y.pieces - Len(x) + i
             /\ x[i].starts <=> (i = 1 \/ x[i - 1].ends)
  <2>1. m + i \in 1 .. Len(w) /\ x[i] = w[m + i]
    BY <1>1
  <2>2. x[i].of = y.peer /\ x[i].n = y.pieces - Len(x) + i
    BY <1>1, <1>2, <2>1
  <2>3. x[i].starts <=> (m + i = 1 \/ w[(m + i) - 1].ends)
    BY <1>2, <2>1
  <2>4. CASE i = 1
    <3>1. (m + i) - 1 = m
      BY <1>1, <2>4
    <3>2. m + i = 1 \/ w[(m + i) - 1].ends
      <4>1. m = 0 => m + i = 1
        BY <1>1, <2>4
      <4> QED
        BY <3>1, <4>1
    <3> QED
      BY <2>1, <2>2, <2>3, <2>4, <3>2
  <2>5. CASE i # 1
    <3>i. i \in Nat /\ i > 1 /\ i <= Len(x) /\ m \in Nat /\ Len(x) \in Nat
      <4>1. Len(x) \in Nat
        OBVIOUS
      <4> QED
        BY <1>1, <2>5, <4>1
    <3>1. i - 1 \in 1 .. Len(x) /\ m + (i - 1) = (m + i) - 1 /\ m + i # 1
      BY <3>i, OneBefore, Zenon
    <3>2. x[i - 1] = w[(m + i) - 1]
      BY <3>1
    <3> QED
      BY <2>1, <2>2, <2>3, <2>5, <3>1, <3>2
  <2> QED
    BY <2>2, <2>4, <2>5
<1>4. y.mid <=> (Len(x) > 0 /\ ~x[Len(x)].ends)
  <2>1. r.mid <=> (Len(w) > 0 /\ ~w[Len(w)].ends)
    BY DEF Stream
  <2>2. CASE m = Len(w)
    BY <1>1, <2>1, <2>2
  <2>3. CASE m < Len(w)
    <3>1. Len(x) \in 1 .. Len(x) /\ m + Len(x) = Len(w) /\ Len(x) > 0
      BY <1>1, <2>3
    <3> QED
      BY <1>1, <2>1, <3>1, SMTT(30)
  <2> QED
    BY <1>1, <2>2, <2>3
<1> QED
  BY <1>3, <1>4 DEF Stream

\* The ends of a buffer's lines in order, and where each line starts.
LEMMA EndsInOrder ==
  ASSUME NEW b \in Seq(Piece), NEW e \in InOrder(LineEnds(b))
  PROVE  /\ e \in Seq(Nat) /\ Len(e) \in Nat /\ DOMAIN e = 1 .. Len(e)
         /\ \A k \in 1 .. (Len(e) + 1) :
              /\ Starts(e, k) \in 1 .. (Len(b) + 1)
              /\ Starts(e, k) = 1 \/ b[Starts(e, k) - 1].ends
         /\ \A k \in 1 .. Len(e) :
              /\ e[k] \in 1 .. Len(b) /\ b[e[k]].ends /\ Starts(e, k) <= e[k]
              /\ \A i \in Starts(e, k) .. (e[k] - 1) : ~b[i].ends
<1> DEFINE S == LineEnds(b)
<1>0. Len(b) \in Nat /\ DOMAIN b = 1 .. Len(b) /\ \A i \in 1 .. Len(b) : b[i] \in Piece
  OBVIOUS
<1>1. Len(b) \in Nat /\ DOMAIN b = 1 .. Len(b) /\ \A i \in 1 .. Len(b) : b[i].ends \in BOOLEAN
  BY <1>0 DEF Piece
<1>2. S \in SUBSET (1 .. Len(b)) /\ \A i \in 1 .. Len(b) : i \in S <=> b[i].ends
  BY <1>1 DEF LineEnds
<1>3. IsFiniteSet(S) /\ S \in SUBSET Nat
  <2>1. IsFiniteSet(1 .. Len(b))
    BY <1>1, FS_Interval
  <2> QED
    BY <1>1, <1>2, <2>1, FS_Subset
<1> HIDE DEF S
<1>e. e \in InOrder(S)
  BY DEF S
<1>4. /\ e \in Seq(S) /\ Len(e) \in Nat
      /\ \A i \in S : \E k \in 1 .. Len(e) : e[k] = i
      /\ \A i, j \in 1 .. Len(e) : i < j => e[i] < e[j]
  BY <1>3, <1>e, Ordered
<1>5. /\ e \in Seq(Nat) /\ DOMAIN e = 1 .. Len(e)
      /\ \A k \in 1 .. Len(e) : e[k] \in S /\ e[k] \in Nat
  <2>1. \A k \in 1 .. Len(e) : e[k] \in S
    BY <1>4
  <2>2. e \in [1 .. Len(e) -> S]
    BY <1>4
  <2>3. e \in [1 .. Len(e) -> Nat]
    BY <1>3, <2>1, <2>2
  <2> QED
    BY <1>3, <1>4, <2>1, <2>3
<1>6. \A k \in 1 .. Len(e) : e[k] \in 1 .. Len(b) /\ b[e[k]].ends
  BY <1>2, <1>5
<1>7. ASSUME NEW k \in 1 .. (Len(e) + 1)
      PROVE  /\ Starts(e, k) \in 1 .. (Len(b) + 1)
             /\ Starts(e, k) = 1 \/ b[Starts(e, k) - 1].ends
  <2>1. CASE k = 1
    <3>1. Starts(e, k) = 1
      BY <2>1 DEF Starts
    <3> QED
      BY <1>1, <3>1
  <2>2. CASE k # 1
    <3>1. k - 1 \in 1 .. Len(e) /\ Starts(e, k) = e[k - 1] + 1
      BY <1>4, <2>2 DEF Starts
    <3>2. e[k - 1] \in 1 .. Len(b) /\ b[e[k - 1]].ends
      BY <1>6, <3>1
    <3>3. Starts(e, k) - 1 = e[k - 1] /\ Starts(e, k) \in 1 .. (Len(b) + 1)
      BY <1>1, <3>1, <3>2
    <3> QED
      BY <3>2, <3>3
  <2> QED
    BY <2>1, <2>2
<1>8. ASSUME NEW k \in 1 .. Len(e) PROVE Starts(e, k) <= e[k]
  <2>1. CASE k = 1
    BY <1>1, <1>6, <2>1 DEF Starts
  <2>2. CASE k # 1
    <3>1. k - 1 \in 1 .. Len(e) /\ k - 1 < k /\ Starts(e, k) = e[k - 1] + 1
      BY <1>4, <2>2 DEF Starts
    <3>2. e[k - 1] < e[k] /\ e[k - 1] \in Nat /\ e[k] \in Nat
      BY <1>4, <1>5, <3>1
    <3> QED
      BY <3>1, <3>2
  <2> QED
    BY <2>1, <2>2
<1>9. ASSUME NEW k \in 1 .. Len(e), NEW i \in Starts(e, k) .. (e[k] - 1), b[i].ends PROVE FALSE
  <2>0. k \in 1 .. (Len(e) + 1) /\ Starts(e, k) \in 1 .. (Len(b) + 1) /\ e[k] \in 1 .. Len(b)
    BY <1>4, <1>6, <1>7, SMTT(30)
  <2>1. i \in 1 .. Len(b) /\ i < e[k] /\ Starts(e, k) <= i
    BY <1>1, <2>0
  <2>2. PICK j \in 1 .. Len(e) : e[j] = i
    BY <1>2, <1>4, <1>9, <2>1
  <2>3. j < k
    <3>1. CASE j = k
      BY <2>0, <2>1, <2>2, <3>1
    <3>2. CASE j > k
      <4>1. e[k] < e[j]
        BY <1>4, <3>2
      <4> QED
        BY <2>0, <2>1, <2>2, <4>1
    <3> QED
      BY <1>4, <3>1, <3>2
  <2>4. Starts(e, k) = e[k - 1] + 1 /\ k - 1 \in 1 .. Len(e)
    <3>1. k # 1 /\ k - 1 \in 1 .. Len(e)
      BY <1>4, <2>3, SMTT(30)
    <3> QED
      BY <3>1 DEF Starts
  <2>5. e[j] <= e[k - 1]
    <3>1. CASE j = k - 1
      BY <1>5, <2>4, <3>1
    <3>2. CASE j < k - 1
      <4>1. e[j] < e[k - 1]
        BY <1>4, <2>4, <3>2
      <4> QED
        BY <1>5, <2>4, <4>1, SMTT(30)
    <3> QED
      BY <1>4, <2>3, <3>1, <3>2
  <2>6. e[k - 1] \in Nat
    BY <1>5, <2>4
  <2> QED
    BY <2>0, <2>1, <2>2, <2>4, <2>5, <2>6
<1> QED
  BY <1>4, <1>5, <1>6, <1>7, <1>8, <1>9

\* A line split from a stream is whole.
LEMMA LineIsWhole ==
  ASSUME NEW w \in Seq(Piece), NEW b \in Seq(Piece), Len(b) <= Len(w),
         \A i \in 1 .. Len(b) : b[i] = w[i], NEW r, Stream(w, r), r.pieces \in Nat,
         NEW e \in InOrder(LineEnds(b)), NEW k \in 1 .. Len(e)
  PROVE  Line(b, e, k) \in Seq(Piece) /\ WholeLine(Line(b, e, k), r.peer)
<1> DEFINE m == Starts(e, k)
           z == e[k]
           l == Line(b, e, k)
<1>1. /\ Len(b) \in Nat /\ Len(w) \in Nat /\ Len(e) \in Nat
      /\ \A i \in 1 .. Len(b) : b[i] \in Piece
  OBVIOUS
<1>2. /\ m \in 1 .. (Len(b) + 1) /\ Len(b) \in Nat
      /\ m = 1 \/ b[m - 1].ends
  <2>1. k \in 1 .. (Len(e) + 1)
    BY <1>1
  <2> QED
    BY <1>1, <2>1, EndsInOrder
<1>3. /\ z \in 1 .. Len(b) /\ b[z].ends /\ m <= z
      /\ \A i \in m .. (z - 1) : ~b[i].ends
  BY EndsInOrder
<1>4. l = SubSeq(b, m, z)
  BY DEF Line
<1> HIDE DEF m, z, l
<1>5. /\ l \in Seq(Piece) /\ Len(l) = z - m + 1 /\ \A i \in 1 .. (z - m + 1) : l[i] = b[m + i - 1]
  <2>1. m \in Int /\ z \in Int /\ \A i \in m .. z : b[i] \in Piece
    BY <1>1, <1>2, <1>3
  <2> QED
    <3>1. /\ SubSeq(b, m, z) \in Seq(Piece)
          /\ Len(SubSeq(b, m, z)) = IF m <= z THEN z - m + 1 ELSE 0
          /\ \A i \in 1 .. (z - m + 1) : SubSeq(b, m, z)[i] = b[m + i - 1]
      BY <2>1, SubSeqProperties, SMTT(30)
    <3> QED
      BY <1>3, <1>4, <3>1
<1>6. ASSUME NEW i \in 1 .. Len(l)
      PROVE  /\ l[i].of = r.peer /\ l[i].n = r.pieces - Len(w) + m + i - 1
             /\ l[i].starts <=> i = 1
             /\ l[i].ends <=> i = Len(l)
  <2>1. m + i - 1 \in m .. z /\ m + i - 1 \in 1 .. Len(b) /\ m + i - 1 \in 1 .. Len(w)
    BY <1>1, <1>2, <1>3, <1>5, SMTT(30)
  <2> DEFINE j == m + i - 1
  <2>2. l[i] = b[j] /\ b[j] = w[j]
    BY <1>5, <2>1
  <2>3. /\ w[j].of = r.peer /\ w[j].n = r.pieces - Len(w) + j
        /\ w[j].starts <=> (j = 1 \/ w[j - 1].ends)
    BY <2>1 DEF Stream
  <2>4. l[i].n = r.pieces - Len(w) + m + i - 1
    <3>1. l[i].n = r.pieces - Len(w) + j
      BY <2>2, <2>3
    <3>2. r.pieces \in Int /\ Len(w) \in Int /\ m \in Int /\ i \in Int
      BY <1>1, <1>2, <1>5
    <3>3. r.pieces - Len(w) + j = r.pieces - Len(w) + m + i - 1
      BY <3>2
    <3> QED
      BY <3>1, <3>3
  <2>5. l[i].starts <=> i = 1
    <3>1. CASE i = 1
      <4>1. j = m
        BY <1>2, <3>1
      <4>2. m = 1 \/ w[m - 1].ends
        <5>1. CASE m # 1
          <6>1. m - 1 \in 1 .. Len(b)
            BY <1>1, <1>2, <5>1
          <6> QED
            BY <1>2, <5>1, <6>1
        <5> QED
          BY <5>1
      <4> QED
        BY <2>2, <2>3, <3>1, <4>1, <4>2
    <3>2. CASE i # 1
      <4>1. j # 1 /\ j - 1 \in m .. (z - 1) /\ j - 1 \in 1 .. Len(b)
        <5>1. i \in Nat /\ m \in Nat /\ z \in Nat /\ i > 1 /\ m >= 1 /\ z <= Len(b) /\ i <= z - m + 1
          BY <1>2, <1>3, <1>5, <3>2
        <5> QED
          BY <1>1, <5>1
      <4>2. ~b[j - 1].ends /\ b[j - 1] = w[j - 1]
        BY <1>3, <4>1
      <4> QED
        BY <2>2, <2>3, <3>2, <4>1, <4>2
    <3> QED
      BY <3>1, <3>2
  <2>6. l[i].ends <=> i = Len(l)
    <3>1. CASE i = Len(l)
      <4>1. j = z
        BY <1>2, <1>3, <1>5, <3>1
      <4> QED
        BY <1>3, <2>2, <3>1, <4>1
    <3>2. CASE i # Len(l)
      <4>1. j \in m .. (z - 1)
        BY <1>2, <1>3, <1>5, <3>2
      <4> QED
        BY <1>3, <2>2, <3>2, <4>1
    <3> QED
      BY <3>1, <3>2
  <2> QED
    BY <2>2, <2>3, <2>4, <2>5, <2>6
<1>7. 1 \in 1 .. Len(l) /\ l[1].n = r.pieces - Len(w) + m
  <2>1. 1 \in 1 .. Len(l)
    BY <1>2, <1>3, <1>5
  <2>2. l[1].n = r.pieces - Len(w) + m + 1 - 1
    BY <1>6, <2>1
  <2> QED
    BY <1>1, <1>2, <2>1, <2>2
<1>8. ASSUME NEW i \in 1 .. Len(l) PROVE l[i].n = l[1].n + i - 1
  <2>1. l[i].n = r.pieces - Len(w) + m + i - 1
    BY <1>6
  <2> QED
    BY <1>1, <1>2, <1>7, <2>1
<1>9. DOMAIN l = 1 .. Len(l)
  BY <1>5
<1>10. l \in Seq(Piece) /\ WholeLine(l, r.peer)
  BY <1>5, <1>6, <1>8, <1>9 DEF WholeLine
<1> QED
  BY <1>10 DEF l

-----------------------------------------------------------------------------
(* The actions *)

\* A client after the server read: another buffer, fewer unread pieces.
Holding(r, n, t) == [Reads(r, n) EXCEPT !.inb = t]
LEMMA Reading ==
  ASSUME NEW r \in Client, NEW n \in 0 .. Len(r.unread), NEW t \in Seq(Piece)
  PROVE  LET x == Holding(r, n, t)
         IN /\ Reads(r, n) \in Client /\ x \in Client
            /\ x.con = TRUE /\ x.inb = t /\ x.unread = SubSeq(r.unread, n + 1, Len(r.unread))
            /\ x.pipe = "reading" /\ x.peer = r.peer /\ x.pieces = r.pieces /\ x.mid = r.mid
<1> DEFINE u == SubSeq(r.unread, n + 1, Len(r.unread))
           i == IF r.con /\ n = 0 THEN r.silent ELSE 0
           x == Holding(r, n, t)
<1>1. /\ r.peer \in Nat /\ r.gone \in BOOLEAN /\ r.unread \in Seq(Piece) /\ r.pieces \in Nat
      /\ r.mid \in BOOLEAN /\ r.inb \in Seq(Piece) /\ r.silent \in Nat
  BY DEF Client
<1>2. u \in Seq(Piece)
  BY <1>1
<1>3. i \in Nat
  BY <1>1
<1>4. Reads(r, n) = [pipe |-> "reading", peer |-> r.peer, gone |-> r.gone, unread |-> u,
                     pieces |-> r.pieces, mid |-> r.mid, con |-> TRUE, inb |-> r.inb, silent |-> i]
  BY DEF Reads
<1> HIDE DEF i, u
<1>5. x = [pipe |-> "reading", peer |-> r.peer, gone |-> r.gone, unread |-> u,
           pieces |-> r.pieces, mid |-> r.mid, con |-> TRUE, inb |-> t, silent |-> i]
  <2>1. x = [[pipe |-> "reading", peer |-> r.peer, gone |-> r.gone, unread |-> u,
              pieces |-> r.pieces, mid |-> r.mid, con |-> TRUE, inb |-> r.inb, silent |-> i]
             EXCEPT !.inb = t]
    BY <1>4, Zenon DEF Holding
  <2> HIDE DEF x
  <2> QED
    BY <2>1
<1> HIDE DEF x
<1>6. Reads(r, n) \in Client
  BY <1>1, <1>2, <1>3, <1>4 DEF Client
<1>7. x \in Client
  <2>1. [pipe |-> "reading", peer |-> r.peer, gone |-> r.gone, unread |-> u,
         pieces |-> r.pieces, mid |-> r.mid, con |-> TRUE, inb |-> t, silent |-> i] \in Client
    BY <1>1, <1>2, <1>3 DEF Client
  <2> QED
    BY <1>5, <2>1, Zenon
<1>8. /\ x.con = TRUE /\ x.inb = t /\ x.unread = u
      /\ x.pipe = "reading" /\ x.peer = r.peer /\ x.pieces = r.pieces /\ x.mid = r.mid
  BY <1>5
<1> QED
  BY <1>6, <1>7, <1>8 DEF u, x

\* Buffer and unread pieces are the same bytes before and after a read.
LEMMA Buffering ==
  ASSUME NEW r \in Client, NEW n \in 0 .. Len(r.unread)
  PROVE  LET b == Buffer(r, n)
             u == SubSeq(r.unread, n + 1, Len(r.unread))
         IN /\ b \in Seq(Piece) /\ u \in Seq(Piece) /\ r.inb \o r.unread \in Seq(Piece)
            /\ b \o u = r.inb \o r.unread
<1> DEFINE v == r.unread
           a == SubSeq(v, 1, n)
           u == SubSeq(v, n + 1, Len(v))
           h == r.inb
<1>1. v \in Seq(Piece) /\ h \in Seq(Piece)
  BY DEF Client
<1> HIDE DEF v, h
<1>2. n \in 0 .. Len(v)
  BY DEF v
<1>3. a \in Seq(Piece) /\ u \in Seq(Piece)
  BY <1>1, <1>2
<1>4. a \o u = v
  <2>1. SubSeq(v, 1, n) \o SubSeq(v, n + 1, Len(v)) = SubSeq(v, 1, Len(v))
    <3>1. Len(v) \in Nat /\ 1 \in 1 .. (Len(v) + 1) /\ n \in (1 - 1) .. Len(v) /\ Len(v) \in n .. Len(v)
      BY <1>1, <1>2
    <3> QED
      BY <1>1, <3>1, ConcatAdjacentSubSeq
  <2> QED
    BY <1>1, <2>1, SubSeqFull
<1> HIDE DEF a, u
<1>a. (h \o a) \o u = h \o (a \o u)
  BY <1>1, <1>3, ConcatAssociative, SMTT(30)
<1>5. (h \o a) \o u = h \o v
  BY <1>4, <1>a
<1>6. h \o a \in Seq(Piece) /\ h \o v \in Seq(Piece)
  BY <1>1, <1>3
<1>7. Buffer(r, n) = h \o a
  BY DEF Buffer, h, a, v
<1> QED
  BY <1>3, <1>5, <1>6, <1>7 DEF h, u, v

\* The client once the server has read and split off the lines.
LEMMA Splitting ==
  ASSUME NEW r \in Client, Orderly(r), r.peer # NoPeer, NEW n \in 0 .. Len(r.unread),
         NEW e \in InOrder(LineEnds(Buffer(r, n)))
  PROVE  LET x == Holding(r, n, TailAfter(Buffer(r, n), e))
             y == Holding(r, n, Buffer(r, n))
         IN /\ x \in Client /\ Orderly(x) /\ x.con = TRUE
            /\ y \in Client /\ Orderly(y) /\ y.con = TRUE
<1> DEFINE b == Buffer(r, n)
           u == SubSeq(r.unread, n + 1, Len(r.unread))
           w == r.inb \o r.unread
           k == Len(e) + 1
           m == Starts(e, k) - 1
           t == TailAfter(b, e)
           x == Holding(r, n, t)
           y == Holding(r, n, b)
<1>1. b \in Seq(Piece) /\ u \in Seq(Piece) /\ w \in Seq(Piece) /\ b \o u = w
  BY Buffering
<1>2. m \in 0 .. Len(b) /\ (m = 0 \/ b[m].ends)
  <2>1. k \in 1 .. (Len(e) + 1) /\ Len(b) \in Nat
    BY <1>1, EndsInOrder
  <2>2. Starts(e, k) \in 1 .. (Len(b) + 1) /\ (Starts(e, k) = 1 \/ b[Starts(e, k) - 1].ends)
    BY <1>1, <2>1, EndsInOrder
  <2> QED
    BY <2>1, <2>2
<1>3. t = SubSeq(b, m + 1, Len(b))
  <2>1. Starts(e, k) \in Int
    <3>1. k \in 1 .. (Len(e) + 1) /\ Len(b) \in Nat
      BY <1>1, EndsInOrder
    <3>2. Starts(e, k) \in 1 .. (Len(b) + 1)
      BY <1>1, <3>1, EndsInOrder
    <3> QED
      BY <3>1, <3>2
  <2>2. Starts(e, k) = m + 1
    BY <2>1
  <2> QED
    BY <2>2 DEF TailAfter
<1>s. Stream(w, r)
  BY DEF Orderly
<1>p. r.pieces \in Nat /\ r.mid \in BOOLEAN
  BY DEF Client
<1>u. u = SubSeq(r.unread, n + 1, Len(r.unread))
  OBVIOUS
<1> HIDE DEF b, u, w, m, t
<1>4. t \in Seq(Piece) /\ Len(t) = Len(b) - m /\ \A i \in 1 .. Len(t) : t[i] = b[m + i]
  <2>1. Len(b) \in Nat /\ m \in Nat /\ m <= Len(b) /\ m + 1 \in Int /\ Len(b) \in Int
        /\ \A i \in (m + 1) .. Len(b) : b[i] \in Piece
    BY <1>1, <1>2
  <2>2. /\ SubSeq(b, m + 1, Len(b)) \in Seq(Piece)
        /\ Len(SubSeq(b, m + 1, Len(b))) = IF m + 1 <= Len(b) THEN Len(b) - (m + 1) + 1 ELSE 0
        /\ \A i \in 1 .. (Len(b) - (m + 1) + 1) : SubSeq(b, m + 1, Len(b))[i] = b[(m + 1) + i - 1]
    BY <2>1, SubSeqProperties
  <2>3. Len(t) = Len(b) - m
    BY <1>3, <2>1, <2>2
  <2>4. ASSUME NEW i \in 1 .. Len(t) PROVE t[i] = b[m + i]
    <3>1. i \in 1 .. (Len(b) - (m + 1) + 1) /\ (m + 1) + i - 1 = m + i
      BY <2>1, <2>3
    <3> QED
      BY <1>3, <2>2, <3>1
  <2> QED
    BY <1>3, <2>2, <2>3, <2>4
<1>5. /\ Len(w) = Len(b) + Len(u) /\ Len(b) \in Nat /\ Len(u) \in Nat
      /\ \A i \in 1 .. Len(b) : w[i] = b[i]
      /\ \A i \in (Len(b) + 1) .. (Len(b) + Len(u)) : w[i] = u[i - Len(b)]
  BY <1>1
<1> DEFINE z == t \o u
<1>6. /\ z \in Seq(Piece) /\ Len(z) = Len(t) + Len(u)
      /\ \A i \in 1 .. Len(t) : z[i] = t[i]
      /\ \A i \in (Len(t) + 1) .. (Len(t) + Len(u)) : z[i] = u[i - Len(t)]
  <2>1. u \in Seq(Piece) /\ t \in Seq(Piece)
    BY <1>1, <1>4
  <2>2. /\ t \o u \in Seq(Piece) /\ Len(t \o u) = Len(t) + Len(u)
        /\ \A i \in 1 .. Len(t) + Len(u) : (t \o u)[i] = IF i <= Len(t) THEN t[i] ELSE u[i - Len(t)]
    BY <2>1, ConcatProperties
  <2>3. Len(t) \in Nat /\ Len(u) \in Nat
    BY <2>1
  <2> QED
    BY <2>2, <2>3
<1>z. z = t \o u
  OBVIOUS
<1> HIDE DEF z
<1>7. Len(z) = Len(w) - m /\ m \in 0 .. Len(w) /\ m \in Nat /\ Len(t) = Len(b) - m
  BY <1>2, <1>4, <1>5, <1>6
<1>8. ASSUME NEW i \in 1 .. Len(z) PROVE z[i] = w[m + i]
  <2>1. CASE i <= Len(t)
    <3>1. i \in 1 .. Len(t) /\ m + i \in 1 .. Len(b)
      BY <1>2, <1>5, <1>7, <2>1
    <3> QED
      BY <1>4, <1>5, <1>6, <3>1
  <2>2. CASE i > Len(t)
    <3>1. /\ i \in (Len(t) + 1) .. (Len(t) + Len(u)) /\ m + i \in (Len(b) + 1) .. (Len(b) + Len(u))
          /\ i - Len(t) = (m + i) - Len(b)
      BY <1>2, <1>5, <1>6, <1>7, <2>2
    <3> QED
      BY <1>5, <1>6, <3>1
  <2> QED
    BY <1>5, <1>7, <2>1, <2>2
<1>9. m = 0 \/ w[m].ends
  <2>1. CASE m # 0
    <3>1. m \in 1 .. Len(b)
      BY <1>2, <2>1
    <3> QED
      BY <1>2, <1>5, <2>1, <3>1
  <2> QED
    BY <2>1
<1>10. /\ x \in Client /\ x.con = TRUE /\ x.inb = t /\ x.unread = u
       /\ x.pipe = "reading" /\ x.peer = r.peer /\ x.pieces = r.pieces /\ x.mid = r.mid
  <2>1. t \in Seq(Piece)
    BY <1>4
  <2>2. /\ x \in Client /\ x.con = TRUE /\ x.inb = t /\ x.unread = SubSeq(r.unread, n + 1, Len(r.unread))
        /\ x.pipe = "reading" /\ x.peer = r.peer /\ x.pieces = r.pieces /\ x.mid = r.mid
    BY <2>1, Reading, ZenonT(30)
  <2> QED
    BY <1>u, <2>2
<1>11. /\ y \in Client /\ y.con = TRUE /\ y.inb = b /\ y.unread = u
       /\ y.pipe = "reading" /\ y.peer = r.peer /\ y.pieces = r.pieces /\ y.mid = r.mid
  <2>1. b \in Seq(Piece)
    BY <1>1
  <2>2. /\ y \in Client /\ y.con = TRUE /\ y.inb = b /\ y.unread = SubSeq(r.unread, n + 1, Len(r.unread))
        /\ y.pipe = "reading" /\ y.peer = r.peer /\ y.pieces = r.pieces /\ y.mid = r.mid
    BY <2>1, Reading, ZenonT(30)
  <2> QED
    BY <1>u, <2>2
<1> HIDE DEF x, y
<1>12. Stream(z, x)
  BY <1>1, <1>6, <1>7, <1>8, <1>9, <1>10, <1>s, <1>p, StreamSuffix, ZenonT(30)
<1>13. Stream(w, y)
  BY <1>11, <1>s DEF Stream
<1>14. Orderly(x)
  BY <1>10, <1>12, <1>z DEF Orderly
<1>15. Orderly(y)
  BY <1>1, <1>11, <1>13 DEF Orderly
<1> QED
  BY <1>10, <1>11, <1>14, <1>15 DEF x, y, t, b

\* The lines of a read as the engine will see them.
LEMMA Telling ==
  ASSUME slot \in [Slots -> Client], NEW s \in Slots, Orderly(slot[s]), slot[s].peer # NoPeer,
         NEW n \in 0 .. Len(slot[s].unread), NEW e \in InOrder(LineEnds(Buffer(slot[s], n)))
  PROVE  LET p == [k \in DOMAIN e |-> Says(s, Line(Buffer(slot[s], n), e, k))]
         IN p \in Seq(Event) /\ AllWhole(p) /\ \A k \in 1 .. Len(p) : p[k].kind = "line"
<1> DEFINE r == slot[s]
           b == Buffer(r, n)
           u == SubSeq(r.unread, n + 1, Len(r.unread))
           w == r.inb \o r.unread
           p == [k \in DOMAIN e |-> Says(s, Line(b, e, k))]
<1>0. r \in Client
  OBVIOUS
<1>1. r.pieces \in Nat /\ r.peer \in Nat /\ Stream(w, r)
  BY <1>0 DEF Client, Orderly
<1>2. b \in Seq(Piece) /\ u \in Seq(Piece) /\ w \in Seq(Piece) /\ b \o u = w
  BY <1>0, Buffering
<1>w. r = slot[s] /\ e \in InOrder(LineEnds(b))
  OBVIOUS
<1> HIDE DEF b, u, w
<1>3. Len(b) <= Len(w) /\ \A i \in 1 .. Len(b) : b[i] = w[i]
  <2>1. /\ Len(b \o u) = Len(b) + Len(u)
        /\ \A i \in 1 .. Len(b) + Len(u) : (b \o u)[i] = IF i <= Len(b) THEN b[i] ELSE u[i - Len(b)]
    BY <1>2, ConcatProperties
  <2>2. Len(b) \in Nat /\ Len(u) \in Nat
    BY <1>2
  <2> QED
    BY <1>2, <2>1, <2>2
<1> HIDE DEF r
<1>4. DOMAIN e = 1 .. Len(e) /\ Len(e) \in Nat
  BY <1>2, <1>w, EndsInOrder
<1>5. ASSUME NEW k \in 1 .. Len(e)
      PROVE  p[k] \in Event /\ Whole(p[k]) /\ p[k].kind = "line"
  <2> DEFINE l == Line(b, e, k)
  <2>1. l \in Seq(Piece) /\ WholeLine(l, r.peer)
    BY <1>1, <1>2, <1>3, <1>w, LineIsWhole
  <2>2. p[k] = [kind |-> "line", id |-> s, who |-> r.peer, pieces |-> l]
    BY <1>4, <1>w DEF Says
  <2> HIDE DEF l, p
  <2>3. p[k] \in Event
    BY <1>1, <2>1, <2>2 DEF Event
  <2>4. p[k].who = r.peer /\ p[k].pieces = l /\ p[k].kind = "line"
    BY <2>2
  <2>5. Whole(p[k])
    BY <2>1, <2>4 DEF Whole
  <2> QED
    BY <2>3, <2>4, <2>5
<1>6. p \in Seq(Event) /\ Len(p) = Len(e)
  BY <1>4, <1>5
<1> HIDE DEF p
<1>7. p \in Seq(Event) /\ AllWhole(p) /\ \A k \in 1 .. Len(p) : p[k].kind = "line"
  BY <1>4, <1>5, <1>6 DEF AllWhole
<1> QED
  BY <1>7 DEF p, b, r

LEMMA ReadKeeps ==
  ASSUME NEW c \in Nat, NEW q, Kept(slot, c, q), NEW s \in Slots, Signalled(slot[s]),
         NEW n \in 0 .. Len(slot[s].unread), NEW ok \in BOOLEAN,
         NEW e \in InOrder(LineEnds(Buffer(slot[s], n)))
  PROVE  LET z == Served(s, n, e, ok)
         IN z.posts \in Seq(Event) /\ Kept([slot EXCEPT ![s] = z.r], c, q \o z.posts)
<1> DEFINE r == slot[s]
           z == Served(s, n, e, ok)
           hello == IF r.con THEN <<>> ELSE <<Connects(s)>>
           bye == <<Disconnects(s, r.peer)>>
           b == Buffer(r, n)
           y == Holding(r, n, b)
           at == [slot EXCEPT ![s] = y]
<1>1. slot \in [Slots -> Client] /\ r \in Client /\ Orderly(r) /\ q \in Seq(Event)
  BY DEF Kept
<1>2. r.peer \in Nat /\ r.peer # NoPeer /\ r.con \in BOOLEAN
  BY <1>1 DEF Signalled, Orderly, Client
<1>3. /\ Connects(s) \in Event /\ Connects(s).kind = "client" /\ Worth(Connects(s)) = 1
      /\ Disconnects(s, r.peer) \in Event /\ Disconnects(s, r.peer).kind = "client"
      /\ Worth(Disconnects(s, r.peer)) = -1
  BY <1>2 DEF Connects, Disconnects, Event, Worth
<1>4. hello \in Seq(Event) /\ bye \in Seq(Event) /\ q \o hello \in Seq(Event)
  <2>1. hello \in Seq(Event) /\ bye \in Seq(Event)
    BY <1>3
  <2> QED
    BY <1>1, <2>1
<1>5. y \in Client /\ Orderly(y) /\ y.con = TRUE
  BY <1>1, <1>2, Splitting
<1>6. Kept(at, c, q \o hello)
  <2>1. CASE r.con
    <3>1. hello = <<>> /\ y.con = r.con
      BY <1>5, <2>1
    <3>2. Kept(at, c, q)
      BY <1>5, <3>1, OneQuiet
    <3> QED
      BY <1>1, <3>1, <3>2, ConcatEmptySeq
  <2>2. CASE ~r.con
    <3>1. hello = <<Connects(s)>>
      BY <2>2
    <3>2. Worth(Connects(s)) = One(y.con) - One(slot[s].con)
      BY <1>3, <1>5, <2>2 DEF One
    <3>3. Kept(at, c, q \o <<Connects(s)>>)
      BY <1>3, <1>5, <3>2, OnePost
    <3> QED
      BY <3>1, <3>3
  <2> QED
    BY <2>1, <2>2
<1>7. at[s] = y /\ \A x : [at EXCEPT ![s] = x] = [slot EXCEPT ![s] = x]
  BY <1>1
<1>8. CASE r.gone /\ n = Len(r.unread)
  <2> DEFINE x == Relistens(Dropped(r), ok)
  <2>1. x \in Client /\ Orderly(x) /\ x.con = FALSE
    BY <1>1, Listening
  <2>2. z.r = x /\ z.posts = Farewell(s)
    BY <1>8 DEF Served
  <2> HIDE DEF x, z
  <2>3. CASE r.con
    <3>1. Farewell(s) = bye
      BY <2>3 DEF Farewell
    <3>2. Worth(Disconnects(s, r.peer)) = One(x.con) - One(slot[s].con)
      BY <1>3, <2>1, <2>3 DEF One
    <3>3. Kept([slot EXCEPT ![s] = x], c, q \o bye)
      BY <1>3, <2>1, <3>2, OnePost
    <3> QED
      BY <1>4, <2>2, <3>1, <3>3 DEF z
  <2>4. CASE ~r.con
    <3>1. Farewell(s) = <<>> /\ <<>> \in Seq(Event)
      BY <2>4 DEF Farewell
    <3>2. Kept([slot EXCEPT ![s] = x], c, q)
      BY <1>2, <2>1, <2>4, OneQuiet
    <3>3. q \o <<>> = q
      BY <1>1, ConcatEmptySeq
    <3> QED
      BY <2>2, <3>1, <3>2, <3>3 DEF z
  <2> QED
    BY <2>3, <2>4
<1>9. CASE ~(r.gone /\ n = Len(r.unread)) /\ Len(r.inb) + n > MaxInbound
  <2> DEFINE x == Relistens(Dropped(Reads(r, n)), ok)
  <2>0. Reads(r, n) \in Client
    <3>1. <<>> \in Seq(Piece)
      OBVIOUS
    <3> QED
      BY <1>1, <3>1, Reading
  <2>1. x \in Client /\ Orderly(x) /\ x.con = FALSE
    BY <2>0, Listening
  <2>2. z.r = x /\ z.posts = hello \o bye
    BY <1>9 DEF Served
  <2> HIDE DEF x, z
  <2>3. Worth(Disconnects(s, r.peer)) = One(x.con) - One(at[s].con)
    BY <1>3, <1>5, <1>7, <2>1 DEF One
  <2> HIDE DEF at, hello
  <2>4. Kept([at EXCEPT ![s] = x], c, (q \o hello) \o bye)
    BY <1>3, <1>6, <2>1, <2>3, OnePost
  <2>5. (q \o hello) \o bye = q \o (hello \o bye)
    BY <1>1, <1>4, ConcatAssociative
  <2>6. hello \o bye \in Seq(Event)
    BY <1>4
  <2> QED
    BY <1>7, <2>2, <2>4, <2>5, <2>6 DEF z
<1>10. CASE ~(r.gone /\ n = Len(r.unread)) /\ ~(Len(r.inb) + n > MaxInbound)
  <2> DEFINE x == Holding(r, n, TailAfter(b, e))
             p == [k \in DOMAIN e |-> Says(s, Line(b, e, k))]
  <2>1. x \in Client /\ Orderly(x) /\ x.con = TRUE
    BY <1>1, <1>2, Splitting
  <2>2. z.r = x /\ z.posts = hello \o p
    BY <1>10 DEF Served, Holding
  <2>3. p \in Seq(Event) /\ AllWhole(p) /\ \A k \in 1 .. Len(p) : p[k].kind = "line"
    BY <1>1, <1>2, Telling
  <2> HIDE DEF x, p, z, at, hello
  <2>4. x.con = at[s].con
    BY <1>5, <1>7, <2>1
  <2>5. Kept([at EXCEPT ![s] = x], c, (q \o hello) \o p)
    BY <1>6, <2>1, <2>3, <2>4, OneLines
  <2>6. (q \o hello) \o p = q \o (hello \o p)
    BY <1>1, <1>4, <2>3, ConcatAssociative, SMTT(30)
  <2>7. hello \o p \in Seq(Event)
    BY <1>4, <2>3
  <2> QED
    BY <1>7, <2>2, <2>5, <2>6, <2>7 DEF z
<1> QED
  BY <1>8, <1>9, <1>10

LEMMA ServesKeeps ==
  ASSUME LinkInv, NEW s \in Slots, Serves(s) PROVE Kept(slot', count', events')
<1>1. Kept(slot, count, events) /\ count \in Nat /\ events \in Seq(Event) /\ count' = count
  BY DEF LinkInv, LinkTypeOK, Serves
<1>2. PICK n \in 0 .. Len(slot[s].unread), ok \in BOOLEAN :
        \E e \in InOrder(LineEnds(Buffer(slot[s], n))) :
          Sweep([slot EXCEPT ![s] = Served(s, n, e, ok).r], Served(s, n, e, ok).posts)
  BY DEF Serves
<1>3. PICK e \in InOrder(LineEnds(Buffer(slot[s], n))) :
        Sweep([slot EXCEPT ![s] = Served(s, n, e, ok).r], Served(s, n, e, ok).posts)
  BY <1>2
<1>4. Signalled(slot[s])
  BY DEF Serves
<1> DEFINE new == [slot EXCEPT ![s] = Served(s, n, e, ok).r]
           posts == Served(s, n, e, ok).posts
<1>5. posts \in Seq(Event) /\ Kept(new, count, events \o posts) /\ Sweep(new, posts)
  BY <1>1, <1>3, <1>4, ReadKeeps
<1> HIDE DEF new, posts
<1> QED
  BY <1>1, <1>5, SweepKeeps

LEMMA SendsKeep == LinkInv /\ Sends => Kept(slot', count', events')
<1> SUFFICES ASSUME LinkInv, Sends PROVE Kept(slot', count', events')
  OBVIOUS
<1>1. Kept(slot, count, events) /\ count \in Nat /\ events \in Seq(Event) /\ count' = count
  BY DEF LinkInv, LinkTypeOK, Sends
<1>2. PICK w \in [Slots -> 0 .. MaxOutbound], ok \in BOOLEAN :
        /\ \A s \in Slots : w[s] <= (IF slot[s].gone THEN 0 ELSE Len(Outbound(s)))
        /\ \E posts \in Goodbyes(Cut(w), slot) : Sweep(Written(w, ok), posts)
  BY DEF Sends
<1>3. PICK posts \in Goodbyes(Cut(w), slot) : Sweep(Written(w, ok), posts)
  BY <1>2
<1>4. ASSUME NEW s \in Slots, w[s] # Len(Outbound(s)) PROVE slot[s].con
  <2>1. w[s] \in 0 .. MaxOutbound
    BY <1>2
  <2>2. w[s] <= (IF slot[s].gone THEN 0 ELSE Len(Outbound(s)))
    BY <1>2
  <2>3. CASE ~slot[s].con
    <3>1. Outbound(s) = <<>> /\ Len(<<>>) = 0
      BY <2>3 DEF Outbound
    <3>2. Len(Outbound(s)) = 0
      BY <3>1
    <3> QED
      BY <1>4, <2>1, <2>2, <3>2
  <2> QED
    BY <2>3
<1>5. Cut(w) \in SUBSET Connected(slot)
  BY <1>4 DEF Cut, Connected
<1>6. Kept(Written(w, ok), count, events \o posts)
  BY <1>1, <1>5, DropsKeep DEF Written
<1>7. posts \in Seq(Event)
  <2>1. Cut(w) \in SUBSET Slots /\ \A s \in Slots : slot[s].peer \in Nat
    BY <1>1 DEF Cut, Kept, Client
  <2> QED
    BY <2>1, GoodbyesAdd
<1> QED
  BY <1>1, <1>3, <1>6, <1>7, SweepKeeps

LEMMA SweepsKeep == LinkInv /\ Sweeps => Kept(slot', count', events')
<1> SUFFICES ASSUME LinkInv, Sweeps PROVE Kept(slot', count', events')
  OBVIOUS
<1>1. /\ Kept(slot, count, events) /\ count \in Nat /\ events \in Seq(Event) /\ count' = count
      /\ Sweep(slot, <<>>) /\ <<>> \in Seq(Event)
  BY DEF LinkInv, LinkTypeOK, Sweeps
<1>2. events \o <<>> = events
  BY <1>1, ConcatEmptySeq
<1>3. Kept(slot, count, events \o <<>>)
  BY <1>1, <1>2
<1> QED
  BY <1>1, <1>3, SweepKeeps

LEMMA ConnectsKeeps ==
  ASSUME LinkInv, NEW s \in Slots, PanelConnects(s) PROVE Kept(slot', count', events')
<1> DEFINE r == slot[s]
           x == [r EXCEPT !.peer = came']
<1>1. /\ Kept(slot, count, events) /\ count \in Nat /\ slot \in [Slots -> Client]
      /\ came \in Nat /\ r \in Client /\ Orderly(r)
  BY DEF LinkInv, LinkTypeOK, Kept
<1>2. r.pipe = "connecting" /\ r.peer = NoPeer /\ came' = came + 1 /\ UNCHANGED <<count, events>>
  BY DEF PanelConnects
<1>3. slot' = [slot EXCEPT ![s] = x]
  BY <1>1 DEF PanelConnects
<1>4. came' \in Nat /\ came' # NoPeer
  BY <1>1, <1>2 DEF NoPeer
<1>5. x \in Client
  BY <1>1, <1>4 DEF Client
<1>6. /\ x.pipe = r.pipe /\ x.unread = r.unread /\ x.pieces = r.pieces /\ x.mid = r.mid
      /\ x.con = r.con /\ x.inb = r.inb /\ x.peer = came'
  BY <1>1 DEF Client
<1>7. r.unread = <<>> /\ r.inb = <<>> /\ r.mid = FALSE /\ r.con \in BOOLEAN
  BY <1>1, <1>2 DEF Orderly, Client
<1> HIDE DEF x
<1>8. Orderly(x)
  <2>1. x.inb \o x.unread = <<>> /\ Len(<<>>) = 0 /\ ~r.con
    BY <1>1, <1>2, <1>6, <1>7 DEF Orderly
  <2>2. Stream(x.inb \o x.unread, x)
    BY <1>6, <1>7, <2>1 DEF Stream
  <2> QED
    BY <1>2, <1>4, <1>6, <1>7, <2>1, <2>2 DEF Orderly
<1>9. Kept([slot EXCEPT ![s] = x], count, events)
  BY <1>1, <1>5, <1>6, <1>8, OneQuiet
<1> QED
  BY <1>2, <1>3, <1>9

LEMMA LeavesKeeps ==
  ASSUME LinkInv, NEW s \in Slots, PanelLeaves(s) PROVE Kept(slot', count', events')
<1> DEFINE r == slot[s]
           x == [r EXCEPT !.gone = TRUE]
<1>1. /\ Kept(slot, count, events) /\ count \in Nat /\ slot \in [Slots -> Client]
      /\ r \in Client /\ Orderly(r) /\ UNCHANGED <<count, events>>
  BY DEF LinkInv, LinkTypeOK, Kept, PanelLeaves
<1>3. slot' = [slot EXCEPT ![s] = x]
  BY <1>1 DEF PanelLeaves
<1>5. x \in Client
  BY <1>1 DEF Client
<1>6. /\ x.pipe = r.pipe /\ x.unread = r.unread /\ x.pieces = r.pieces /\ x.mid = r.mid
      /\ x.con = r.con /\ x.inb = r.inb /\ x.peer = r.peer
  BY <1>1 DEF Client
<1> HIDE DEF x
<1>8. Orderly(x)
  BY <1>1, <1>6, ZenonT(30) DEF Orderly, Stream
<1>9. Kept([slot EXCEPT ![s] = x], count, events)
  BY <1>1, <1>5, <1>6, <1>8, OneQuiet
<1> QED
  BY <1>1, <1>3, <1>9

\* A panel writes on: the stream goes on.
LEMMA Writing ==
  ASSUME NEW w \in Seq(Piece), NEW r, r.pieces \in Nat, r.mid \in BOOLEAN, Stream(w, r),
         NEW p \in Piece, p.of = r.peer, p.n = r.pieces + 1, p.starts = ~r.mid,
         NEW x, x.peer = r.peer, x.pieces = r.pieces + 1, x.mid = ~p.ends
  PROVE  Stream(Append(w, p), x)
<1> DEFINE a == Append(w, p)
<1>1. /\ Len(w) \in Nat /\ Len(a) = Len(w) + 1 /\ a[Len(w) + 1] = p
      /\ \A i \in 1 .. Len(w) : a[i] = w[i]
  OBVIOUS
<1>2. /\ \A i \in 1 .. Len(w) : /\ w[i].of = r.peer /\ w[i].n = r.pieces - Len(w) + i
                                /\ w[i].starts <=> (i = 1 \/ w[i - 1].ends)
      /\ r.mid <=> (Len(w) > 0 /\ ~w[Len(w)].ends)
  BY DEF Stream
<1>3. p.ends \in BOOLEAN
  BY DEF Piece
<1> HIDE DEF a
<1>4. ASSUME NEW i \in 1 .. Len(a)
      PROVE  /\ a[i].of = x.peer /\ a[i].n = x.pieces - Len(a) + i
             /\ a[i].starts <=> (i = 1 \/ a[i - 1].ends)
  <2>1. CASE i \in 1 .. Len(w)
    <3>1. a[i].of = x.peer /\ a[i].n = x.pieces - Len(a) + i
      BY <1>1, <1>2, <2>1
    <3>2. i = 1 \/ a[i - 1] = w[i - 1]
      BY <1>1, <2>1
    <3>3. a[i].starts <=> (i = 1 \/ w[i - 1].ends)
      BY <1>1, <1>2, <2>1
    <3> QED
      BY <3>1, <3>2, <3>3
  <2>2. CASE i = Len(w) + 1
    <3>1. a[i] = p /\ a[i].of = x.peer /\ a[i].n = x.pieces - Len(a) + i
      BY <1>1, <2>2
    <3>2. CASE Len(w) = 0
      <4>1. i = 1 /\ ~r.mid
        BY <1>2, <2>2, <3>2
      <4>2. p.starts
        BY <4>1
      <4> QED
        BY <3>1, <4>1, <4>2
    <3>3. CASE Len(w) > 0
      <4>1. i # 1 /\ i - 1 = Len(w) /\ a[i - 1] = w[Len(w)]
        BY <1>1, <2>2, <3>3
      <4>2. p.starts <=> w[Len(w)].ends
        BY <1>2, <3>3
      <4> QED
        BY <3>1, <4>1, <4>2
    <3> QED
      BY <1>1, <3>2, <3>3
  <2> QED
    BY <1>1, <2>1, <2>2
<1>5. x.mid <=> (Len(a) > 0 /\ ~a[Len(a)].ends)
  <2>1. a[Len(a)] = p /\ Len(a) > 0
    BY <1>1
  <2>2. x.mid <=> ~p.ends
    BY <1>3
  <2> QED
    BY <2>1, <2>2
<1> QED
  BY <1>4, <1>5 DEF Stream, a

LEMMA Appending ==
  ASSUME NEW h \in Seq(Piece), NEW u \in Seq(Piece), NEW p \in Piece
  PROVE  Append(h \o u, p) = h \o Append(u, p)
<1>1. <<p>> \in Seq(Piece) /\ h \o u \in Seq(Piece)
  OBVIOUS
<1>2. Append(h \o u, p) = (h \o u) \o <<p>> /\ Append(u, p) = u \o <<p>>
  BY <1>1, AppendIsConcat
<1> DEFINE q == <<p>>
<1> HIDE DEF q
<1>3. (h \o u) \o q = h \o (u \o q)
  <2>1. q \in Seq(Piece)
    BY <1>1 DEF q
  <2> QED
    BY <2>1, ConcatAssociative
<1> QED
  BY <1>2, <1>3 DEF q

LEMMA WritesKeeps ==
  ASSUME LinkInv, NEW s \in Slots, PanelWrites(s) PROVE Kept(slot', count', events')
<1> DEFINE r == slot[s]
<1>1. /\ Kept(slot, count, events) /\ count \in Nat /\ slot \in [Slots -> Client]
      /\ r \in Client /\ Orderly(r) /\ r.peer # NoPeer /\ UNCHANGED <<count, events>>
  BY DEF LinkInv, LinkTypeOK, Kept, PanelWrites
<1>2. PICK ends \in BOOLEAN : slot' = [slot EXCEPT ![s] = Wrote(r, ends)]
  BY DEF PanelWrites
<1>3. /\ r.peer \in Nat /\ r.pieces \in Nat /\ r.mid \in BOOLEAN /\ r.con \in BOOLEAN
      /\ r.unread \in Seq(Piece) /\ r.inb \in Seq(Piece)
  BY <1>1 DEF Client
<1> DEFINE p == [of |-> r.peer, n |-> r.pieces + 1, starts |-> ~r.mid, ends |-> ends]
           v == Append(r.unread, p)
           y == [r EXCEPT !.pieces = @ + 1, !.mid = ~ends]
           x == [y EXCEPT !.unread = v]
<1>4. p \in Piece /\ p.of = r.peer /\ p.n = r.pieces + 1 /\ p.starts = ~r.mid /\ p.ends = ends
  BY <1>3 DEF Piece
<1>5. Wrote(r, ends) = x
  BY <1>1 DEF Wrote, Client
<1>v. v = Append(r.unread, p)
  OBVIOUS
<1> HIDE DEF p, v
<1>6. v \in Seq(Piece)
  BY <1>3, <1>4, <1>v
<1> DEFINE m == r.pieces + 1
           g == ~ends
<1>m. m \in Nat /\ g \in BOOLEAN
  BY <1>3
<1> HIDE DEF m, g
<1>7. y \in Client
  <2>1. y = [r EXCEPT !.pieces = m, !.mid = g]
    BY DEF m, g
  <2> QED
    BY <1>1, <1>m, <2>1 DEF Client
<1>8. /\ y.pipe = r.pipe /\ y.pieces = r.pieces + 1 /\ y.mid = ~ends
      /\ y.con = r.con /\ y.inb = r.inb /\ y.peer = r.peer
  BY <1>1 DEF Client
<1> HIDE DEF y
<1>9. x \in Client
  BY <1>6, <1>7 DEF Client
<1>10. /\ x.pipe = r.pipe /\ x.pieces = r.pieces + 1 /\ x.mid = ~ends /\ x.unread = v
       /\ x.con = r.con /\ x.inb = r.inb /\ x.peer = r.peer
  BY <1>7, <1>8 DEF Client
<1> HIDE DEF x
<1>11. Orderly(x)
  <2>1. Append(r.inb \o r.unread, p) = r.inb \o v
    BY <1>3, <1>4, <1>v, Appending
  <2>2. Stream(r.inb \o r.unread, r) /\ r.inb \o r.unread \in Seq(Piece)
    BY <1>1, <1>3 DEF Orderly
  <2>3. x.mid = ~p.ends
    BY <1>4, <1>10
  <2>4. Stream(Append(r.inb \o r.unread, p), x)
    BY <1>3, <1>4, <1>10, <2>2, <2>3, Writing
  <2> QED
    BY <1>1, <1>10, <2>1, <2>4 DEF Orderly
<1>12. Kept([slot EXCEPT ![s] = x], count, events)
  BY <1>1, <1>3, <1>9, <1>10, <1>11, OneQuiet
<1> QED
  BY <1>1, <1>2, <1>5, <1>12

\* The clients of the instances stay, and no event comes or goes.
LEMMA SameClients ==
  ASSUME LinkInv, NEW new \in [Slots -> Client], \A s \in Slots : Orderly(new[s]) /\ new[s].con = slot[s].con
  PROVE  Kept(new, count, events) /\ Connected(new) = Connected(slot)
<1>1. Connected(new) = Connected(slot)
  BY DEF Connected
<1> QED
  BY <1>1 DEF LinkInv, Kept

LEMMA TickKeeps == LinkInv /\ Tick => Kept(slot', count', events') /\ Connected(slot') = Connected(slot)
<1> SUFFICES ASSUME LinkInv, Tick PROVE Kept(slot', count', events') /\ Connected(slot') = Connected(slot)
  OBVIOUS
<1>1. /\ slot \in [Slots -> Client] /\ \A s \in Slots : slot[s] \in Client /\ Orderly(slot[s])
      /\ UNCHANGED <<count, events>>
  BY DEF LinkInv, Kept, Tick
<1>2. slot' = [s \in Slots |-> IF slot[s].con /\ slot[s].silent <= Limit
                              THEN [slot[s] EXCEPT !.silent = @ + 1] ELSE slot[s]]
  BY DEF Tick
<1>3. ASSUME NEW s \in Slots
      PROVE  slot'[s] \in Client /\ Orderly(slot'[s]) /\ slot'[s].con = slot[s].con
  <2> DEFINE r == slot[s]
             x == [r EXCEPT !.silent = @ + 1]
  <2>1. r \in Client /\ Orderly(r) /\ r.silent \in Nat
    BY <1>1 DEF Client
  <2>2. x \in Client
    BY <2>1, SMTT(30) DEF Client
  <2>3. /\ x.pipe = r.pipe /\ x.unread = r.unread /\ x.pieces = r.pieces /\ x.mid = r.mid
        /\ x.con = r.con /\ x.inb = r.inb /\ x.peer = r.peer
    BY <2>1 DEF Client
  <2>4. slot'[s] = x \/ slot'[s] = r
    BY <1>2
  <2> HIDE DEF x
  <2>5. Orderly(x)
    BY <2>1, <2>3, ZenonT(30) DEF Orderly, Stream
  <2> QED
    BY <2>1, <2>2, <2>3, <2>4, <2>5
<1>4. slot' \in [Slots -> Client]
  BY <1>2, <1>3
<1> QED
  BY <1>1, <1>3, <1>4, SameClients

\* The clock does not post; instances that are closed have no clients.
LEMMA IdleIsFine ==
  /\ IdleSlot \in Client /\ Orderly(IdleSlot) /\ IdleSlot.con = FALSE
  /\ LET x == [IdleSlot EXCEPT !.pipe = "closed"]
     IN x \in Client /\ Orderly(x) /\ x.con = FALSE
<1> DEFINE x == [IdleSlot EXCEPT !.pipe = "closed"]
<1>0. <<>> \in Seq(Piece) /\ <<>> \o <<>> = <<>> /\ Len(<<>>) = 0
  <2>1. <<>> \in Seq(Piece)
    OBVIOUS
  <2> QED
    BY <2>1, ConcatEmptySeq
<1>1. IdleSlot \in Client /\ IdleSlot.con = FALSE
  BY <1>0 DEF IdleSlot, Client, NoPeer
<1>2. Orderly(IdleSlot)
  <2>1. Stream(<<>>, IdleSlot)
    BY <1>0 DEF Stream, IdleSlot
  <2> QED
    BY <1>0, <2>1 DEF Orderly, IdleSlot
<1>3. /\ x \in Client /\ x.con = FALSE /\ x.pipe = "closed" /\ x.inb = <<>> /\ x.unread = <<>>
      /\ x.mid = FALSE /\ x.pieces = 0
  BY <1>0 DEF IdleSlot, Client, NoPeer
<1> HIDE DEF x
<1>4. Orderly(x)
  <2>1. Stream(<<>>, x)
    BY <1>0, <1>3 DEF Stream
  <2> QED
    BY <1>0, <1>3, <2>1 DEF Orderly
<1> QED
  BY <1>1, <1>2, <1>3, <1>4 DEF x

LEMMA AppliesKeep == LinkInv /\ Applies => Kept(slot', count', events') /\ count' \in Nat
<1> SUFFICES ASSUME LinkInv, Applies PROVE Kept(slot', count', events') /\ count' \in Nat
  OBVIOUS
<1> DEFINE e == Head(events)
           f == Cardinality(Connected(slot))
<1>1. /\ slot \in [Slots -> Client] /\ \A s \in Slots : Orderly(slot[s])
      /\ slot' = slot /\ events \in Seq(Event) /\ AllWhole(events) /\ count \in Nat /\ Balanced(count, events, f)
      /\ events # <<>> /\ events' = Tail(events)
  BY DEF LinkInv, LinkTypeOK, Kept, Applies
<1>2. e \in Event /\ f \in Nat
  BY <1>1, ConsFinite
<1>3. count' = IF Worth(e) = 0 THEN count
               ELSE IF Worth(e) = 1 THEN count + 1 ELSE IF count > 0 THEN count - 1 ELSE 0
  <2>1. count' = IF e.kind = "line" THEN count
                 ELSE IF e.connected THEN count + 1 ELSE IF count > 0 THEN count - 1 ELSE 0
    BY DEF Applies
  <2> HIDE DEF e
  <2> QED
    BY <2>1 DEF Worth
<1>4. Balanced(count', Tail(events), f)
  BY <1>1, <1>2, <1>3, Applying
<1>5. Tail(events) \in Seq(Event) /\ AllWhole(Tail(events))
  <2>1. /\ Tail(events) \in Seq(Event) /\ Len(Tail(events)) = Len(events) - 1 /\ Len(events) \in Nat
        /\ \A i \in 1 .. (Len(events) - 1) : Tail(events)[i] = events[i + 1]
    BY <1>1
  <2>2. ASSUME NEW i \in 1 .. Len(Tail(events)) PROVE Whole(Tail(events)[i])
    <3>1. i + 1 \in 1 .. Len(events) /\ Tail(events)[i] = events[i + 1]
      BY <2>1
    <3> QED
      BY <1>1, <3>1 DEF AllWhole
  <2> QED
    BY <2>1, <2>2 DEF AllWhole
<1>6. count' \in Nat
  BY <1>1, <1>3
<1>7. Kept(slot, count', Tail(events))
  BY <1>1, <1>4, <1>5 DEF Kept
<1> QED
  BY <1>1, <1>6, <1>7

LEMMA TurnsOffKeeps == LinkInv /\ TurnsOff => Kept(slot', count', events') /\ Connected(slot') = {}
<1> SUFFICES ASSUME LinkInv, TurnsOff PROVE Kept(slot', count', events') /\ Connected(slot') = {}
  OBVIOUS
<1>1. /\ slot \in [Slots -> Client] /\ \A s \in Slots : slot[s].peer \in Nat
      /\ events \in Seq(Event) /\ AllWhole(events) /\ count \in Nat
      /\ Balanced(count, events, Cardinality(Connected(slot))) /\ count' = 0
  BY DEF LinkInv, LinkTypeOK, Kept, TurnsOff, Client
<1>2. PICK p \in Goodbyes(Connected(slot), slot) : events' = events \o p
  BY DEF TurnsOff, Connected
<1>3. Connected(slot) \in SUBSET Slots
  BY DEF Connected
<1>4. p \in Seq(Event) /\ AllWhole(p) /\ Cardinality(Connected(slot)) \in Nat
  BY <1>1, <1>3, GoodbyesAdd
<1>5. PICK d : Adds(d, p) /\ d[1] = -Cardinality(Connected(slot)) /\ \A k \in 1 .. (Len(p) + 1) : d[k] <= 0
  BY <1>1, <1>3, GoodbyesAdd
<1>6. Balanced(0, events \o p, 0)
  BY <1>1, <1>4, <1>5, Zeroing
<1>7. slot' = [s \in Slots |-> [IdleSlot EXCEPT !.pipe = "closed"]]
  BY DEF TurnsOff
<1>8. slot' \in [Slots -> Client] /\ \A s \in Slots : Orderly(slot'[s]) /\ slot'[s].con = FALSE
  BY <1>7, IdleIsFine
<1>9. Connected(slot') = {} /\ Cardinality(Connected(slot')) = 0
  <2>1. Connected(slot') = {}
    BY <1>8 DEF Connected
  <2> QED
    BY <2>1, FS_EmptySet
<1>10. events \o p \in Seq(Event) /\ AllWhole(events \o p)
  BY <1>1, <1>4, ConcatWhole
<1> QED
  BY <1>1, <1>2, <1>6, <1>8, <1>9, <1>10 DEF Kept

LEMMA TurnsOnKeeps == LinkInv /\ TurnsOn => Kept(slot', count', events')
<1> SUFFICES ASSUME LinkInv, TurnsOn PROVE Kept(slot', count', events')
  OBVIOUS
<1>1. Connected(slot) = {} /\ UNCHANGED <<events, count>>
  BY DEF LinkInv, TurnsOn
<1>2. PICK n \in Slots : slot' = [s \in Slots |-> IF s <= n THEN IdleSlot
                                                 ELSE [IdleSlot EXCEPT !.pipe = "closed"]]
  BY DEF TurnsOn
<1>3. slot' \in [Slots -> Client] /\ \A s \in Slots : Orderly(slot'[s]) /\ slot'[s].con = FALSE
  BY <1>2, IdleIsFine
<1>4. \A s \in Slots : slot[s].con = FALSE
  <2>1. \A s \in Slots : slot[s].con \in BOOLEAN /\ ~slot[s].con
    BY <1>1 DEF Connected, LinkInv, Kept, Client
  <2> QED
    BY <2>1
<1>5. Kept(slot', count, events)
  BY <1>3, <1>4, SameClients
<1> QED
  BY <1>1, <1>5

-----------------------------------------------------------------------------
(* The invariant *)

LEMMA SendQueueType ==
  ASSUME LinkTypeOK, NEW m \in [to : Slots \cup {0}, for : Nat]
  PROVE  SendQueue(m) \in Seq([to : Slots \cup {0}, for : Nat])
<1> DEFINE M == [to : Slots \cup {0}, for : Nat]
<1>1. pending \in Seq(M) /\ m \in M
  BY DEF LinkTypeOK
<1> HIDE DEF M
<1>2. Len(pending) >= MaxPending => Tail(pending) \in Seq(M)
  <2>1. ASSUME Len(pending) >= MaxPending PROVE pending # <<>>
    BY <1>1, <2>1, LinkAssumption
  <2> QED
    BY <1>1, <2>1
<1>3. SendQueue(m) \in Seq(M)
  <2>1. CASE Len(pending) >= MaxPending
    BY <1>1, <1>2, <2>1 DEF SendQueue
  <2>2. CASE ~(Len(pending) >= MaxPending)
    BY <1>1, <2>2 DEF SendQueue
  <2> QED
    BY <2>1, <2>2
<1> QED
  BY <1>3 DEF M

LEMMA LinkInitially == LinkInit => LinkInv
<1> SUFFICES ASSUME LinkInit PROVE LinkInv
  OBVIOUS
<1>1. /\ slot = [s \in Slots |-> IdleSlot] /\ server = "running" /\ pending = <<>> /\ events = <<>>
      /\ count = 0 /\ came = 0 /\ restarts = 0
  BY DEF LinkInit
<1>2. slot \in [Slots -> Client] /\ \A s \in Slots : Orderly(slot[s]) /\ slot[s].con = FALSE
  BY <1>1, IdleIsFine
<1>3. Connected(slot) = {} /\ Cardinality(Connected(slot)) = 0
  <2>1. Connected(slot) = {}
    BY <1>2 DEF Connected
  <2> QED
    BY <2>1, FS_EmptySet
<1>4. events \in Seq(Event) /\ Len(events) = 0 /\ AllWhole(events)
  BY <1>1 DEF AllWhole
<1>5. Balanced(0, events, 0)
  <2> DEFINE d == [k \in 1 .. 1 |-> 0]
  <2>1. d \in [1 .. (Len(events) + 1) -> Int] /\ d[1] = 0 /\ \A k \in 1 .. (Len(events) + 1) : d[k] <= 0
    BY <1>4
  <2>2. Adds(d, events)
    BY <1>4, <2>1 DEF Adds
  <2> HIDE DEF d
  <2> QED
    BY <2>1, <2>2 DEF Balanced
<1>6. LinkTypeOK
  BY <1>1, <1>2, <1>4 DEF LinkTypeOK
<1> QED
  BY <1>1, <1>2, <1>3, <1>4, <1>5, <1>6 DEF LinkInv, Kept

\* Once the steps keep the counted part, the types follow.
LEMMA Retyping ==
  ASSUME LinkInv, Kept(slot', count', events'), count' \in Nat, came' \in Nat, restarts' \in Nat,
         server' \in {"running", "gaveUp", "stopped"},
         pending' \in Seq([to : Slots \cup {0}, for : Nat]),
         server' = "stopped" => Connected(slot') = {}
  PROVE  LinkInv'
<1>1. slot' \in [Slots -> Client] /\ events' \in Seq(Event)
  BY DEF Kept
<1>2. LinkTypeOK'
  BY <1>1 DEF LinkTypeOK
<1>3. Kept(slot, count, events)' /\ (server = "stopped" => Connected(slot) = {})'
  <2>1. (server = "stopped" => Connected(slot) = {})'
    BY DEF Connected
  <2>2. Kept(slot, count, events)'
    BY DEF Kept, Orderly, Stream, Balanced, Adds, AllWhole, Whole, WholeLine, Worth, Connected
  <2> QED
    BY <2>1, <2>2
<1> QED
  BY <1>2, <1>3 DEF LinkInv

LEMMA LinkNextKeeps == LinkInv /\ LinkNext => LinkInv'
<1> SUFFICES ASSUME LinkInv, LinkNext PROVE LinkInv'
  OBVIOUS
<1>1. /\ Kept(slot, count, events) /\ {count, came, restarts} \subseteq Nat
      /\ server \in {"running", "gaveUp", "stopped"} /\ (server = "stopped" => Connected(slot) = {})
      /\ pending \in Seq([to : Slots \cup {0}, for : Nat])
      /\ <<>> \in Seq([to : Slots \cup {0}, for : Nat])
  BY DEF LinkInv, LinkTypeOK
<1>2. ASSUME NEW s \in Slots, PanelConnects(s) PROVE LinkInv'
  <2>1. /\ Kept(slot', count', events') /\ came' = came + 1 /\ UNCHANGED <<server, pending, count, restarts>>
        /\ slot[s].con = FALSE
    <3>1. slot[s].con = FALSE
      BY <1>1, <1>2 DEF PanelConnects, Kept, Orderly, Client
    <3> QED
      BY <1>2, <3>1, ConnectsKeeps DEF PanelConnects
  <2>2. slot' = [slot EXCEPT ![s].peer = came'] /\ slot \in [Slots -> Client]
    BY <1>1, <1>2 DEF PanelConnects, Kept
  <2>3. \A t \in Slots : slot'[t].con = slot[t].con
    BY <2>2 DEF Client
  <2>4. server' = "stopped" => Connected(slot') = {}
    BY <1>1, <2>1, <2>3 DEF Connected
  <2>5. came' \in Nat
    BY <1>1, <2>1
  <2> QED
    BY <1>1, <2>1, <2>4, <2>5, Retyping
<1>3. ASSUME NEW s \in Slots, PanelWrites(s) PROVE LinkInv'
  <2>1. Kept(slot', count', events') /\ UNCHANGED <<server, pending, count, came, restarts>>
    BY <1>3, WritesKeeps DEF PanelWrites
  <2>2. PICK ends \in BOOLEAN : slot' = [slot EXCEPT ![s] = Wrote(slot[s], ends)]
    BY <1>3 DEF PanelWrites
  <2>3. slot \in [Slots -> Client] /\ Wrote(slot[s], ends).con = slot[s].con
    BY <1>1 DEF Kept, Wrote, Client
  <2>4. \A t \in Slots : slot'[t].con = slot[t].con
    BY <2>2, <2>3
  <2>5. server' = "stopped" => Connected(slot') = {}
    BY <1>1, <2>1, <2>4 DEF Connected
  <2> QED
    BY <1>1, <2>1, <2>5, Retyping
<1>4. ASSUME NEW s \in Slots, PanelLeaves(s) PROVE LinkInv'
  <2>1. Kept(slot', count', events') /\ UNCHANGED <<server, pending, count, came, restarts>>
    BY <1>4, LeavesKeeps DEF PanelLeaves
  <2>2. slot' = [slot EXCEPT ![s].gone = TRUE] /\ slot \in [Slots -> Client]
    BY <1>1, <1>4 DEF PanelLeaves, Kept
  <2>3. \A t \in Slots : slot'[t].con = slot[t].con
    BY <2>2 DEF Client
  <2>4. server' = "stopped" => Connected(slot') = {}
    BY <1>1, <2>1, <2>3 DEF Connected
  <2> QED
    BY <1>1, <2>1, <2>4, Retyping
<1>5. ASSUME NEW s \in Slots, Serves(s) PROVE LinkInv'
  BY <1>1, <1>5, ServesKeeps, Retyping DEF Serves
<1>6. ASSUME Sends PROVE LinkInv'
  BY <1>1, <1>6, SendsKeep, Retyping DEF Sends
<1>7. ASSUME Sweeps PROVE LinkInv'
  BY <1>1, <1>7, SweepsKeep, Retyping DEF Sweeps
<1>8. ASSUME GivesUp PROVE LinkInv'
  <2>1. /\ UNCHANGED <<slot, pending, events, count, came, restarts>> /\ server' = "gaveUp"
    BY <1>8 DEF GivesUp
  <2>2. Kept(slot', count', events')
    BY <1>1, <2>1
  <2> QED
    BY <1>1, <2>1, <2>2, Retyping
<1>9. ASSUME Tick PROVE LinkInv'
  <2>1. /\ Kept(slot', count', events') /\ Connected(slot') = Connected(slot)
        /\ UNCHANGED <<server, pending, count, came, restarts>>
    BY <1>9, TickKeeps DEF Tick
  <2> QED
    BY <1>1, <2>1, Retyping
<1>10. ASSUME Applies PROVE LinkInv'
  <2>1. Kept(slot', count', events') /\ count' \in Nat /\ UNCHANGED <<slot, server, came, restarts>>
    BY <1>10, AppliesKeep DEF Applies
  <2>2. pending' \in Seq([to : Slots \cup {0}, for : Nat])
    <3> DEFINE e == Head(events)
    <3>1. e \in Event
      BY <1>10 DEF Applies, LinkInv, LinkTypeOK
    <3>2. e.id \in Slots /\ e.who \in Nat
      BY <3>1 DEF Event
    <3> DEFINE m == [to |-> e.id, for |-> e.who]
    <3>3. m \in [to : Slots \cup {0}, for : Nat]
      BY <3>2
    <3>4. pending' = SendQueue(m) \/ pending' = pending
      BY <1>10 DEF Applies
    <3> HIDE DEF m
    <3>5. SendQueue(m) \in Seq([to : Slots \cup {0}, for : Nat])
      BY <3>3, SendQueueType DEF LinkInv
    <3> QED
      BY <1>1, <3>4, <3>5
  <2>3. server' = "stopped" => Connected(slot') = {}
    BY <1>1, <2>1
  <2> QED
    BY <1>1, <2>1, <2>2, <2>3, Retyping
<1>11. ASSUME Broadcast PROVE LinkInv'
  <2>1. /\ UNCHANGED <<slot, server, events, count, came, restarts>>
        /\ pending' = SendQueue([to |-> 0, for |-> NoPeer])
    BY <1>11 DEF Broadcast
  <2>2. pending' \in Seq([to : Slots \cup {0}, for : Nat])
    BY <2>1, SendQueueType DEF LinkInv, NoPeer
  <2>3. Kept(slot', count', events')
    BY <1>1, <2>1
  <2> QED
    BY <1>1, <2>1, <2>2, <2>3, Retyping
<1>12. ASSUME TurnsOff PROVE LinkInv'
  <2>1. Kept(slot', count', events') /\ Connected(slot') = {}
    BY <1>12, TurnsOffKeeps
  <2>2. server' = "stopped" /\ count' = 0 /\ pending' = <<>> /\ UNCHANGED <<came, restarts>>
    BY <1>12 DEF TurnsOff
  <2> QED
    BY <1>1, <2>1, <2>2, Retyping
<1>13. ASSUME TurnsOn PROVE LinkInv'
  <2>1. Kept(slot', count', events')
    BY <1>13, TurnsOnKeeps
  <2>2. server' = "running" /\ pending' = <<>> /\ restarts' = restarts + 1 /\ UNCHANGED <<count, came>>
    BY <1>13 DEF TurnsOn
  <2>3. restarts' \in Nat
    BY <1>1, <2>2
  <2> QED
    BY <1>1, <2>1, <2>2, <2>3, Retyping
<1> QED
  BY <1>2, <1>3, <1>4, <1>5, <1>6, <1>7, <1>8, <1>9, <1>10, <1>11, <1>12, <1>13 DEF LinkNext

\* The server's clients are counted once the events are applied, lines are whole, clients heard.
LEMMA LinkImplies == LinkInv => PipeIsCounted
<1> SUFFICES ASSUME LinkInv PROVE PipeIsCounted
  OBVIOUS
<1>1. /\ slot \in [Slots -> Client] /\ \A s \in Slots : Orderly(slot[s])
      /\ events \in Seq(Event) /\ AllWhole(events) /\ count \in Nat
      /\ Balanced(count, events, Cardinality(Connected(slot)))
  BY DEF LinkInv, LinkTypeOK, Kept
<1>2. CountIsConnections
  <2> SUFFICES ASSUME events = <<>> PROVE count = Cardinality(Connected(slot))
    BY DEF CountIsConnections, Connected
  <2> DEFINE f == Cardinality(Connected(slot))
  <2>1. PICK d \in [1 .. (Len(events) + 1) -> Int] :
             /\ Adds(d, events) /\ count + d[1] <= f
             /\ \A k \in 1 .. (Len(events) + 1) : d[k] <= f
             /\ count + d[1] = f \/ \E k \in 1 .. (Len(events) + 1) : d[k] = f
    BY <1>1 DEF Balanced
  <2>2. Len(events) = 0 /\ f \in Nat
    BY ConsFinite
  <2>3. d[1] = 0
    BY <2>1, <2>2 DEF Adds
  <2>4. count <= f /\ (count = f \/ f = 0)
    <3>1. \A k \in 1 .. (Len(events) + 1) : k = 1
      BY <2>2
    <3> HIDE DEF f
    <3> QED
      BY <1>1, <2>1, <2>2, <2>3, <3>1
  <2> HIDE DEF f
  <2>5. count = f
    BY <1>1, <2>2, <2>4
  <2> QED
    BY <2>5 DEF f
<1>3. LinesAreWhole
  <2>1. ASSUME NEW i \in DOMAIN events, events[i].kind = "line"
        PROVE  WholeLine(events[i].pieces, events[i].who)
    BY <1>1, <2>1 DEF AllWhole, Whole
  <2> QED
    BY <2>1 DEF LinesAreWhole, WholeLine
<1>4. ClientsAreHeard
  BY <1>1 DEF ClientsAreHeard, Orderly
<1> QED
  BY <1>2, <1>3, <1>4 DEF PipeIsCounted

(* Once the engine has applied every event it counts the clients the server  *)
(* has, on every path a panel may come and go and across a restart of the    *)
(* server; a line that reaches it is whole; and a client is heard.           *)
THEOREM PipeCounted == LinkSpec => []PipeIsCounted
<1>1. LinkInv /\ UNCHANGED linkVars => LinkInv'
  <2> SUFFICES ASSUME LinkInv, UNCHANGED linkVars PROVE LinkInv'
    OBVIOUS
  <2>1. UNCHANGED <<slot, server, pending, events, count, came, restarts>>
    BY DEF linkVars
  <2>2. /\ Kept(slot', count', events') /\ {count, came, restarts} \subseteq Nat
        /\ server \in {"running", "gaveUp", "stopped"} /\ (server' = "stopped" => Connected(slot') = {})
        /\ pending \in Seq([to : Slots \cup {0}, for : Nat])
    BY <2>1 DEF LinkInv, LinkTypeOK
  <2> QED
    BY <2>1, <2>2, Retyping
<1> QED
  BY <1>1, LinkInitially, LinkNextKeeps, LinkImplies, PTL DEF LinkSpec

-----------------------------------------------------------------------------
(* The sessions of the engine, for any set of jobs and any number of starts  *)
(* and crashes.  NothingForgotten is inductive together with the types.      *)
(* MuxedOnce is not: OneChance says that, as long as no session crashed, a   *)
(* job has at most one thing that can lead to an output (a probe, a Ready    *)
(* event, a request or the mux that runs) and none once it has an output,    *)
(* and that a job which waits in the table has not come further than the     *)
(* event; stop() hands that over to the next session because it saves the    *)
(* table last.                                                               *)
SessionStates == Waiting \cup InMux \cup {"none", "Held", "Done", "Failed", "Cancelled"}
SessionEvents == [job : Ids, what : {"Ready", "Verifying", "Done", "Failed", "Cancelled"}]

SessionTypeOK ==
    /\ phase \in {"down", "up", "joinReadiness", "joinMux", "stopped"}
    /\ table \in [Ids -> SessionStates] /\ saved \in [Ids -> SessionStates] /\ dirty \in BOOLEAN
    /\ probe \subseteq Ids /\ queue \in Seq(Ids) /\ inbox \in Seq(SessionEvents)
    /\ mux \in [job : Ids \cup {0}, stage : {"idle", "muxing", "verifying", "finished"},
                    cancel : BOOLEAN]
    /\ mux.job = 0 <=> mux.stage = "idle"
    /\ exported \subseteq Ids /\ outputs \in [Ids -> Nat]
    /\ starts \in Nat /\ crashed \in BOOLEAN

Has(s, j, whats) == \E i \in DOMAIN s : s[i].job = j /\ s[i].what \in whats
In(s, j) == \E i \in DOMAIN s : s[i] = j
NoDup(s) == \A i, k \in DOMAIN s : s[i] = s[k] => i = k
OneReady(s) == \A i, k \in DOMAIN s :
    s[i].what = "Ready" /\ s[k].what = "Ready" /\ s[i].job = s[k].job => i = k

Early(j) == j \in probe \/ Coming(j, {"Ready"})

OneChanceOf(j) ==
    /\ outputs[j] \in {0, 1}
    /\ j \in probe => ~Coming(j, {"Ready"})
    /\ Early(j) => ~Queued(j) /\ mux.job # j /\ outputs[j] = 0
    /\ Queued(j) => mux.job # j /\ outputs[j] = 0
    /\ mux.job = j /\ mux.stage # "finished" => outputs[j] = 0
    /\ table[j] \in Waiting \cup {"none"} => ~Queued(j) /\ mux.job # j /\ outputs[j] = 0
    /\ table[j] = "none" => ~Early(j)

OneChance ==
    ~crashed => /\ NoDup(queue) /\ OneReady(inbox)
                /\ phase = "down" => saved = table
                /\ \A j \in Ids : OneChanceOf(j)

-----------------------------------------------------------------------------
(* Sequences *)

LEMMA AppendFacts ==
  ASSUME NEW S, NEW s \in Seq(S), NEW e \in S
  PROVE  LET t == Append(s, e)
         IN  /\ t \in Seq(S) /\ DOMAIN s = 1..Len(s) /\ DOMAIN t = 1..(Len(s) + 1)
             /\ Len(s) \in Nat
             /\ \A i \in 1..Len(s) : t[i] = s[i]
             /\ t[Len(s) + 1] = e
BY AppendProperties, LenProperties

LEMMA TailFacts ==
  ASSUME NEW S, NEW s \in Seq(S), s # <<>>
  PROVE  LET t == Tail(s)
         IN  /\ t \in Seq(S) /\ Head(s) \in S /\ Head(s) = s[1]
             /\ Len(s) \in Nat \ {0}
             /\ DOMAIN s = 1..Len(s) /\ DOMAIN t = 1..(Len(s) - 1)
             /\ \A i \in 1..(Len(s) - 1) : t[i] = s[i + 1]
<1>1. Len(s) \in Nat \ {0} /\ DOMAIN s = 1..Len(s)
  BY LenProperties, EmptySeq
<1>2. Head(s) = s[1] /\ Head(s) \in S
  BY <1>1, ElementOfSeq
<1> QED
  BY <1>1, <1>2, HeadTailProperties, LenProperties

LEMMA AppendIn ==
  ASSUME NEW s \in Seq(Ids), NEW e \in Ids
  PROVE  /\ Append(s, e) \in Seq(Ids)
         /\ \A j : In(Append(s, e), j) <=> In(s, j) \/ j = e
         /\ NoDup(s) /\ ~In(s, e) => NoDup(Append(s, e))
<1> DEFINE t == Append(s, e)
<1>1. /\ t \in Seq(Ids) /\ DOMAIN s = 1..Len(s) /\ DOMAIN t = 1..(Len(s) + 1) /\ Len(s) \in Nat
      /\ \A i \in 1..Len(s) : t[i] = s[i]
      /\ t[Len(s) + 1] = e
  BY AppendFacts
<1> HIDE DEF t
<1>2. \A j : In(t, j) <=> In(s, j) \/ j = e
  BY <1>1 DEF In
<1>3. NoDup(s) /\ ~In(s, e) => NoDup(t)
  BY <1>1 DEF In, NoDup
<1> QED
  BY <1>1, <1>2, <1>3 DEF t

LEMMA TailIn ==
  ASSUME NEW s \in Seq(Ids), s # <<>>
  PROVE  /\ Tail(s) \in Seq(Ids) /\ Head(s) \in Ids
         /\ \A j : In(s, j) <=> In(Tail(s), j) \/ j = Head(s)
         /\ NoDup(s) => NoDup(Tail(s)) /\ ~In(Tail(s), Head(s))
<1> DEFINE t == Tail(s)
<1>1. /\ t \in Seq(Ids) /\ Head(s) \in Ids /\ Head(s) = s[1] /\ Len(s) \in Nat \ {0}
      /\ DOMAIN s = 1..Len(s) /\ DOMAIN t = 1..(Len(s) - 1)
      /\ \A i \in 1..(Len(s) - 1) : t[i] = s[i + 1]
  BY TailFacts
<1> HIDE DEF t
<1>2. ASSUME NEW j, In(s, j), j # Head(s) PROVE In(t, j)
  <2>1. PICK i \in 1..Len(s) : s[i] = j
    BY <1>1, <1>2 DEF In
  <2>2. i - 1 \in 1..(Len(s) - 1) /\ t[i - 1] = j
    BY <1>1, <1>2, <2>1
  <2> QED
    BY <1>1, <2>2 DEF In
<1>3. \A j : In(t, j) \/ j = Head(s) => In(s, j)
  BY <1>1, SMTT(30) DEF In
<1>4. ASSUME NoDup(s) PROVE NoDup(t) /\ ~In(t, Head(s))
  <2>1. \A i \in 1..(Len(s) - 1) : i + 1 \in DOMAIN s /\ t[i] = s[i + 1]
    BY <1>1
  <2>2. ASSUME NEW i \in 1..(Len(s) - 1), NEW k \in 1..(Len(s) - 1), t[i] = t[k] PROVE i = k
    <3>1. i + 1 = k + 1
      BY <1>4, <2>1, <2>2 DEF NoDup
    <3> QED
      BY <3>1
  <2>3. ASSUME NEW i \in 1..(Len(s) - 1), t[i] = Head(s) PROVE FALSE
    <3>1. i + 1 = 1
      BY <1>1, <1>4, <2>1, <2>3 DEF NoDup
    <3> QED
      BY <3>1
  <2> QED
    BY <1>1, <2>2, <2>3 DEF In, NoDup
<1> QED
  BY <1>1, <1>2, <1>3, <1>4 DEF t

LEMMA AppendHas ==
  ASSUME NEW s \in Seq(SessionEvents), NEW e \in SessionEvents
  PROVE  /\ Append(s, e) \in Seq(SessionEvents)
         /\ \A j, whats : Has(Append(s, e), j, whats) <=>
                              Has(s, j, whats) \/ (e.job = j /\ e.what \in whats)
         /\ OneReady(s) /\ (e.what = "Ready" => ~Has(s, e.job, {"Ready"}))
              => OneReady(Append(s, e))
<1> DEFINE t == Append(s, e)
<1>1. /\ t \in Seq(SessionEvents) /\ DOMAIN s = 1..Len(s) /\ DOMAIN t = 1..(Len(s) + 1)
      /\ Len(s) \in Nat
      /\ \A i \in 1..Len(s) : t[i] = s[i]
      /\ t[Len(s) + 1] = e
  BY AppendFacts
<1> HIDE DEF t
<1>2. \A j, whats : Has(t, j, whats) <=> Has(s, j, whats) \/ (e.job = j /\ e.what \in whats)
  BY <1>1 DEF Has
<1>3. OneReady(s) /\ (e.what = "Ready" => ~Has(s, e.job, {"Ready"})) => OneReady(t)
  BY <1>1 DEF Has, OneReady
<1> QED
  BY <1>1, <1>2, <1>3 DEF t

LEMMA TailHas ==
  ASSUME NEW s \in Seq(SessionEvents), s # <<>>
  PROVE  /\ Tail(s) \in Seq(SessionEvents) /\ Head(s) \in SessionEvents
         /\ \A j, whats : Has(s, j, whats) <=>
                Has(Tail(s), j, whats) \/ (Head(s).job = j /\ Head(s).what \in whats)
         /\ OneReady(s) => /\ OneReady(Tail(s))
                           /\ Head(s).what = "Ready" => ~Has(Tail(s), Head(s).job, {"Ready"})
<1> DEFINE t == Tail(s)
<1>1. /\ t \in Seq(SessionEvents) /\ Head(s) \in SessionEvents /\ Head(s) = s[1] /\ Len(s) \in Nat \ {0}
      /\ DOMAIN s = 1..Len(s) /\ DOMAIN t = 1..(Len(s) - 1)
      /\ \A i \in 1..(Len(s) - 1) : t[i] = s[i + 1]
  BY TailFacts
<1> HIDE DEF t
<1>2. ASSUME NEW j, NEW whats, Has(s, j, whats), ~(Head(s).job = j /\ Head(s).what \in whats)
      PROVE  Has(t, j, whats)
  <2>1. PICK i \in 1..Len(s) : s[i].job = j /\ s[i].what \in whats
    BY <1>1, <1>2 DEF Has
  <2>2. i - 1 \in 1..(Len(s) - 1) /\ t[i - 1] = s[i]
    BY <1>1, <1>2, <2>1
  <2> QED
    BY <1>1, <2>1, <2>2 DEF Has
<1>3. \A j, whats : Has(t, j, whats) \/ (Head(s).job = j /\ Head(s).what \in whats)
                        => Has(s, j, whats)
  BY <1>1 DEF Has
<1>4. ASSUME OneReady(s)
      PROVE  OneReady(t) /\ (Head(s).what = "Ready" => ~Has(t, Head(s).job, {"Ready"}))
  <2>1. \A i \in 1..(Len(s) - 1) : i + 1 \in DOMAIN s /\ t[i] = s[i + 1]
    BY <1>1
  <2>2. ASSUME NEW i \in 1..(Len(s) - 1), NEW k \in 1..(Len(s) - 1),
               t[i].what = "Ready", t[k].what = "Ready", t[i].job = t[k].job
        PROVE  i = k
    <3>1. i + 1 = k + 1
      BY <1>4, <2>1, <2>2 DEF OneReady
    <3> QED
      BY <3>1
  <2>3. ASSUME NEW i \in 1..(Len(s) - 1), Head(s).what = "Ready",
               t[i].what = "Ready", t[i].job = Head(s).job
        PROVE  FALSE
    <3>1. i + 1 = 1
      BY <1>1, <1>4, <2>1, <2>3 DEF OneReady
    <3> QED
      BY <3>1
  <2> QED
    BY <1>1, <2>2, <2>3 DEF Has, OneReady
<1> QED
  BY <1>1, <1>2, <1>3, <1>4 DEF t

\* What stop() adds for the requests nobody began.
LEMMA LeftoverHas ==
  ASSUME NEW s \in Seq(SessionEvents), NEW q \in Seq(Ids)
  PROVE  LET t == s \o [i \in DOMAIN q |-> [job |-> q[i], what |-> "Cancelled"]]
         IN  /\ t \in Seq(SessionEvents)
             /\ \A j : Has(t, j, {"Ready"}) <=> Has(s, j, {"Ready"})
             /\ OneReady(s) => OneReady(t)
<1> DEFINE r == [i \in DOMAIN q |-> [job |-> q[i], what |-> "Cancelled"]]
           t == s \o r
<1>1. Len(q) \in Nat /\ DOMAIN q = 1..Len(q) /\ \A i \in 1..Len(q) : q[i] \in Ids
  BY LenProperties, ElementOfSeq
<1>2. r \in Seq(SessionEvents) /\ Len(r) = Len(q) /\ \A i \in 1..Len(r) : r[i].what = "Cancelled"
  <2>1. \A i \in 1..Len(q) : [job |-> q[i], what |-> "Cancelled"] \in SessionEvents
    BY <1>1 DEF SessionEvents
  <2>2. r \in [1..Len(q) -> SessionEvents]
    BY <1>1, <2>1
  <2>3. r \in Seq(SessionEvents)
    BY <1>1, <2>2, SeqDef
  <2>4. Len(r) = Len(q)
    BY <1>1, <2>2, <2>3, LenProperties
  <2> QED
    BY <1>1, <2>3, <2>4
<1> HIDE DEF r
<1>3. /\ t \in Seq(SessionEvents) /\ Len(t) = Len(s) + Len(r)
      /\ \A i \in 1..(Len(s) + Len(r)) : t[i] = IF i <= Len(s) THEN s[i] ELSE r[i - Len(s)]
  BY <1>2, ConcatProperties, ZenonT(60)
<1>4. Len(s) \in Nat /\ Len(r) \in Nat /\ DOMAIN s = 1..Len(s) /\ DOMAIN t = 1..(Len(s) + Len(r))
  BY <1>2, <1>3, LenProperties
<1> HIDE DEF t
<1>5. \A i \in DOMAIN t : t[i].what = "Ready" => i \in DOMAIN s /\ t[i] = s[i]
  <2> SUFFICES ASSUME NEW i \in 1..(Len(s) + Len(r)), ~(i <= Len(s)) PROVE t[i].what # "Ready"
    BY <1>3, <1>4
  <2>1. i - Len(s) \in 1..Len(r) /\ t[i] = r[i - Len(s)]
    BY <1>3, <1>4
  <2> QED
    BY <1>2, <2>1
<1>6. \A i \in DOMAIN s : i \in DOMAIN t /\ t[i] = s[i]
  BY <1>3, <1>4
<1>7. \A j : Has(t, j, {"Ready"}) <=> Has(s, j, {"Ready"})
  BY <1>5, <1>6 DEF Has
<1>8. OneReady(s) => OneReady(t)
  BY <1>5 DEF OneReady
<1> QED
  BY <1>3, <1>7, <1>8 DEF t, r

-----------------------------------------------------------------------------
(* Type correctness *)

LEMMA LoadedType == \A state \in SessionStates : LoadedState(state) \in SessionStates
BY DEF LoadedState, SessionStates, InMux, Waiting

LEMMA SessionInitType == SessionInit => SessionTypeOK
<1> SUFFICES ASSUME SessionInit PROVE SessionTypeOK
  OBVIOUS
<1>1. queue \in Seq(Ids) /\ inbox \in Seq(SessionEvents)
  BY EmptySeq DEF SessionInit
<1> QED
  BY <1>1, RestartAssumption DEF SessionInit, SessionTypeOK, Nobody, SessionStates

LEMMA SessionTypeStep == SessionTypeOK /\ [SessionNext]_sessionVars => SessionTypeOK'
<1> SUFFICES ASSUME SessionTypeOK, [SessionNext]_sessionVars PROVE SessionTypeOK'
  OBVIOUS
<1> USE DEF SessionTypeOK, volatile, disk, history
<1>1. CASE Start
  <2>1. table' \in [Ids -> SessionStates]
    BY <1>1, LoadedType DEF Start
  <2>2. probe' \subseteq Ids
    BY <1>1 DEF Start, Rearmed
  <2>3. queue' \in Seq(Ids) /\ inbox' \in Seq(SessionEvents)
    BY <1>1, EmptySeq DEF Start
  <2>4. /\ mux' \in [job : Ids \cup {0}, stage : {"idle", "muxing", "verifying", "finished"},
                         cancel : BOOLEAN]
        /\ mux'.job = 0 <=> mux'.stage = "idle"
    BY <1>1 DEF Start, Nobody
  <2> QED
    BY <1>1, <2>1, <2>2, <2>3, <2>4, RestartAssumption DEF Start
<1>2. ASSUME NEW j \in Ids, Discover(j) PROVE SessionTypeOK'
  <2>1. table' \in [Ids -> SessionStates]
    BY <1>2 DEF Discover, SessionStates, Waiting
  <2> QED
    BY <1>2, <2>1 DEF Discover
<1>3. CASE Apply
  <2> DEFINE ev == Head(inbox)
  <2>1. ev \in SessionEvents /\ Tail(inbox) \in Seq(SessionEvents)
    BY <1>3, TailHas DEF Apply
  <2>2. /\ ev.job \in Ids
        /\ ev.what \in {"Ready", "Verifying", "Done", "Failed", "Cancelled"}
    BY <2>1 DEF SessionEvents
  <2>3. CASE ev.what = "Ready" /\ OnReady(ev.job)
    <3>1. table' \in [Ids -> SessionStates]
      BY <2>2, <2>3 DEF OnReady, SessionStates, InMux, Waiting
    <3>2. queue' = queue \/ queue' = Append(queue, ev.job)
      BY <2>3 DEF OnReady
    <3>3. queue' \in Seq(Ids)
      <4>1. \A e \in Ids : Append(queue, e) \in Seq(Ids)
        BY AppendIn
      <4> QED
        BY <2>2, <3>2, <4>1
    <3> QED
      BY <1>3, <2>1, <2>2, <3>1, <3>3 DEF Apply
  <2>4. CASE ev.what # "Ready" /\ OnMux(ev.job, ev.what)
    <3>1. table' \in [Ids -> SessionStates] /\ queue' = queue
      BY <2>2, <2>4 DEF OnMux, SessionStates, InMux, Waiting
    <3> QED
      BY <1>3, <2>1, <2>2, <3>1 DEF Apply
  <2> QED
    BY <1>3, <2>3, <2>4 DEF Apply
<1>4. CASE TickSave
  BY <1>4 DEF TickSave
<1>5. CASE StopCancels
  <2>1. table' \in [Ids -> SessionStates]
    BY <1>5 DEF StopCancels, SessionStates, Idle
  <2>2. /\ mux' \in [job : Ids \cup {0}, stage : {"idle", "muxing", "verifying", "finished"},
                         cancel : BOOLEAN]
        /\ mux'.job = 0 <=> mux'.stage = "idle"
    BY <1>5 DEF StopCancels, Idle
  <2> QED
    BY <1>5, <2>1, <2>2 DEF StopCancels
<1>6. CASE StopReadiness
  BY <1>6 DEF StopReadiness, Idle
<1>7. CASE StopMux
  <2>1. inbox' \in Seq(SessionEvents)
    BY <1>7, LeftoverHas DEF StopMux
  <2>2. queue' \in Seq(Ids)
    BY <1>7, EmptySeq DEF StopMux
  <2> QED
    BY <1>7, <2>1, <2>2 DEF StopMux
<1>8. CASE StopSaves
  <2>1. queue' \in Seq(Ids)
    BY <1>8, EmptySeq DEF StopSaves
  <2> QED
    BY <1>8, <2>1 DEF StopSaves
<1>9. CASE Crash
  BY <1>9 DEF Crash
<1>10. ASSUME NEW j \in Ids, ProbeVerdict(j) PROVE SessionTypeOK'
  <2>1. inbox' \in Seq(SessionEvents)
    BY <1>10, AppendHas DEF ProbeVerdict, Posts, SessionEvents
  <2> QED
    BY <1>10, <2>1 DEF ProbeVerdict
<1>11. CASE MuxTake
  <2>1. Head(queue) \in Ids /\ Tail(queue) \in Seq(Ids)
    BY <1>11, TailIn DEF MuxTake
  <2>2. /\ mux' \in [job : Ids \cup {0}, stage : {"idle", "muxing", "verifying", "finished"},
                         cancel : BOOLEAN]
        /\ mux'.job = 0 <=> mux'.stage = "idle"
    BY <1>11, <2>1, RestartAssumption DEF MuxTake
  <2> QED
    BY <1>11, <2>1, <2>2 DEF MuxTake
<1>12. CASE MuxVerify
  <2>1. inbox' \in Seq(SessionEvents)
    BY <1>12, AppendHas DEF MuxVerify, Posts, SessionEvents
  <2> QED
    BY <1>12, <2>1 DEF MuxVerify
<1>13. CASE MuxRename
  <2>1. mux.job \in Ids
    BY <1>13 DEF MuxRename
  <2>2. outputs' \in [Ids -> Nat]
    BY <1>13, <2>1 DEF MuxRename
  <2>3. /\ mux' \in [job : Ids \cup {0}, stage : {"idle", "muxing", "verifying", "finished"},
                         cancel : BOOLEAN]
        /\ mux'.job = 0 <=> mux'.stage = "idle"
    BY <1>13, <2>1, RestartAssumption DEF MuxRename
  <2> QED
    BY <1>13, <2>2, <2>3 DEF MuxRename
<1>14. CASE MuxReports
  <2>1. PICK what \in {"Done", "Failed", "Cancelled"} :
            inbox' = Append(inbox, [job |-> mux.job, what |-> what])
    BY <1>14 DEF MuxReports, Posts
  <2>2. [job |-> mux.job, what |-> what] \in SessionEvents
    BY <1>14 DEF MuxReports, Idle, SessionEvents
  <2>3. inbox' \in Seq(SessionEvents)
    BY <2>1, <2>2, AppendHas
  <2> QED
    BY <1>14, <2>3 DEF MuxReports, Nobody
<1>15. CASE UNCHANGED sessionVars
  BY <1>15 DEF sessionVars
<1> QED
  BY <1>1, <1>2, <1>3, <1>4, <1>5, <1>6, <1>7, <1>8, <1>9, <1>10, <1>11, <1>12, <1>13, <1>14,
     <1>15 DEF SessionNext, UIStep, Worker

\* Every variable keeps its type, over any number of starts and crashes.
THEOREM SessionsTyped == SessionSpec => []SessionTypeOK
<1> QED
  BY SessionInitType, SessionTypeStep, PTL DEF SessionSpec

-----------------------------------------------------------------------------
(* Nothing is forgotten *)

LEMMA ForgetStep ==
  SessionTypeOK /\ NothingForgotten /\ [SessionNext]_sessionVars => NothingForgotten'
<1> SUFFICES ASSUME SessionTypeOK, NothingForgotten, [SessionNext]_sessionVars, phase' = "up", NEW j \in Ids
             PROVE  /\ table[j]' \in Waiting => j \in probe' \/ Coming(j, {"Ready"})'
                    /\ table[j]' \in InMux =>
                          Queued(j)' \/ mux'.job = j
                          \/ Coming(j, {"Done", "Failed", "Cancelled"})'
  BY DEF NothingForgotten
<1> DEFINE ends == {"Done", "Failed", "Cancelled"}
<1>a. \A whats : Coming(j, whats) <=> Has(inbox, j, whats)
  BY DEF Coming, Has
<1>b. \A whats : Coming(j, whats)' <=> Has(inbox', j, whats)
  BY DEF Coming, Has
<1>c. (Queued(j) <=> In(queue, j)) /\ (Queued(j)' <=> In(queue', j))
  BY DEF Queued, In
<1>d. phase = "up" => /\ table[j] \in Waiting => j \in probe \/ Has(inbox, j, {"Ready"})
                      /\ table[j] \in InMux =>
                            In(queue, j) \/ mux.job = j \/ Has(inbox, j, ends)
  BY <1>a, <1>c DEF NothingForgotten
<1>e. /\ inbox \in Seq(SessionEvents) /\ queue \in Seq(Ids) /\ table \in [Ids -> SessionStates]
      /\ probe \subseteq Ids /\ j # 0
  BY RestartAssumption DEF SessionTypeOK
<1> SUFFICES /\ table'[j] \in Waiting => j \in probe' \/ Has(inbox', j, {"Ready"})
             /\ table'[j] \in InMux => In(queue', j) \/ mux'.job = j \/ Has(inbox', j, ends)
  BY <1>b, <1>c
<1> HIDE DEF ends
<1>1. CASE Start
  <2>1. table'[j] \notin InMux /\ (table'[j] \in Waiting => j \in probe')
    BY <1>1 DEF Start, LoadedState, Rearmed, InMux
  <2> QED
    BY <2>1
<1>2. ASSUME NEW k \in Ids, Discover(k)
      PROVE  /\ table'[j] \in Waiting => j \in probe' \/ Has(inbox', j, {"Ready"})
             /\ table'[j] \in InMux => In(queue', j) \/ mux'.job = j \/ Has(inbox', j, ends)
  BY <1>2, <1>d, <1>e DEF Discover, InMux
<1>3. CASE Apply
  <2> DEFINE ev == Head(inbox)
  <2>1. phase = "up" /\ inbox' = Tail(inbox) /\ mux' = mux /\ probe' = probe
    BY <1>3 DEF Apply
  <2>2. /\ ev \in SessionEvents
        /\ \A whats : Has(inbox, j, whats) <=>
                          Has(inbox', j, whats) \/ (ev.job = j /\ ev.what \in whats)
    BY <1>3, <1>e, <2>1, TailHas DEF Apply
  <2>3. CASE ev.what = "Ready" /\ OnReady(ev.job)
    <3>1. Has(inbox, j, ends) => Has(inbox', j, ends)
      BY <2>2, <2>3 DEF ends
    <3>2. CASE table[ev.job] \in InMux \cup {"Done"}
      <4>1. table' = table /\ queue' = queue
        BY <2>3, <3>2 DEF OnReady
      <4>2. table[j] \in Waiting => ev.job # j
        BY <3>2 DEF InMux, Waiting
      <4> QED
        BY <1>d, <2>1, <2>2, <3>1, <4>1, <4>2
    <3>3. CASE table[ev.job] \notin InMux \cup {"Done"} /\ ev.job \in exported
      <4>1. queue' = Append(queue, ev.job) /\ table' = [table EXCEPT ![ev.job] = "Muxing"]
        BY <2>3, <3>3 DEF OnReady
      <4>2. ev.job \in Ids
        BY <2>2 DEF SessionEvents
      <4>3. In(queue', j) <=> In(queue, j) \/ j = ev.job
        BY <1>e, <4>1, <4>2, AppendIn
      <4>4. CASE ev.job = j
        BY <1>e, <4>1, <4>3, <4>4 DEF Waiting
      <4>5. CASE ev.job # j
        BY <1>d, <1>e, <2>1, <2>2, <3>1, <4>1, <4>3, <4>5
      <4> QED
        BY <4>4, <4>5
    <3>4. CASE table[ev.job] \notin InMux \cup {"Done"} /\ ev.job \notin exported
      <4>1. queue' = queue /\ table' = [table EXCEPT ![ev.job] = "Held"]
        BY <2>3, <3>4 DEF OnReady
      <4>2. CASE ev.job = j
        BY <1>e, <4>1, <4>2 DEF Waiting, InMux
      <4>3. CASE ev.job # j
        BY <1>d, <1>e, <2>1, <2>2, <3>1, <4>1, <4>3
      <4> QED
        BY <4>2, <4>3
    <3> QED
      BY <3>2, <3>3, <3>4
  <2>4. CASE ev.what # "Ready" /\ OnMux(ev.job, ev.what)
    <3>1. queue' = queue /\ (Has(inbox, j, {"Ready"}) => Has(inbox', j, {"Ready"}))
      BY <2>2, <2>4 DEF OnMux
    <3>2. CASE table[ev.job] \in InMux /\ ev.job = j
      <4>1. table'[j] = ev.what
        BY <1>e, <2>4, <3>2 DEF OnMux
      <4>2. ev.what \in {"Verifying"} \cup ends
        BY <2>2, <2>4 DEF SessionEvents, ends
      <4>3. CASE ev.what = "Verifying"
        <5>1. Has(inbox, j, ends) => Has(inbox', j, ends)
          BY <2>2, <4>3 DEF ends
        <5> QED
          BY <1>d, <2>1, <3>1, <3>2, <4>1, <4>3, <5>1 DEF Waiting
      <4>4. CASE ev.what \in ends
        BY <4>1, <4>4 DEF Waiting, InMux, ends
      <4> QED
        BY <4>2, <4>3, <4>4
    <3>3. CASE table[ev.job] \notin InMux \/ ev.job # j
      <4>1. table'[j] = table[j]
        BY <1>e, <2>4, <3>3 DEF OnMux
      <4>2. table[j] \in InMux => (Has(inbox, j, ends) => Has(inbox', j, ends))
        BY <2>2, <3>3
      <4> QED
        BY <1>d, <2>1, <3>1, <4>1, <4>2
    <3> QED
      BY <3>2, <3>3
  <2> QED
    BY <1>3, <2>3, <2>4 DEF Apply
<1>4. CASE TickSave
  BY <1>4, <1>d DEF TickSave
<1>5. CASE StopCancels
  BY <1>5 DEF StopCancels
<1>6. CASE StopReadiness
  BY <1>6 DEF StopReadiness
<1>7. CASE StopMux
  BY <1>7 DEF StopMux
<1>8. CASE StopSaves
  BY <1>8 DEF StopSaves
<1>9. CASE Crash
  BY <1>9 DEF Crash
<1>10. ASSUME NEW k \in Ids, ProbeVerdict(k)
       PROVE  /\ table'[j] \in Waiting => j \in probe' \/ Has(inbox', j, {"Ready"})
              /\ table'[j] \in InMux => In(queue', j) \/ mux'.job = j \/ Has(inbox', j, ends)
  <2> DEFINE e == [job |-> k, what |-> "Ready"]
  <2>1. e \in SessionEvents /\ inbox' = Append(inbox, e) /\ e.job = k /\ e.what = "Ready"
    BY <1>10 DEF ProbeVerdict, Posts, SessionEvents
  <2> HIDE DEF e
  <2>2. \A whats : Has(inbox', j, whats) <=>
                       Has(inbox, j, whats) \/ (k = j /\ "Ready" \in whats)
    BY <1>e, <2>1, AppendHas
  <2> QED
    BY <1>10, <1>d, <2>2 DEF ProbeVerdict
<1>11. CASE MuxTake
  <2>1. In(queue, j) => In(queue', j) \/ mux'.job = j
    BY <1>11, <1>e, TailIn DEF MuxTake
  <2> QED
    BY <1>11, <1>d, <1>e, <2>1 DEF MuxTake, Idle, disk, history
<1>12. CASE MuxVerify
  <2> DEFINE e == [job |-> mux.job, what |-> "Verifying"]
  <2>1. e \in SessionEvents /\ inbox' = Append(inbox, e)
    BY <1>12 DEF MuxVerify, Posts, SessionEvents, SessionTypeOK
  <2> HIDE DEF e
  <2>2. \A whats : Has(inbox, j, whats) => Has(inbox', j, whats)
    BY <1>e, <2>1, AppendHas
  <2>3. mux'.job = mux.job
    BY <1>12 DEF MuxVerify, SessionTypeOK
  <2> QED
    BY <1>12, <1>d, <2>2, <2>3 DEF MuxVerify
<1>13. CASE MuxRename
  <2>1. mux'.job = mux.job
    BY <1>13 DEF MuxRename, SessionTypeOK
  <2> QED
    BY <1>13, <1>d, <2>1 DEF MuxRename
<1>14. CASE MuxReports
  <2>1. PICK what \in ends : inbox' = Append(inbox, [job |-> mux.job, what |-> what])
    BY <1>14 DEF MuxReports, Posts, ends
  <2> DEFINE e == [job |-> mux.job, what |-> what]
  <2>2. e \in SessionEvents /\ e.job = mux.job /\ e.what = what
    BY <1>14 DEF MuxReports, Idle, SessionEvents, SessionTypeOK, ends
  <2> HIDE DEF e
  <2>3. \A whats : Has(inbox', j, whats) <=>
                       Has(inbox, j, whats) \/ (mux.job = j /\ what \in whats)
    BY <1>e, <2>1, <2>2, AppendHas DEF e
  <2> QED
    BY <1>14, <1>d, <2>1, <2>3 DEF MuxReports
<1>15. CASE UNCHANGED sessionVars
  BY <1>15, <1>d DEF sessionVars, volatile
<1> QED
  BY <1>1, <1>2, <1>3, <1>4, <1>5, <1>6, <1>7, <1>8, <1>9, <1>10, <1>11, <1>12, <1>13, <1>14,
     <1>15 DEF SessionNext, UIStep, Worker

\* In a running program a waiting job is being probed and a job in the mux is
\* queued, running or reported, whatever the session before left in jobs.json.
THEOREM NothingIsForgotten == SessionSpec => []NothingForgotten
<1>1. SessionInit => NothingForgotten
  BY DEF SessionInit, NothingForgotten
<1> QED
  BY <1>1, SessionsTyped, ForgetStep, PTL DEF SessionSpec

-----------------------------------------------------------------------------
(* An output is put in place once *)

\* What OneChanceOf says of a job, with the sequences written as arguments.
Chance(t, p, box, q, r, out, j) ==
    /\ out[j] \in {0, 1}
    /\ j \in p => ~Has(box, j, {"Ready"})
    /\ j \in p \/ Has(box, j, {"Ready"}) => ~In(q, j) /\ r.job # j /\ out[j] = 0
    /\ In(q, j) => r.job # j /\ out[j] = 0
    /\ r.job = j /\ r.stage # "finished" => out[j] = 0
    /\ t[j] \in Waiting \cup {"none"} => ~In(q, j) /\ r.job # j /\ out[j] = 0
    /\ t[j] = "none" => j \notin p /\ ~Has(box, j, {"Ready"})

LEMMA ChanceNow == \A j : OneChanceOf(j) <=> Chance(table, probe, inbox, queue, mux, outputs, j)
BY DEF OneChanceOf, Chance, Early, Coming, Queued, Has, In

LEMMA ChanceNext ==
  \A j : OneChanceOf(j)' <=> Chance(table', probe', inbox', queue', mux', outputs', j)
BY DEF OneChanceOf, Chance, Early, Coming, Queued, Has, In

LEMMA ChanceStep == SessionTypeOK /\ OneChance /\ [SessionNext]_sessionVars => OneChance'
<1> SUFFICES ASSUME SessionTypeOK, OneChance, [SessionNext]_sessionVars, ~crashed'
             PROVE  /\ NoDup(queue') /\ OneReady(inbox')
                    /\ phase' = "down" => saved' = table'
                    /\ \A j \in Ids :
                          Chance(table', probe', inbox', queue', mux', outputs', j)
  BY ChanceNext DEF OneChance
<1>a. ~crashed
  BY DEF SessionNext, Start, Discover, UIStep, Apply, TickSave, StopCancels, StopReadiness, StopMux,
         StopSaves, Crash, Worker, ProbeVerdict, MuxTake, MuxVerify, MuxRename, MuxReports, sessionVars,
         history, disk
<1>b. /\ NoDup(queue) /\ OneReady(inbox)
      /\ phase = "down" => saved = table
      /\ \A j \in Ids : Chance(table, probe, inbox, queue, mux, outputs, j)
  BY <1>a, ChanceNow DEF OneChance
<1>e. /\ inbox \in Seq(SessionEvents) /\ queue \in Seq(Ids) /\ 0 \notin Ids
      /\ table \in [Ids -> SessionStates] /\ outputs \in [Ids -> Nat]
  BY RestartAssumption DEF SessionTypeOK
<1> DEFINE Goal == /\ NoDup(queue') /\ OneReady(inbox')
                   /\ phase' = "down" => saved' = table'
                   /\ \A j \in Ids :
                          Chance(table', probe', inbox', queue', mux', outputs', j)
<1>1. CASE Start
  <2>1. NoDup(queue') /\ OneReady(inbox') /\ phase' = "up"
    BY <1>1 DEF Start, NoDup, OneReady
  <2>2. ASSUME NEW j \in Ids
        PROVE  Chance(table', probe', inbox', queue', mux', outputs', j)
    <3>1. ~In(queue', j) /\ ~Has(inbox', j, {"Ready"}) /\ mux'.job # j /\ outputs' = outputs
      BY <1>1, <1>e DEF Start, In, Has, Nobody, disk
    <3>2. table'[j] \in Waiting \cup {"none"} => table[j] \in Waiting \cup {"none"}
      BY <1>1, <1>b DEF Start, LoadedState, Waiting
    <3>3. j \in probe' <=> table'[j] \in Waiting
      BY <1>1 DEF Start, Rearmed
    <3> QED
      BY <1>b, <3>1, <3>2, <3>3 DEF Chance, Waiting
  <2> QED
    BY <2>1, <2>2
<1>2. ASSUME NEW k \in Ids, Discover(k) PROVE Goal
  <2>1. ASSUME NEW j \in Ids
        PROVE  Chance(table', probe', inbox', queue', mux', outputs', j)
    <3>1. /\ inbox' = inbox /\ queue' = queue /\ mux' = mux /\ outputs' = outputs
          /\ probe' = probe \cup {k} /\ table[k] = "none"
          /\ table' = [table EXCEPT ![k] = "Discovered"]
      BY <1>2 DEF Discover
    <3>2. CASE j = k
      BY <1>b, <1>e, <3>1, <3>2 DEF Chance
    <3>3. CASE j # k
      BY <1>b, <1>e, <3>1, <3>3 DEF Chance
    <3> QED
      BY <3>2, <3>3
  <2> QED
    BY <1>2, <1>b, <2>1 DEF Discover
<1>3. CASE Apply
  <2> DEFINE ev == Head(inbox)
  <2>1. /\ inbox' = Tail(inbox) /\ mux' = mux /\ probe' = probe /\ outputs' = outputs
        /\ phase' = phase /\ phase \in {"up", "stopped"} /\ inbox # <<>>
    BY <1>3 DEF Apply
  <2>2. /\ ev \in SessionEvents
        /\ \A j, whats : Has(inbox, j, whats) <=>
                             Has(inbox', j, whats) \/ (ev.job = j /\ ev.what \in whats)
        /\ OneReady(inbox') /\ (ev.what = "Ready" => ~Has(inbox', ev.job, {"Ready"}))
    BY <1>b, <1>e, <2>1, TailHas
  <2>3. ev.job \in Ids /\ ev.what \in {"Ready", "Verifying", "Done", "Failed", "Cancelled"}
    BY <2>2 DEF SessionEvents
  <2>4. ev.what # "Ready" => OnMux(ev.job, ev.what)
    BY <1>3 DEF Apply
  <2>5. ev.what = "Ready" => OnReady(ev.job)
    BY <1>3 DEF Apply
  <2> HIDE DEF ev
  <2>6. CASE table' = table /\ queue' = queue
    BY <1>b, <2>1, <2>2, <2>6 DEF Chance
  <2>7. CASE (ev.what = "Ready" /\ table' # table) \/ queue' # queue
    <3>1. /\ ev.what = "Ready"
          /\ \/ queue' = Append(queue, ev.job) /\ table' = [table EXCEPT ![ev.job] = "Muxing"]
             \/ queue' = queue /\ table' = [table EXCEPT ![ev.job] = "Held"]
      BY <2>4, <2>5, <2>7 DEF OnReady, OnMux
    <3>2. /\ ~In(queue, ev.job) /\ mux.job # ev.job /\ outputs[ev.job] = 0
          /\ ev.job \notin probe
      BY <1>b, <2>2, <2>3, <3>1 DEF Chance
    <3>3. /\ NoDup(queue')
          /\ \A j : j # ev.job => (In(queue', j) <=> In(queue, j))
      <4>1. /\ \A j : In(Append(queue, ev.job), j) <=> In(queue, j) \/ j = ev.job
            /\ NoDup(Append(queue, ev.job))
        BY <1>b, <1>e, <2>3, <3>2, AppendIn
      <4>2. CASE queue' = Append(queue, ev.job)
        BY <4>1, <4>2
      <4>3. CASE queue' = queue
        BY <1>b, <4>3
      <4> QED
        BY <3>1, <4>2, <4>3
    <3>4. ASSUME NEW j \in Ids
          PROVE  Chance(table', probe', inbox', queue', mux', outputs', j)
      <4>1. CASE j = ev.job
        <5>1. table'[j] \notin Waiting \cup {"none"}
          BY <1>e, <2>3, <3>1, <4>1 DEF Waiting
        <5> QED
          BY <2>1, <2>2, <3>1, <3>2, <4>1, <5>1 DEF Chance
      <4>2. CASE j # ev.job
        <5>1. table'[j] = table[j]
          BY <1>e, <2>3, <3>1, <4>2
        <5> QED
          BY <1>b, <2>1, <2>2, <3>3, <4>2, <5>1 DEF Chance
      <4> QED
        BY <4>1, <4>2
    <3> QED
      BY <2>1, <2>2, <3>3, <3>4
  <2>8. CASE ev.what # "Ready" /\ table' # table
    <3>1. /\ queue' = queue /\ table[ev.job] \in InMux
          /\ table' = [table EXCEPT ![ev.job] = ev.what]
      BY <2>4, <2>8 DEF OnMux
    <3>2. ASSUME NEW j \in Ids
          PROVE  Chance(table', probe', inbox', queue', mux', outputs', j)
      <4>1. table'[j] \in Waiting \cup {"none"} => table'[j] = table[j]
        BY <1>e, <2>3, <2>8, <3>1 DEF Waiting
      <4> QED
        BY <1>b, <2>1, <2>2, <2>8, <3>1, <4>1 DEF Chance
    <3> QED
      BY <1>b, <2>1, <2>2, <3>1, <3>2
  <2>9. ev.what # "Ready" => queue' = queue
    BY <2>4 DEF OnMux
  <2> QED
    BY <2>6, <2>7, <2>8, <2>9
<1>4. CASE TickSave
  BY <1>4, <1>b DEF TickSave, Chance
<1>5. CASE StopCancels
  <2>1. ASSUME NEW j \in Ids
        PROVE  Chance(table', probe', inbox', queue', mux', outputs', j)
    <3>1. /\ inbox' = inbox /\ queue' = queue /\ outputs' = outputs /\ probe' = probe
          /\ mux'.job = mux.job /\ mux'.stage = mux.stage
      BY <1>5 DEF StopCancels, disk, SessionTypeOK
    <3>2. table'[j] \in Waiting \cup {"none"} => table'[j] = table[j]
      BY <1>5, <1>e DEF StopCancels, Waiting
    <3> QED
      BY <1>b, <3>1, <3>2 DEF Chance
  <2> QED
    BY <1>5, <1>b, <2>1 DEF StopCancels
<1>6. CASE StopReadiness
  <2>1. ASSUME NEW j \in Ids
        PROVE  Chance(table', probe', inbox', queue', mux', outputs', j)
    <3>1. /\ inbox' = inbox /\ queue' = queue /\ outputs' = outputs /\ table' = table
          /\ probe' = {} /\ mux'.job = mux.job /\ mux'.stage = mux.stage
      BY <1>6 DEF StopReadiness, disk, SessionTypeOK
    <3> QED
      BY <1>b, <3>1 DEF Chance
  <2> QED
    BY <1>6, <1>b, <2>1 DEF StopReadiness
<1>7. CASE StopMux
  <2>1. /\ \A j : Has(inbox', j, {"Ready"}) <=> Has(inbox, j, {"Ready"})
        /\ OneReady(inbox')
    BY <1>7, <1>b, <1>e, LeftoverHas DEF StopMux
  <2>2. NoDup(queue') /\ \A j : ~In(queue', j)
    BY <1>7 DEF StopMux, NoDup, In
  <2>3. ASSUME NEW j \in Ids
        PROVE  Chance(table', probe', inbox', queue', mux', outputs', j)
    BY <1>7, <1>b, <2>1, <2>2 DEF StopMux, disk, Chance
  <2> QED
    BY <1>7, <2>1, <2>2, <2>3 DEF StopMux
<1>8. CASE StopSaves
  <2>1. NoDup(queue') /\ \A j : ~In(queue', j)
    BY <1>8 DEF StopSaves, NoDup, In
  <2>2. ASSUME NEW j \in Ids
        PROVE  Chance(table', probe', inbox', queue', mux', outputs', j)
    BY <1>8, <1>b, <2>1 DEF StopSaves, Chance
  <2> QED
    BY <1>8, <1>b, <2>1, <2>2 DEF StopSaves
<1>9. CASE Crash
  BY <1>9 DEF Crash
<1>10. ASSUME NEW k \in Ids, ProbeVerdict(k) PROVE Goal
  <2> DEFINE e == [job |-> k, what |-> "Ready"]
  <2>1. e \in SessionEvents /\ inbox' = Append(inbox, e) /\ e.job = k /\ e.what = "Ready"
    BY <1>10 DEF ProbeVerdict, Posts, SessionEvents
  <2> HIDE DEF e
  <2>2. k \in probe /\ ~Has(inbox, k, {"Ready"}) /\ probe' = probe \ {k}
    BY <1>10, <1>b DEF ProbeVerdict, Chance
  <2>3. /\ \A j : Has(inbox', j, {"Ready"}) <=> Has(inbox, j, {"Ready"}) \/ k = j
        /\ OneReady(inbox')
    BY <1>b, <1>e, <2>1, <2>2, AppendHas
  <2>4. /\ queue' = queue /\ outputs' = outputs /\ table' = table /\ mux' = mux
        /\ phase' = phase /\ phase # "down"
    BY <1>10 DEF ProbeVerdict, disk
  <2>5. ASSUME NEW j \in Ids
        PROVE  Chance(table', probe', inbox', queue', mux', outputs', j)
    BY <1>b, <2>2, <2>3, <2>4 DEF Chance
  <2> QED
    BY <1>b, <2>3, <2>4, <2>5
<1>11. CASE MuxTake
  <2>1. /\ queue # <<>> /\ queue' = Tail(queue) /\ inbox' = inbox /\ outputs' = outputs
        /\ table' = table /\ probe' = probe /\ phase' = phase /\ phase # "down"
        /\ mux' = [job |-> Head(queue), stage |-> "muxing", cancel |-> FALSE]
    BY <1>11 DEF MuxTake, disk
  <2>2. /\ Head(queue) \in Ids
        /\ \A j : In(queue, j) <=> In(queue', j) \/ j = Head(queue)
        /\ NoDup(queue') /\ ~In(queue', Head(queue))
    BY <1>b, <1>e, <2>1, TailIn
  <2>3. ASSUME NEW j \in Ids
        PROVE  Chance(table', probe', inbox', queue', mux', outputs', j)
    <3>1. mux'.job = Head(queue)
      BY <2>1
    <3>2. CASE j = Head(queue)
      BY <1>b, <2>1, <2>2, <3>1, <3>2 DEF Chance
    <3>3. CASE j # Head(queue)
      BY <1>b, <2>1, <2>2, <3>1, <3>3 DEF Chance
    <3> QED
      BY <3>2, <3>3
  <2> QED
    BY <1>b, <2>1, <2>2, <2>3
<1>12. CASE MuxVerify
  <2> DEFINE e == [job |-> mux.job, what |-> "Verifying"]
  <2>1. e \in SessionEvents /\ inbox' = Append(inbox, e) /\ e.what = "Verifying"
    BY <1>12 DEF MuxVerify, Posts, SessionEvents, SessionTypeOK
  <2> HIDE DEF e
  <2>2. /\ \A j : Has(inbox', j, {"Ready"}) <=> Has(inbox, j, {"Ready"})
        /\ OneReady(inbox')
    BY <1>b, <1>e, <2>1, AppendHas
  <2>3. /\ queue' = queue /\ outputs' = outputs /\ table' = table /\ probe' = probe
        /\ mux'.job = mux.job /\ mux.stage = "muxing"
        /\ phase' = phase /\ phase # "down"
    BY <1>12 DEF MuxVerify, disk, SessionTypeOK
  <2>4. ASSUME NEW j \in Ids
        PROVE  Chance(table', probe', inbox', queue', mux', outputs', j)
    BY <1>b, <2>2, <2>3 DEF Chance
  <2> QED
    BY <1>b, <2>2, <2>3, <2>4
<1>13. CASE MuxRename
  <2>1. /\ queue' = queue /\ inbox' = inbox /\ table' = table /\ probe' = probe
        /\ mux.job \in Ids /\ mux.stage = "verifying"
        /\ mux'.job = mux.job /\ mux'.stage = "finished"
        /\ outputs' = [outputs EXCEPT ![mux.job] = outputs[mux.job] + 1]
        /\ phase' = phase /\ phase # "down"
    BY <1>13 DEF MuxRename, SessionTypeOK
  <2>2. ASSUME NEW j \in Ids
        PROVE  Chance(table', probe', inbox', queue', mux', outputs', j)
    <3>1. CASE j = mux.job
      <4>1. outputs[j] = 0
        BY <1>b, <2>1, <3>1 DEF Chance
      <4>2. outputs'[j] = 1
        BY <1>e, <2>1, <3>1, <4>1
      <4> QED
        BY <1>b, <2>1, <3>1, <4>2 DEF Chance
    <3>2. CASE j # mux.job
      <4>1. outputs'[j] = outputs[j]
        BY <1>e, <2>1, <3>2
      <4> QED
        BY <1>b, <2>1, <3>2, <4>1 DEF Chance
    <3> QED
      BY <3>1, <3>2
  <2> QED
    BY <1>b, <2>1, <2>2
<1>14. CASE MuxReports
  <2>1. PICK what \in {"Done", "Failed", "Cancelled"} :
            inbox' = Append(inbox, [job |-> mux.job, what |-> what])
    BY <1>14 DEF MuxReports, Posts
  <2> DEFINE e == [job |-> mux.job, what |-> what]
  <2>2. e \in SessionEvents /\ e.what # "Ready" /\ inbox' = Append(inbox, e)
    BY <1>14, <2>1 DEF MuxReports, Idle, SessionEvents, SessionTypeOK
  <2> HIDE DEF e
  <2>3. /\ \A j : Has(inbox', j, {"Ready"}) <=> Has(inbox, j, {"Ready"})
        /\ OneReady(inbox')
    BY <1>b, <1>e, <2>2, AppendHas
  <2>4. /\ queue' = queue /\ outputs' = outputs /\ table' = table /\ probe' = probe
        /\ mux'.job = 0 /\ phase' = phase /\ phase # "down"
    BY <1>14 DEF MuxReports, disk, Nobody
  <2>5. ASSUME NEW j \in Ids
        PROVE  Chance(table', probe', inbox', queue', mux', outputs', j)
    BY <1>b, <1>e, <2>3, <2>4 DEF Chance
  <2> QED
    BY <1>b, <2>3, <2>4, <2>5
<1>15. CASE UNCHANGED sessionVars
  BY <1>15, <1>b DEF sessionVars, volatile, disk, Chance
<1> QED
  BY <1>1, <1>2, <1>3, <1>4, <1>5, <1>6, <1>7, <1>8, <1>9, <1>10, <1>11, <1>12, <1>13, <1>14,
     <1>15 DEF SessionNext, UIStep, Worker

\* A job has an output twice only after a crash: a stop, a restart, a cancelled or
\* repeated probe never lead to a second mux of one export.
THEOREM OutputOnce == SessionSpec => []MuxedOnce
<1>1. SessionInit => OneChance
  <2> SUFFICES ASSUME SessionInit PROVE OneChance
    OBVIOUS
  <2>1. NoDup(queue) /\ OneReady(inbox) /\ saved = table
    BY DEF SessionInit, NoDup, OneReady
  <2>2. ASSUME NEW j \in Ids PROVE OneChanceOf(j)
    BY RestartAssumption DEF SessionInit, OneChanceOf, Early, Coming, Queued, Nobody
  <2> QED
    BY <2>1, <2>2 DEF OneChance
<1>2. OneChance => MuxedOnce
  BY DEF OneChance, OneChanceOf, MuxedOnce
<1> QED
  BY <1>1, <1>2, SessionsTyped, ChanceStep, PTL DEF SessionSpec
=============================================================================
