--------------------------- MODULE ResolverAgent ---------------------------
(***************************************************************************)
(* The agent of /etc/resolv.conf (agent-resolver).  It reads the file once *)
(* into a cache that is static, so that all agents of a process share it   *)
(* and it outlives them; it writes the file from the cache when it is told *)
(* to or when the agent ends.                                              *)
(*                                                                         *)
(* A file is its lines and whether the last one ends with a newline.  A    *)
(* line is a key with words; "BEGIN" and "END" stand for the lines around  *)
(* the info header, an info key for the line with its tag, "#" for any     *)
(* other comment.  A value is a list of words, a string (its lines), or    *)
(* something else.                                                         *)
(***************************************************************************)
EXTENDS Integers, Sequences, FiniteSets, SequencesExt

CONSTANTS
  Agents, Files,
  DefaultFile, \* /etc/resolv.conf
  Edits,       \* what other programs write into a file, and what is there first
  Values,      \* what clients write
  WriteKeys,   \* the keys they write
  MaxOps       \* commands and edits

VARIABLES
  disk,        \* disk[f]: [lines, nl], or NoFile
  file_name,   \* file_name[a]: the file of an agent, "" when there is none
  localCache, cacheDirty, cacheValid, writeHeader,
  mine,        \* what clients wrote since the cache was filled
  flushed,     \* the file written by the last flush that reported success, and the cache then
  ops

NoFile == [lines |-> <<>>, nl |-> FALSE]
Exists(f) == disk[f] # NoFile

resolver_keys == <<"search", "nameserver", "domain", "sortlist", "options">>
headers == <<"modified", "backup", "process", "process_id", "script", "saveto", "info">>
ListKeys == {"search", "sortlist", "options"}

(* The order of the keys of a YCPMap; "other" is a key that the agent does *)
(* not know.                                                               *)
KeyOrder == <<"backup", "domain", "info", "modified", "nameserver", "options", "other",
              "process", "process_id", "saveto", "script", "search", "sortlist">>

allowedKey(key) == key \in ToSet(resolver_keys)
allowedInfoKey(key) == key \in ToSet(headers)
findKey(line) == IF allowedInfoKey(line.k) THEN line.k ELSE ""

List(words) == [t |-> "list", v |-> words]
String(lines) == [t |-> "string", v |-> lines]
Null == [t |-> "null", v |-> <<>>]
Void == [t |-> "void", v |-> <<>>]

With(cache, key, value) == [k \in DOMAIN cache \cup {key} |-> IF k = key THEN value ELSE cache[k]]
valueOf(cache, key) == IF key \in DOMAIN cache THEN cache[key] ELSE Null
Front1(words) == IF words = <<>> THEN <<>> ELSE <<words[1]>>

-----------------------------------------------------------------------------
(* fillCache: a: the cache so far, the info header that is being read, the *)
(* lines of the last info key and that key.                                *)
Kept(a) == IF a.last = "" THEN a.cache ELSE With(a.cache, a.last, String(a.buf))

readComment(a, line) ==
  CASE line.k = "BEGIN" -> [a EXCEPT !.info = TRUE]
    [] line.k = "END" -> [a EXCEPT !.cache = Kept(a), !.info = FALSE]
    [] findKey(line) # "" -> [a EXCEPT !.cache = Kept(a), !.buf = Front1(line.w), !.last = findKey(line)]
    [] OTHER -> IF a.info THEN [a EXCEPT !.buf = Append(@, "#")] ELSE a

readEntry(a, line) ==
  LET old == valueOf(a.cache, "nameserver")
      value == CASE line.k \in ListKeys -> List(line.w)
                 [] line.k = "nameserver" -> List((IF old = Null THEN <<>> ELSE old.v) \o Front1(line.w))
                 [] line.k = "domain" -> String(Front1(line.w))
                 [] OTHER -> Null
  IN IF line.w = <<>> THEN a ELSE [a EXCEPT !.cache = With(@, line.k, value)]

IsComment(line) == line.k \in {"BEGIN", "END", "#"} \/ allowedInfoKey(line.k)
readLine(a, line) == IF IsComment(line) THEN readComment(a, line) ELSE readEntry(a, line)

(* The search for the words of a list does not stop at the end of a last   *)
(* line without newline: what an earlier line left in the buffer follows.  *)
Stale(file) ==
  IF file.nl \/ file.lines = <<>> \/ Last(file.lines).k \notin ListKeys THEN {<<>>} ELSE {<<>>, <<"stale">>}
Buffered(file, stale) ==
  IF stale = <<>> THEN file.lines ELSE [file.lines EXCEPT ![Len(file.lines)].w = @ \o stale]

Parsed(file, stale) ==
  FoldLeft(readLine, [cache |-> <<>>, info |-> FALSE, buf |-> <<>>, last |-> ""], Buffered(file, stale)).cache

(* What fillCache leaves: a file that cannot be opened leaves the cache as *)
(* it is, and not valid.                                                   *)
fillCache(a, stale) ==
  IF ~cacheValid /\ Exists(file_name[a]) THEN [valid |-> TRUE, cache |-> Parsed(disk[file_name[a]], stale)]
  ELSE [valid |-> cacheValid, cache |-> localCache]

-----------------------------------------------------------------------------
(* flushCache                                                              *)
Line(k, w) == [k |-> k, w |-> w]
HeaderLines(cache) ==
  LET known == SelectSeq(headers, LAMBDA k : valueOf(cache, k).t = "string")
      text(k) == LET v == cache[k].v
                 IN <<Line(k, Front1(v))>> \o [i \in 1 .. Len(v) - 1 |-> Line("#", <<>>)]
  IN <<Line("BEGIN", <<>>), Line("#", <<>>)>> \o FlattenSeq([i \in DOMAIN known |-> text(known[i])])
     \o <<Line("#", <<>>), Line("END", <<>>), Line("#", <<>>)>>

Words(value) == SelectSeq(value.v, LAMBDA w : w # "nil")

(* The loop over the cache ends at a value of a wrong type, and at an      *)
(* empty list.                                                             *)
Ends(key, value) ==
  \/ key \in ListKeys /\ (value.t # "list" \/ value.v = <<>>)
  \/ key = "nameserver" /\ value.t # "list"
  \/ key = "domain" /\ value.t # "string"
EntryLines(key, value) ==
  CASE key \in ListKeys -> <<Line(key, Words(value))>>
    [] key = "nameserver" -> LET w == Words(value) IN [i \in DOMAIN w |-> Line(key, <<w[i]>>)]
    [] key = "domain" -> IF value.v = <<>> THEN <<>> ELSE <<Line(key, value.v)>>
    [] OTHER -> <<>>

Written(cache) ==
  LET keys == SelectSeq(KeyOrder, LAMBDA k : k \in DOMAIN cache)
      n == IF \E i \in DOMAIN keys : Ends(keys[i], cache[keys[i]])
           THEN (CHOOSE i \in DOMAIN keys :
                   /\ Ends(keys[i], cache[keys[i]])
                   /\ \A j \in 1 .. i - 1 : ~Ends(keys[j], cache[keys[j]])) - 1
           ELSE Len(keys)
  IN (IF writeHeader THEN HeaderLines(cache) ELSE <<>>)
     \o FlattenSeq([i \in 1 .. n |-> EntryLines(keys[i], cache[keys[i]])])

(* fillCache has been called: the cache c is valid or not.                 *)
flushCache(a, c, opens) ==
  IF ~c.valid \/ ~cacheDirty THEN UNCHANGED <<disk, cacheDirty, flushed>>
  ELSE /\ opens
       /\ disk' = [disk EXCEPT ![file_name[a]] = [lines |-> Written(c.cache), nl |-> TRUE]]
       /\ cacheDirty' = FALSE
       /\ flushed' = [file |-> file_name[a], cache |-> c.cache]

-----------------------------------------------------------------------------
Command == ops < MaxOps /\ ops' = ops + 1
Filled(c) == localCache' = c.cache /\ cacheValid' = c.valid
NoFlush == [file |-> "", cache |-> <<>>]

(* A new agent, and the term of its description: with a file name the      *)
(* cache has to be filled again.                                           *)
Mount(a, f, named) ==
  /\ Command /\ file_name[a] = "" /\ (named \/ f = DefaultFile)
  /\ file_name' = [file_name EXCEPT ![a] = f]
  /\ cacheValid' = (cacheValid /\ ~named)
  /\ mine' = IF named THEN <<>> ELSE mine
  /\ UNCHANGED <<disk, localCache, cacheDirty, writeHeader, flushed>>

(* ~ResolverAgent                                                          *)
Unmount(a) ==
  /\ Command /\ file_name[a] # ""
  /\ file_name' = [file_name EXCEPT ![a] = ""]
  /\ \E opens \in BOOLEAN :
       IF opens THEN flushCache(a, [valid |-> cacheValid, cache |-> localCache], TRUE)
       ELSE UNCHANGED <<disk, cacheDirty, flushed>>
  /\ UNCHANGED <<localCache, cacheValid, writeHeader, mine>>

Read(a) ==
  /\ Command /\ file_name[a] # ""
  /\ \E stale \in Stale(disk[file_name[a]]) : Filled(fillCache(a, stale))
  /\ UNCHANGED <<disk, file_name, cacheDirty, writeHeader, mine, flushed>>

(* Write (.resolver, nil): opens: fopen succeeds.                          *)
Flush(a, opens) ==
  /\ Command /\ file_name[a] # ""
  /\ \E stale \in Stale(disk[file_name[a]]) :
       LET c == fillCache(a, stale)
       IN /\ Filled(c)
          /\ IF opens THEN flushCache(a, c, opens) ELSE UNCHANGED <<disk, cacheDirty, flushed>>
  /\ UNCHANGED <<file_name, writeHeader, mine>>

(* Write (.resolver, map) and Write (.resolver.key, value)                 *)
WriteAll(a, cache) ==
  /\ Command /\ file_name[a] # ""
  /\ \E stale \in Stale(disk[file_name[a]]) : cacheValid' = fillCache(a, stale).valid
  /\ localCache' = cache /\ cacheDirty' = TRUE
  /\ mine' = IF cacheValid' THEN cache ELSE mine
  /\ UNCHANGED <<disk, file_name, writeHeader, flushed>>
Write(a, key, value) ==
  /\ Command /\ file_name[a] # "" /\ (allowedKey(key) \/ allowedInfoKey(key))
  /\ \E stale \in Stale(disk[file_name[a]]) :
       LET c == fillCache(a, stale)
       IN /\ localCache' = With(c.cache, key, value) /\ cacheValid' = c.valid
          /\ mine' = IF c.valid THEN With(mine, key, value) ELSE mine
  /\ cacheDirty' = TRUE
  /\ UNCHANGED <<disk, file_name, writeHeader, flushed>>
WriteWithHeader(a, on) ==
  /\ Command /\ file_name[a] # ""
  /\ \E stale \in Stale(disk[file_name[a]]) : Filled(fillCache(a, stale))
  /\ writeHeader' = on /\ cacheDirty' = TRUE
  /\ UNCHANGED <<disk, file_name, mine, flushed>>

(* Another program writes or removes the file.                             *)
Edit(f, file) ==
  /\ Command /\ disk[f] # file
  /\ disk' = [disk EXCEPT ![f] = file]
  /\ flushed' = IF flushed.file = f THEN NoFlush ELSE flushed
  /\ UNCHANGED <<file_name, localCache, cacheDirty, cacheValid, writeHeader, mine>>

Init ==
  /\ disk \in [Files -> Edits]
  /\ file_name = [a \in Agents |-> ""]
  /\ localCache = <<>> /\ cacheDirty = FALSE /\ cacheValid = FALSE /\ writeHeader = FALSE
  /\ mine = <<>> /\ flushed = NoFlush /\ ops = 0

Next ==
  \/ \E a \in Agents :
       \/ \E f \in Files, named \in BOOLEAN : Mount(a, f, named)
       \/ Unmount(a) \/ Read(a)
       \/ \E b \in BOOLEAN : Flush(a, b) \/ WriteWithHeader(a, b)
       \/ WriteAll(a, <<>>)
       \/ \E key \in WriteKeys, value \in Values : Write(a, key, value)
  \/ \E f \in Files, file \in Edits : Edit(f, file)

-----------------------------------------------------------------------------
(* What a client wrote through a valid cache is what it reads, whatever    *)
(* other programs do to the file and also after it is flushed (fillCache,  *)
(* cacheValid).                                                            *)
ClientReadsItsWrites == cacheValid => \A k \in DOMAIN mine : valueOf(localCache, k) = mine[k]

(* What flushCache reports as written, an agent that reads the file anew   *)
(* finds, if every value has its type and no list is empty.                *)
WellTyped(cache) == \A k \in DOMAIN cache : ~Ends(k, cache[k])
Readable(cache, k) == LET v == valueOf(cache, k) IN IF v.v = <<>> THEN <<>> ELSE Words(v)
SavedIsRead ==
  flushed # NoFlush /\ WellTyped(flushed.cache) =>
    LET again == Parsed(disk[flushed.file], <<>>)
    IN \A k \in ToSet(resolver_keys) : Readable(again, k) = Readable(flushed.cache, k)

(* The cache of a file that ends with a newline has the words of the last  *)
(* line of each key, and those of all nameserver lines in order.           *)
Of(file, key) == SelectSeq(file.lines, LAMBDA l : l.k = key /\ l.w # <<>>)
FilledFromTheFile ==
  \A f \in Files : disk[f].nl =>
    LET cache == Parsed(disk[f], <<>>)
    IN \A k \in ToSet(resolver_keys) :
         LET ls == Of(disk[f], k)
             words(l) == IF k \in ListKeys THEN l.w ELSE Front1(l.w)
         IN IF ls = <<>> THEN k \notin DOMAIN cache
            ELSE IF k = "nameserver" THEN cache[k].v = FlattenSeq([i \in DOMAIN ls |-> words(ls[i])])
            ELSE cache[k].v = words(Last(ls))
=============================================================================
