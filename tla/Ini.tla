--------------------------------- MODULE Ini --------------------------------
(***************************************************************************)
(* The configuration files of module/stl/src/stl_ini.c: the parser, and    *)
(* the sections and items it fills, which callers search, change and write *)
(* back.  Names are sequences of letters, since a search takes every name  *)
(* that begins with the one it was given; names with blanks, brackets or   *)
(* comment marks and names above 255 letters are left out.  A line is      *)
(* modelled by what trimming leaves of it, a text by a number of its own   *)
(* and by what becomes of it when it is written to a file and read again.  *)
(***************************************************************************)
EXTENDS Integers, Sequences, SequencesExt

CONSTANTS
    SectionName, KeyName,  \* names in the lines and in the calls
    FileForm,              \* bound: forms of the texts in a file
    MaxSteps, MaxCalls     \* bounds: lines and calls together, calls that change the store

ASSUME IniAssumption ==
    /\ SectionName \subseteq Seq(Nat) /\ KeyName \subseteq Seq(Nat)  \* a letter is its code
    /\ FileForm \subseteq {"plain", "long"}
    /\ MaxSteps \in Nat /\ MaxCalls \in Nat

VARIABLES
    store,      \* the sections, in order: [name, items], an item is [key, val], val a text
    parser,     \* the variables section and key of stl_ini_parse
    iniPhase,   \* "parsing", "ready", or "wrecked": a count has run below zero, or all is freed
    linesRead, calls,
    given,      \* history: the names of the items read from the file
    deleted     \* history: whether stl_ini_del was called

iniVars == <<store, parser, iniPhase, linesRead, calls, given, deleted>>

NoName == << >>

\* A text of one line that is read as it was written.
Plain(n) == [num |-> n, form |-> "plain", rest |-> << >>]
NotFound == Plain(0)

\* strncmp with the length of the name that is looked for.
Matches(stored, name) == IsPrefix(name, stored)

\* What trim_comment, trim_space and trim_bom leave of a line: nothing, a section, an item or
\* a text that is neither; and whether there was space before it.
Line(value) ==
    [kind : {"blank", "neither"}, indent : {FALSE}, name : {NoName}, val : {value}]
    \cup [kind : {"section"}, indent : BOOLEAN, name : SectionName, val : {value}]
    \cup [kind : {"item"}, indent : BOOLEAN, name : KeyName, val : {value}]

\* Texts in a file: with their key they may exceed what stl_ini_dump writes of an item, 4095
\* characters with the newline, since a string has lines of up to 4095 without it.
FileText(n) == {[Plain(n) EXCEPT !.form = form] : form \in FileForm}

\* Texts in a call: also with blanks at the ends or a comment mark, which the parser takes
\* off, or with a line break (one is the bound) and a line behind it.
Text(n) ==
    {[Plain(n) EXCEPT !.form = form] : form \in {"plain", "trims", "long"}}
    \cup [num : {n}, form : {"breaks"}, rest : {<<line>> : line \in Line(Plain(n))}]

\* stl_ini_section_put_conf: always a new item, at the end.
PutConf(st, i, key, val) == [st EXCEPT ![i].items = Append(@, [key |-> key, val |-> val])]

\* stl_ini_on_item_func: the item goes to the last section whose name begins with the one of
\* the line, or else to a new one.
OnItem(st, section, key, val) ==
    LET i == SelectLastInSeq(st, LAMBDA s : Matches(s.name, section))
    IN IF i > 0 THEN PutConf(st, i, key, val)
       ELSE PutConf(Append(st, [name |-> section, items |-> << >>]), Len(st) + 1, key, val)

\* One turn of the loop of stl_ini_parse.  An indented line after an item is one more value of
\* its key, whatever it looks like.  An error ends the loop and keeps what was read.
ParseLine(p, line) ==
    CASE ~p.ok \/ line.kind = "blank" -> p
      [] p.ok /\ line.kind # "blank" /\ line.indent /\ p.key # NoName ->
            [p EXCEPT !.store = OnItem(@, p.section, p.key, line.val)]
      [] p.ok /\ line.kind = "section" /\ ~(line.indent /\ p.key # NoName) ->
            [p EXCEPT !.key = NoName, !.section = line.name]
      [] p.ok /\ line.kind = "item" /\ ~(line.indent /\ p.key # NoName) ->
            [p EXCEPT !.key = line.name, !.store = OnItem(@, p.section, line.name, line.val)]
      [] p.ok /\ line.kind = "neither" -> [p EXCEPT !.ok = FALSE]

Parsing == [section |-> NoName, key |-> NoName, ok |-> TRUE, store |-> << >>]

Parse(lines) ==
    LET after[i \in 0 .. Len(lines)] == IF i = 0 THEN Parsing ELSE ParseLine(after[i - 1], lines[i])
    IN after[Len(lines)].store

\* stl_ini_init up to the first line.
IniInit ==
    /\ store = << >> /\ parser = [section |-> NoName, key |-> NoName]
    /\ iniPhase = "parsing" /\ linesRead = 0 /\ calls = 0
    /\ given = {} /\ deleted = FALSE

\* stl_ini_file_line or stl_ini_string_line, and what stl_ini_parse does with the line.
ReadLine ==
    /\ iniPhase = "parsing" /\ linesRead < MaxSteps
    /\ \E val \in FileText(linesRead + 1) : \E line \in Line(val) :
         LET now == [section |-> parser.section, key |-> parser.key, ok |-> TRUE, store |-> store]
             p == ParseLine(now, line)
         IN /\ store' = p.store
            /\ parser' = [section |-> p.section, key |-> p.key]
            /\ iniPhase' = IF p.ok THEN "parsing" ELSE "ready"
            /\ given' = IF p.store = store THEN given ELSE given \cup {<<p.section, p.key>>}
    /\ linesRead' = linesRead + 1
    /\ UNCHANGED <<calls, deleted>>

\* The end of the file or string: stl_ini_parse_file and stl_ini_parse_string return, and so
\* does stl_ini_init, with -1 although it has read everything.
EndOfInput ==
    /\ iniPhase = "parsing"
    /\ iniPhase' = "ready"
    /\ UNCHANGED <<store, parser, linesRead, calls, given, deleted>>

\* Mutant: the search ends with the first section that matches.
SearchFirstSection(st, section, key) ==
    LET i == SelectInSeq(st, LAMBDA s : Matches(s.name, section))
        j == IF i = 0 THEN 0 ELSE SelectInSeq(st[i].items, LAMBDA item : Matches(item.key, key))
    IN IF j = 0 THEN NotFound ELSE st[i].items[j].val

\* stl_ini_search: the first item of the last section that has one.
Search(st, section, key) ==
    LET Position(i) == SelectInSeq(st[i].items, LAMBDA item : Matches(item.key, key))
        hits == {i \in DOMAIN st : Matches(st[i].name, section) /\ Position(i) > 0}
        last == CHOOSE i \in hits : \A other \in hits : other <= i
    IN IF hits = {} THEN NotFound ELSE st[last].items[Position(last)].val

\* The section that stl_ini_put and stl_ini_del take: the first that matches.
FirstSection(section) == SelectInSeq(store, LAMBDA s : Matches(s.name, section))

\* stl_ini_put: one more item, if the key is there already.
Put(section, key, val) ==
    LET i == FirstSection(section)
    IN /\ iniPhase = "ready" /\ calls < MaxCalls /\ linesRead + calls < MaxSteps
       /\ calls' = calls + 1
       /\ store' = IF i > 0 /\ \E item \in ToSet(store[i].items) : Matches(item.key, key)
                   THEN PutConf(store, i, key, val) ELSE store
       /\ UNCHANGED <<parser, iniPhase, linesRead, given, deleted>>

\* stl_ini_del and stl_ini_section_del_conf: the item found is removed; if none is, the last
\* one goes, and of a section without items the count runs below zero.
Del(section, key) ==
    LET i == FirstSection(section)
        items == store[i].items
        j == SelectInSeq(items, LAMBDA item : Matches(item.key, key))
    IN /\ iniPhase = "ready" /\ calls < MaxCalls /\ linesRead + calls < MaxSteps
       /\ calls' = calls + 1
       /\ IF i = 0 THEN UNCHANGED <<store, iniPhase>>
          ELSE IF items = << >> THEN iniPhase' = "wrecked" /\ UNCHANGED store
          ELSE /\ store' = [store EXCEPT ![i].items = RemoveAt(@, IF j = 0 THEN Len(@) ELSE j)]
               /\ UNCHANGED iniPhase
       /\ deleted' = TRUE
       /\ UNCHANGED <<parser, linesRead, given>>

\* What the parser takes from the line of a text: its first line, without blanks and comment
\* at its ends, and no more than fits.
Read(text) == Plain(text.num)

\* The newline of an item that is too long is not written: whatever follows is joined to the
\* letter of it that the reader's buffer does not hold.
Long(items, j) == j \in DOMAIN items /\ items[j].val.form = "long"
SomeLetter == 0

\* The lines that stl_ini_dump writes, as the parser gets them; a section behind an item that
\* is too long is no section.
SectionLine(st, i) ==
    LET joined == i > 1 /\ Long(st[i - 1].items, Len(st[i - 1].items))
    IN [kind |-> IF joined THEN "neither" ELSE "section", indent |-> FALSE,
        name |-> IF joined THEN NoName ELSE st[i].name, val |-> NotFound]
ItemLines(items, j) ==
    <<[kind |-> "item", indent |-> FALSE,
       name |-> IF Long(items, j - 1) THEN <<SomeLetter>> \o items[j].key ELSE items[j].key,
       val |-> Read(items[j].val)]>> \o items[j].val.rest

\* Mutant: the last item of every section is left out.
DumpShort(st) ==
    FlattenSeq([i \in DOMAIN st |->
        <<SectionLine(st, i)>>
        \o FlattenSeq([j \in 1 .. Len(st[i].items) - 1 |-> ItemLines(st[i].items, j)])])

\* stl_ini_dump.
Dump(st) ==
    FlattenSeq([i \in DOMAIN st |->
        <<SectionLine(st, i)>>
        \o FlattenSeq([j \in DOMAIN st[i].items |-> ItemLines(st[i].items, j)])])

\* stl_ini_destroy: stl_ini_deinit frees the same item once for every item of its section,
\* and may crash at it.
IniDeinit ==
    /\ iniPhase = "ready"
    /\ store' = << >> /\ iniPhase' = "wrecked"
    /\ UNCHANGED <<parser, linesRead, calls, given, deleted>>

IniNext ==
    \/ ReadLine \/ EndOfInput \/ IniDeinit
    \/ \E section \in SectionName, key \in KeyName :
         Del(section, key) \/ \E val \in Text(linesRead + calls + 1) : Put(section, key, val)

IniSpec == IniInit /\ [][IniNext]_iniVars

(***************************************************************************)
(*                              Properties                                 *)
(***************************************************************************)
\* As long as nothing is deleted, every key that the file gave a value is found with the
\* names of its line, although an item may have gone to another section, whose name begins
\* with the one of the line (stl_ini.c:112 and 354).
FoundAgain ==
    iniPhase # "wrecked" /\ ~deleted =>
        \A line \in given : Search(store, line[1], line[2]) # NotFound

\* The sections that have items.
WithItems(st) ==
    LET with[i \in 0 .. Len(st)] ==
            IF i = 0 THEN << >> ELSE IF st[i].items = << >> THEN with[i - 1] ELSE Append(with[i - 1], st[i])
    IN with[Len(st)]

\* The sections as far as the j-th item of the i-th.
Cut(st, i, j) == [SubSeq(st, 1, i) EXCEPT ![i].items = SubSeq(@, 1, j)]

\* Every text of theirs fits on a line.
OneLine(st) ==
    \A i \in DOMAIN st : \A j \in DOMAIN st[i].items :
        st[i].items[j].val.form \in {"plain", "trims"}

\* The sections with their texts as the parser takes them.
TrimmedItems(items) == [j \in DOMAIN items |-> [items[j] EXCEPT !.val = Read(@)]]
Trimmed(st) == [i \in DOMAIN st |-> [st[i] EXCEPT !.items = TrimmedItems(@)]]

\* The same sections with more items, and more sections behind.
Grows(st, more) ==
    /\ Len(st) <= Len(more)
    /\ \A i \in DOMAIN st : st[i].name = more[i].name /\ IsPrefix(st[i].items, more[i].items)

\* What stl_ini_dump writes, whatever was put and deleted before, is read back by stl_ini_init
\* as the same sections and items in the same order, the texts without the blanks and comments
\* at their ends, as long as every text fits on a line; sections without items are gone
\* (stl_ini.c:100 and 371).  A text with a line break, or one that snprintf cuts together
\* with its newline (stl_ini.c:385), is not read back, but whatever stands before it is.
DumpReadsBack ==
    iniPhase # "wrecked" =>
        LET read == Parse(Dump(store))
        IN /\ OneLine(store) => read = WithItems(Trimmed(store))
           /\ \A i \in DOMAIN store : \A j \in 0 .. Len(store[i].items) :
                OneLine(Cut(store, i, j)) => Grows(WithItems(Trimmed(Cut(store, i, j))), read)
=============================================================================
