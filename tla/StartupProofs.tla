--------------------------- MODULE StartupProofs ---------------------------
(***************************************************************************)
(* Proofs about Startup, for any number of processes and files of any      *)
(* length: each line read extends what is known of the file by one line.   *)
(***************************************************************************)
EXTENDS Startup, FiniteSetTheorems, SequenceTheorems, WellFoundedInduction, TLAPS

-----------------------------------------------------------------------------
(* The bootstrap file.                                                     *)

\* A text that may be empty; the provers do not know "" for a string.
Text == STRING \union {""}
BootRecord ==
  [domain_id : IntMin .. IntMax, runtime_args : Seq(STRING), config_file : Text,
   topic_config_file : Text, qos_xml_file : Text]

\* The lines that set key among the first n of f, and the value of the last.
SetBy(f, n, key) == {i \in 1 .. n : f[i].kind = "entry" /\ f[i].key = key}
Latest(f, n, key) == f[Max(SetBy(f, n, key))].value
TextOf(f, n, key) == IF SetBy(f, n, key) = {} THEN "" ELSE Latest(f, n, key).text

ReadSoFar(f, n, b) ==
  /\ \A i \in 1 .. n : ~BadEntry(f[i])
  /\ b.domain_id = IF SetBy(f, n, "domain_id") = {} THEN 42
                     ELSE Latest(f, n, "domain_id").number
  /\ b.config_file = TextOf(f, n, "config_file")
  /\ b.topic_config_file = TextOf(f, n, "topic_config_file")
  /\ b.qos_xml_file = TextOf(f, n, "qos_xml_file")

\* The argument of a line comes after those of the lines before it.
ArgsSoFar(f, n, args) ==
  LET lines == SetBy(f, n, "runtime_arg") IN
  /\ Len(args) = Cardinality(lines)
  /\ \A i \in lines : args[Cardinality({j \in lines : j <= i})] = f[i].value.text

LEMMA LineOf ==
  ASSUME NEW S, NEW f \in Seq(S), NEW i \in 1 .. Len(f)
  PROVE  f[i] \in S
OBVIOUS

LEMMA NothingSet ==
  ASSUME NEW f
  PROVE  /\ \A key : SetBy(f, 0, key) = {}
         /\ \A args : ArgsSoFar(f, 0, args) <=> Len(args) = 0
<1>1. \A key : SetBy(f, 0, key) = {}
  BY DEF SetBy
<1>2. QED BY <1>1, FS_EmptySet DEF ArgsSoFar

LEMMA ReadNothing ==
  ASSUME NEW f, NEW b
  PROVE  ReadSoFar(f, 0, b) <=>
           /\ b.domain_id = 42 /\ b.config_file = ""
           /\ b.topic_config_file = "" /\ b.qos_xml_file = ""
<1>1. \A i \in 1 .. 0 : ~BadEntry(f[i])
  OBVIOUS
<1>2. \A key : TextOf(f, 0, key) = ""
  BY NothingSet DEF TextOf
<1>3. QED BY <1>1, <1>2, NothingSet DEF ReadSoFar

LEMMA MaxIs ==
  ASSUME NEW S \in SUBSET Int, NEW m \in S, \A x \in S : m >= x
  PROVE  Max(S) = m
<1>1. \A x \in S : (\A y \in S : x >= y) => x = m
  OBVIOUS
<1>2. \E x \in S : \A y \in S : x >= y
  OBVIOUS
<1>3. QED BY <1>1, <1>2 DEF Max

LEMMA SetByNext ==
  ASSUME NEW f, NEW n \in Nat, NEW key
  PROVE  /\ f[n + 1].kind = "entry" /\ f[n + 1].key = key =>
              /\ SetBy(f, n + 1, key) = SetBy(f, n, key) \union {n + 1}
              /\ Latest(f, n + 1, key) = f[n + 1].value
         /\ ~(f[n + 1].kind = "entry" /\ f[n + 1].key = key) =>
              /\ SetBy(f, n + 1, key) = SetBy(f, n, key)
              /\ Latest(f, n + 1, key) = Latest(f, n, key)
              /\ TextOf(f, n + 1, key) = TextOf(f, n, key)
<1>1. 1 .. n + 1 = (1 .. n) \union {n + 1}
  OBVIOUS
<1>2. CASE f[n + 1].kind = "entry" /\ f[n + 1].key = key
  <2>1. SetBy(f, n + 1, key) = SetBy(f, n, key) \union {n + 1}
    BY <1>1, <1>2 DEF SetBy
  <2>2. SetBy(f, n, key) \subseteq 1 .. n
    BY DEF SetBy
  <2>3. Max(SetBy(f, n + 1, key)) = n + 1
    <3>1. \A x \in SetBy(f, n + 1, key) : x \in Int /\ n + 1 >= x
      BY <2>1, <2>2
    <3>2. QED BY <2>1, <3>1, MaxIs
  <2>4. QED BY <1>2, <2>1, <2>3 DEF Latest
<1>3. CASE ~(f[n + 1].kind = "entry" /\ f[n + 1].key = key)
  <2>1. SetBy(f, n + 1, key) = SetBy(f, n, key)
    BY <1>1, <1>3 DEF SetBy
  <2>2. QED BY <1>3, <2>1 DEF Latest, TextOf
<1>4. QED BY <1>2, <1>3

LEMMA SetByFinite ==
  ASSUME NEW f, NEW n \in Nat, NEW key
  PROVE  /\ IsFiniteSet(SetBy(f, n, key)) /\ Cardinality(SetBy(f, n, key)) \in Nat
         /\ \A i \in Int : LET upto == {j \in SetBy(f, n, key) : j <= i} IN
              /\ IsFiniteSet(upto) /\ Cardinality(upto) \in Nat
              /\ Cardinality(upto) <= Cardinality(SetBy(f, n, key))
              /\ i \in SetBy(f, n, key) => Cardinality(upto) >= 1
<1>1. IsFiniteSet(1 .. n)
  <2>1. 1 \in Int /\ n \in Int
    OBVIOUS
  <2>2. QED BY <2>1, FS_Interval, Zenon
<1>2. IsFiniteSet(SetBy(f, n, key))
  <2>1. SetBy(f, n, key) \subseteq 1 .. n
    BY DEF SetBy
  <2>2. QED BY <1>1, <2>1, FS_Subset
<1>3. Cardinality(SetBy(f, n, key)) \in Nat
  BY <1>2, FS_CardinalityType
<1>4. ASSUME NEW i \in Int
      PROVE  LET upto == {j \in SetBy(f, n, key) : j <= i} IN
             /\ IsFiniteSet(upto) /\ Cardinality(upto) \in Nat
             /\ Cardinality(upto) <= Cardinality(SetBy(f, n, key))
             /\ i \in SetBy(f, n, key) => Cardinality(upto) >= 1
  <2> DEFINE upto == {j \in SetBy(f, n, key) : j <= i}
  <2>1. upto \subseteq SetBy(f, n, key) /\ (i \in SetBy(f, n, key) => i \in upto)
    OBVIOUS
  <2> HIDE DEF upto
  <2>2. /\ IsFiniteSet(upto) /\ Cardinality(upto) <= Cardinality(SetBy(f, n, key))
    BY <1>2, <2>1, FS_Subset
  <2>3. Cardinality(upto) \in Nat /\ (Cardinality(upto) = 0 <=> upto = {})
    BY <2>2, FS_CardinalityType, FS_EmptySet
  <2>4. i \in SetBy(f, n, key) => Cardinality(upto) >= 1
    BY <2>1, <2>3
  <2>5. QED BY <2>2, <2>3, <2>4 DEF upto
<1>5. QED BY <1>2, <1>3, <1>4

\* A line that is another argument goes behind those there are.
LEMMA ArgumentRead ==
  ASSUME NEW f \in Seq(BootLine), NEW n \in Nat, n < Len(f),
         NEW args \in Seq(STRING), ArgsSoFar(f, n, args),
         f[n + 1].kind = "entry", f[n + 1].key = "runtime_arg"
  PROVE  ArgsSoFar(f, n + 1, Append(args, f[n + 1].value.text))
<1> DEFINE a == f[n + 1].value.text
           lines == SetBy(f, n, "runtime_arg")
           new   == SetBy(f, n + 1, "runtime_arg")
<1>1. new = lines \union {n + 1} /\ lines \subseteq 1 .. n
  BY SetByNext DEF SetBy
<1>2. /\ IsFiniteSet(lines) /\ Cardinality(lines) \in Nat /\ n + 1 \notin lines
      /\ Cardinality(new) = Cardinality(lines) + 1
  <2>1. IsFiniteSet(lines) /\ Cardinality(lines) \in Nat
    BY SetByFinite
  <2>2. n + 1 \notin lines
    BY <1>1
  <2>3. QED BY <1>1, <2>1, <2>2, FS_AddElement
<1>3. Len(args) = Cardinality(lines)
  BY DEF ArgsSoFar
<1>4. a \in STRING
  <2>1. f[n + 1] \in BootLine
    BY LineOf
  <2>2. QED BY <2>1 DEF BootLine, Value
<1>5. /\ Len(Append(args, a)) = Len(args) + 1
      /\ \A i \in 1 .. Len(args) : Append(args, a)[i] = args[i]
      /\ Append(args, a)[Len(args) + 1] = a
  BY <1>4, AppendProperties
<1>6. ASSUME NEW i \in lines
      PROVE  Append(args, a)[Cardinality({j \in new : j <= i})] = f[i].value.text
  <2>1. {j \in new : j <= i} = {j \in lines : j <= i}
    BY <1>1
  <2>2. Cardinality({j \in lines : j <= i}) \in 1 .. Len(args)
    BY <1>1, <1>2, <1>3, SetByFinite
  <2>3. args[Cardinality({j \in lines : j <= i})] = f[i].value.text
    BY DEF ArgsSoFar
  <2>4. QED BY <1>5, <2>1, <2>2, <2>3
<1>7. {j \in new : j <= n + 1} = new
  BY <1>1
<1>8. ASSUME NEW i \in new
      PROVE  Append(args, a)[Cardinality({j \in new : j <= i})] = f[i].value.text
  BY <1>1, <1>2, <1>3, <1>5, <1>6, <1>7
<1>9. QED BY <1>2, <1>3, <1>5, <1>8 DEF ArgsSoFar

LEMMA SetEntryIs ==
  ASSUME NEW b, NEW line
  PROVE  /\ line.key = "domain_id" =>
              SetEntry(b, line) = [b EXCEPT !.domain_id = line.value.number]
         /\ line.key = "runtime_arg" =>
              SetEntry(b, line) = [b EXCEPT !.runtime_args = Append(@, line.value.text)]
         /\ line.key \notin {"domain_id", "runtime_arg"} =>
              SetEntry(b, line) = [b EXCEPT ![line.key] = line.value.text]
BY DEF SetEntry

\* What the parser knows after one more good line.
AfterLine(b, line) == IF line.kind = "blank" THEN b ELSE SetEntry(b, line)

LEMMA EntryRead ==
  ASSUME NEW f \in Seq(BootLine), NEW n \in Nat, n < Len(f), NEW b \in BootRecord,
         ReadSoFar(f, n, b), ArgsSoFar(f, n, b.runtime_args), ~BadEntry(f[n + 1])
  PROVE  LET c == AfterLine(b, f[n + 1]) IN
         c \in BootRecord /\ ReadSoFar(f, n + 1, c) /\ ArgsSoFar(f, n + 1, c.runtime_args)
<1> DEFINE line == f[n + 1]
           c == AfterLine(b, line)
<1>1. /\ line \in BootLine /\ line.kind # "malformed"
      /\ line.kind = "entry" => /\ line.key \in KnownKeys
                                /\ line.value.text \in STRING /\ line.value.text \in Text
                                /\ line.key = "domain_id" =>
                                     line.value.number \in IntMin .. IntMax
  <2>1. line \in BootLine
    BY LineOf
  <2>2. QED BY <2>1 DEF BadEntry, ParseInt, BootLine, Value, Text
<1>2. \A i \in 1 .. n + 1 : ~BadEntry(f[i])
  BY DEF ReadSoFar
<1>3. CASE line.kind # "entry"
  <2>1. c = b
    BY <1>1, <1>3 DEF AfterLine, BootLine
  <2>2. \A key : /\ SetBy(f, n + 1, key) = SetBy(f, n, key)
                 /\ Latest(f, n + 1, key) = Latest(f, n, key)
                 /\ TextOf(f, n + 1, key) = TextOf(f, n, key)
    BY <1>3, SetByNext
  <2>3. ReadSoFar(f, n + 1, b)
    BY <1>2, <2>2 DEF ReadSoFar
  <2>4. ArgsSoFar(f, n + 1, b.runtime_args)
    BY <2>2 DEF ArgsSoFar
  <2>5. QED BY <2>1, <2>3, <2>4
<1>4. CASE line.kind = "entry"
  <2>1. c = SetEntry(b, line) /\ line.key \in KnownKeys /\ line.value.text \in STRING
    BY <1>1, <1>4 DEF AfterLine
  <2>2. /\ SetBy(f, n + 1, line.key) = SetBy(f, n, line.key) \union {n + 1}
        /\ Latest(f, n + 1, line.key) = line.value
        /\ TextOf(f, n + 1, line.key) = line.value.text
    <3>1. /\ SetBy(f, n + 1, line.key) = SetBy(f, n, line.key) \union {n + 1}
          /\ Latest(f, n + 1, line.key) = line.value
      BY <1>4, SetByNext
    <3>2. SetBy(f, n + 1, line.key) # {}
      BY <3>1
    <3>3. QED BY <3>1, <3>2 DEF TextOf
  <2>3. \A key : key # line.key =>
          /\ SetBy(f, n + 1, key) = SetBy(f, n, key)
          /\ Latest(f, n + 1, key) = Latest(f, n, key)
          /\ TextOf(f, n + 1, key) = TextOf(f, n, key)
    BY SetByNext
  <2>4. line.key # "runtime_arg" => ArgsSoFar(f, n + 1, b.runtime_args)
    BY <2>3 DEF ArgsSoFar
  <2>5. CASE line.key = "domain_id"
    <3>1. c = [b EXCEPT !.domain_id = line.value.number]
      BY <2>1, <2>5, SetEntryIs
    <3>2. /\ c \in BootRecord /\ c.domain_id = line.value.number
          /\ c.runtime_args = b.runtime_args /\ c.config_file = b.config_file
          /\ c.topic_config_file = b.topic_config_file /\ c.qos_xml_file = b.qos_xml_file
      BY <1>1, <1>4, <2>5, <3>1 DEF BootRecord
    <3>3. SetBy(f, n + 1, "domain_id") # {}
      BY <2>2, <2>5
    <3> HIDE DEF c, line
    <3>4. ReadSoFar(f, n + 1, c)
      BY <1>2, <2>2, <2>3, <2>5, <3>2, <3>3 DEF ReadSoFar
    <3>5. QED BY <2>4, <2>5, <3>2, <3>4 DEF c, line
  <2>6. CASE line.key = "runtime_arg"
    <3>1. c = [b EXCEPT !.runtime_args = Append(b.runtime_args, line.value.text)]
      BY <2>1, <2>6, SetEntryIs
    <3>2. b.runtime_args \in Seq(STRING)
      BY DEF BootRecord
    <3>3. ArgsSoFar(f, n + 1, Append(b.runtime_args, line.value.text))
      BY <1>4, <2>6, <3>2, ArgumentRead
    <3>4. Append(b.runtime_args, line.value.text) \in Seq(STRING)
      BY <2>1, <3>2, AppendProperties
    <3>5. /\ c \in BootRecord /\ c.domain_id = b.domain_id
          /\ c.runtime_args = Append(b.runtime_args, line.value.text)
          /\ c.config_file = b.config_file
          /\ c.topic_config_file = b.topic_config_file /\ c.qos_xml_file = b.qos_xml_file
      BY <3>1, <3>4 DEF BootRecord
    <3> HIDE DEF c, line
    <3>6. ReadSoFar(f, n + 1, c)
      BY <1>2, <2>3, <2>6, <3>5 DEF ReadSoFar
    <3>7. QED BY <3>3, <3>5, <3>6 DEF c, line
  <2>7. CASE line.key \in {"config_file", "topic_config_file", "qos_xml_file"}
    <3>1. c = [b EXCEPT ![line.key] = line.value.text]
      BY <2>1, <2>7, SetEntryIs
    <3>2. /\ c \in BootRecord /\ c.domain_id = b.domain_id
          /\ c.runtime_args = b.runtime_args
          /\ c.config_file = IF line.key = "config_file" THEN line.value.text
                                                        ELSE b.config_file
          /\ c.topic_config_file = IF line.key = "topic_config_file" THEN line.value.text
                                                        ELSE b.topic_config_file
          /\ c.qos_xml_file = IF line.key = "qos_xml_file" THEN line.value.text
                                                        ELSE b.qos_xml_file
      BY <1>1, <1>4, <2>7, <3>1 DEF BootRecord
    <3> HIDE DEF c, line
    <3>3. ReadSoFar(f, n + 1, c)
      BY <1>2, <2>2, <2>3, <2>7, <3>2 DEF ReadSoFar
    <3>4. QED BY <2>4, <2>7, <3>2, <3>3 DEF c, line
  <2>8. QED BY <2>1, <2>5, <2>6, <2>7 DEF KnownKeys
<1>5. QED BY <1>3, <1>4

-----------------------------------------------------------------------------
(* The invariant, of one process.                                          *)

BootOK(p) ==
  /\ text[p] \in Seq(BootLine) /\ textLine[p] \in 0 .. Len(text[p])
  /\ boot[p] \in BootRecord
  /\ booted[p] # "threw" => ReadSoFar(text[p], textLine[p], boot[p])
  /\ booted[p] = "unopened" => textLine[p] = 0
  /\ booted[p] = "loaded" =>
       textLine[p] = Len(text[p]) /\ boot[p].topic_config_file # ""

\* The command line is appended when the file has been read.
ArgsOK(p) ==
  /\ booted[p] # "threw" /\ outcome[p] = "unopened" =>
       ArgsSoFar(text[p], textLine[p], boot[p].runtime_args)
  /\ outcome[p] # "unopened" =>
       /\ booted[p] = "loaded"
       /\ \E args \in Seq(STRING) : /\ ArgsSoFar(text[p], textLine[p], args)
                                    /\ boot[p].runtime_args = args \o CommandLine[p]

ConfigOK(p) ==
  /\ file[p] \in Seq(Line) /\ lineno[p] \in 0 .. Len(file[p])
  /\ file[p] = <<>> \/ \E n \in DOMAIN Files : file[p] \in Files[n]
  /\ DOMAIN bindings[p] \subseteq Topics
  /\ \A t \in DOMAIN bindings[p] : bindings[p][t] \in Reference
  /\ xml[p] = NoBindings \/ \E n \in DOMAIN XmlFiles : xml[p] = XmlFiles[n]
  /\ outcome[p] = "unopened" => lineno[p] = 0
  /\ outcome[p] \in {"parsing", "loaded", "ready"} =>
       /\ file[p] \in Files[boot[p].topic_config_file]
       /\ \A i \in 1 .. lineno[p] : file[p][i].kind # "malformed"
  /\ outcome[p] \in {"loaded", "ready"} => lineno[p] = Len(file[p])
  /\ outcome[p] = "ready" /\ boot[p].qos_xml_file # "" =>
       xml[p] = XmlFiles[boot[p].qos_xml_file]

StartedOK(p) ==
  started[p] # NotStarted =>
    outcome[p] = "ready" /\ started[p] = [argv   |-> RebuildArgv(boot[p]),
                                          domain |-> boot[p].domain_id]

ProcessOK(p) == BootOK(p) /\ ArgsOK(p) /\ ConfigOK(p) /\ StartedOK(p)

DomainsOK ==
  /\ booted \in [Parties -> {"unopened", "parsing", "loaded", "threw"}]
  /\ outcome \in [Parties -> {"unopened", "parsing", "loaded", "ready", "threw"}]
  /\ textLine \in [Parties -> Nat]
  /\ DOMAIN text = Parties /\ DOMAIN boot = Parties /\ DOMAIN file = Parties
  /\ DOMAIN lineno = Parties /\ DOMAIN bindings = Parties /\ DOMAIN xml = Parties
  /\ DOMAIN started = Parties

StartupInv == DomainsOK /\ \A p \in Parties : ProcessOK(p)

LEMMA StartupStarts == StartupInit => StartupInv
<1> SUFFICES ASSUME StartupInit
             PROVE  StartupInv
  OBVIOUS
<1>1. DomainsOK
  BY DEF StartupInit, ConfigInit, BootInit, DomainsOK
<1>2. ASSUME NEW p \in Parties
      PROVE  ProcessOK(p)
  <2>1. /\ text[p] = <<>> /\ textLine[p] = 0 /\ boot[p] = Defaults
        /\ booted[p] = "unopened" /\ outcome[p] = "unopened" /\ file[p] = <<>>
        /\ lineno[p] = 0 /\ bindings[p] = NoBindings /\ xml[p] = NoBindings
        /\ started[p] = NotStarted
    BY DEF StartupInit, ConfigInit, BootInit
  <2>2. /\ <<>> \in Seq(BootLine) /\ <<>> \in Seq(Line) /\ <<>> \in Seq(STRING)
        /\ Len(<<>>) = 0 /\ DOMAIN NoBindings = {}
    BY DEF NoBindings
  <2>3. Defaults \in BootRecord
    <3>1. 42 \in IntMin .. IntMax
      BY IntAssumption
    <3> DEFINE S == Seq(STRING)
               D == IntMin .. IntMax
    <3>2. <<>> \in S /\ 42 \in D
      BY <2>2, <3>1
    <3> HIDE DEF S, D
    <3>3. Defaults \in [domain_id : D, runtime_args : S, config_file : Text,
                       topic_config_file : Text, qos_xml_file : Text]
      BY <3>2 DEF Defaults, Text
    <3>4. QED BY <3>3 DEF S, D, BootRecord
  <2>4. ReadSoFar(<<>>, 0, Defaults)
    <3>1. /\ Defaults.domain_id = 42 /\ Defaults.config_file = ""
          /\ Defaults.topic_config_file = "" /\ Defaults.qos_xml_file = ""
      BY DEF Defaults
    <3>2. QED BY <3>1, ReadNothing
  <2>5. ArgsSoFar(<<>>, 0, Defaults.runtime_args)
    BY <2>2, NothingSet DEF Defaults
  <2>6. QED
    BY <2>1, <2>2, <2>3, <2>4, <2>5 DEF ProcessOK, BootOK, ArgsOK, ConfigOK, StartedOK
<1>3. QED BY <1>1, <1>2 DEF StartupInv

\* A process that takes no step stays as it is.
Same(q) ==
  /\ text'[q] = text[q] /\ textLine'[q] = textLine[q] /\ boot'[q] = boot[q]
  /\ booted'[q] = booted[q] /\ file'[q] = file[q] /\ lineno'[q] = lineno[q]
  /\ bindings'[q] = bindings[q] /\ xml'[q] = xml[q] /\ outcome'[q] = outcome[q]
  /\ started'[q] = started[q]

LEMMA SameStaysOK ==
  ASSUME NEW q, ProcessOK(q), Same(q)
  PROVE  ProcessOK(q)'
<1>1. BootOK(q)'
  BY DEF Same, ProcessOK, BootOK
<1>2. ArgsOK(q)'
  BY DEF Same, ProcessOK, ArgsOK
<1>3. ConfigOK(q)'
  BY DEF Same, ProcessOK, ConfigOK
<1>4. StartedOK(q)'
  BY DEF Same, ProcessOK, StartedOK
<1>5. QED BY <1>1, <1>2, <1>3, <1>4 DEF ProcessOK

StepOf(p) ==
  \/ LoadBootFile(p) /\ UNCHANGED <<configVars, started>>
  \/ BeginPreActivate(p) \/ ReadTopicFile(p) \/ LoadXml(p) \/ StartRuntime(p)

LEMMA OneProcessSteps ==
  ASSUME DomainsOK, NEW p \in Parties, StepOf(p)
  PROVE  DomainsOK' /\ \A q \in Parties \ {p} : Same(q)
<1>1. CASE LoadBootFile(p) /\ UNCHANGED <<configVars, started>>
  <2>1. CASE OpenBootFile(p)
    BY <1>1, <2>1 DEF OpenBootFile, configVars, DomainsOK, Same
  <2>2. CASE ReadEntry(p)
    <3>1. /\ \E b : boot' = [boot EXCEPT ![p] = b]
          /\ \E c \in {"parsing", "threw"} : booted' = [booted EXCEPT ![p] = c]
      BY <2>2 DEF ReadEntry
    <3>2. QED BY <1>1, <2>2, <3>1 DEF ReadEntry, configVars, DomainsOK, Same
  <2>3. CASE EndOfBootFile(p)
    BY <1>1, <2>3 DEF EndOfBootFile, configVars, DomainsOK, Same
  <2>4. QED BY <1>1, <2>1, <2>2, <2>3 DEF LoadBootFile
<1>2. CASE BeginPreActivate(p)
  BY <1>2 DEF BeginPreActivate, LoadFromFile, DomainsOK, Same
<1>3. CASE ReadTopicFile(p)
  BY <1>3 DEF ReadTopicFile, ReadLine, EndOfFile, bootVars, DomainsOK, Same
<1>4. CASE LoadXml(p)
  BY <1>4 DEF LoadXml, NoXmlQosFile, UseXmlQosFile, bootVars, DomainsOK, Same
<1>5. CASE StartRuntime(p)
  BY <1>5 DEF StartRuntime, configVars, bootVars, DomainsOK, Same
<1>6. QED BY <1>1, <1>2, <1>3, <1>4, <1>5 DEF StepOf

LEMMA BootFileStep ==
  ASSUME DomainsOK, NEW p \in Parties, ProcessOK(p), LoadBootFile(p),
         UNCHANGED <<configVars, started>>
  PROVE  ProcessOK(p)'
<1>1. /\ booted[p] \in {"unopened", "parsing"} /\ outcome[p] = "unopened"
      /\ outcome' = outcome
  BY DEF LoadBootFile, OpenBootFile, ReadEntry, EndOfBootFile, ProcessOK, ArgsOK,
         configVars
<1>2. ConfigOK(p)'
  BY <1>1 DEF ProcessOK, ConfigOK, configVars
<1>3. StartedOK(p)'
  BY <1>1 DEF ProcessOK, StartedOK, configVars
<1>4. /\ text[p] \in Seq(BootLine) /\ textLine[p] \in 0 .. Len(text[p])
      /\ boot[p] \in BootRecord
      /\ ReadSoFar(text[p], textLine[p], boot[p])
      /\ ArgsSoFar(text[p], textLine[p], boot[p].runtime_args)
  BY <1>1 DEF ProcessOK, BootOK, ArgsOK
<1>5. CASE OpenBootFile(p)
  <2>1. textLine[p] = 0 /\ textLine' = textLine /\ boot' = boot
    BY <1>5 DEF OpenBootFile, ProcessOK, BootOK
  <2>2. \A f : ReadSoFar(f, 0, boot[p]) /\ ArgsSoFar(f, 0, boot[p].runtime_args)
    BY <1>4, <2>1, NothingSet, ReadNothing
  <2>3. /\ text'[p] \in Seq(BootLine) /\ booted'[p] \in {"parsing", "threw"}
        /\ Len(text'[p]) \in Nat
    BY <1>4, <1>5, BootFilesAssumption DEF OpenBootFile, DomainsOK
  <2>4. BootOK(p)'
    <3>1. ReadSoFar(text'[p], 0, boot[p])
      BY <2>2
    <3>2. boot'[p] \in BootRecord /\ textLine'[p] = 0 /\ boot'[p] = boot[p]
      BY <1>4, <2>1
    <3>3. 0 \in 0 .. Len(text'[p])
      BY <2>3
    <3>4. QED BY <2>3, <3>1, <3>2, <3>3 DEF BootOK
  <2>5. ArgsOK(p)'
    BY <1>1, <2>1, <2>2 DEF ArgsOK
  <2>6. QED BY <1>2, <1>3, <2>4, <2>5 DEF ProcessOK
<1>6. CASE ReadEntry(p)
  <2> DEFINE n == textLine[p]
             f == text[p]
  <2>1. /\ n \in Nat /\ n < Len(f) /\ Len(f) \in Nat /\ textLine'[p] = n + 1
        /\ text' = text /\ booted[p] = "parsing"
    BY <1>4, <1>6 DEF ReadEntry, DomainsOK
  <2>2. CASE BadEntry(f[n + 1])
    <3>1. booted'[p] = "threw" /\ boot'[p] = boot[p]
      BY <1>6, <2>2 DEF ReadEntry, DomainsOK
    <3>2. BootOK(p)' /\ ArgsOK(p)'
      BY <1>1, <1>4, <2>1, <3>1 DEF BootOK, ArgsOK
    <3>3. QED BY <1>2, <1>3, <3>2 DEF ProcessOK
  <2>3. CASE ~BadEntry(f[n + 1])
    <3>1. booted'[p] = "parsing" /\ boot'[p] = AfterLine(boot[p], f[n + 1])
      BY <1>6, <2>1, <2>3 DEF ReadEntry, DomainsOK, AfterLine
    <3>2. /\ boot'[p] \in BootRecord /\ ReadSoFar(f, n + 1, boot'[p])
          /\ ArgsSoFar(f, n + 1, boot'[p].runtime_args)
      BY <1>4, <2>1, <2>3, <3>1, EntryRead
    <3>3. BootOK(p)' /\ ArgsOK(p)'
      BY <1>1, <1>4, <2>1, <3>1, <3>2 DEF BootOK, ArgsOK
    <3>4. QED BY <1>2, <1>3, <3>3 DEF ProcessOK
  <2>4. QED BY <2>2, <2>3
<1>7. CASE EndOfBootFile(p)
  <2>1. /\ UNCHANGED <<text, textLine, boot>> /\ textLine[p] = Len(text[p])
        /\ \/ booted'[p] = "threw"
           \/ booted'[p] = "loaded" /\ boot[p].topic_config_file # ""
    BY <1>7 DEF EndOfBootFile, DomainsOK
  <2>2. BootOK(p)' /\ ArgsOK(p)'
    BY <1>1, <1>4, <2>1 DEF BootOK, ArgsOK
  <2>3. QED BY <1>2, <1>3, <2>2 DEF ProcessOK
<1>8. QED BY <1>5, <1>6, <1>7 DEF LoadBootFile

LEMMA PreActivateStep ==
  ASSUME DomainsOK, NEW p \in Parties, ProcessOK(p), BeginPreActivate(p)
  PROVE  ProcessOK(p)'
<1> DEFINE b == boot[p]
           c == [b EXCEPT !.runtime_args = @ \o CommandLine[p]]
<1>1. /\ booted[p] = "loaded" /\ outcome[p] = "unopened" /\ boot'[p] = c
      /\ LoadFromFile(p, b.topic_config_file)
      /\ UNCHANGED <<text, textLine, booted, started>>
  BY DEF BeginPreActivate, LoadFromFile, DomainsOK
<1>2. /\ b \in BootRecord /\ ReadSoFar(text[p], textLine[p], b)
      /\ ArgsSoFar(text[p], textLine[p], b.runtime_args)
      /\ b.runtime_args \in Seq(STRING)
  BY <1>1 DEF ProcessOK, BootOK, ArgsOK, BootRecord
<1>3. b.runtime_args \o CommandLine[p] \in Seq(STRING)
  BY <1>2, CommandLineAssumption, ConcatProperties
<1>4. /\ c \in BootRecord /\ c.runtime_args = b.runtime_args \o CommandLine[p]
      /\ c.domain_id = b.domain_id /\ c.config_file = b.config_file
      /\ c.topic_config_file = b.topic_config_file /\ c.qos_xml_file = b.qos_xml_file
  BY <1>2, <1>3 DEF BootRecord
<1>5. ReadSoFar(text[p], textLine[p], c)
  BY <1>2, <1>4 DEF ReadSoFar
<1> HIDE DEF b, c
<1>6. BootOK(p)'
  BY <1>1, <1>4, <1>5 DEF ProcessOK, BootOK, b
<1>7. ArgsOK(p)'
  <2>1. outcome'[p] # "unopened"
    BY <1>1 DEF LoadFromFile, DomainsOK
  <2>2. QED BY <1>1, <1>2, <1>4, <2>1 DEF ArgsOK
<1>8. ConfigOK(p)'
  <2>1. ConfigOK(p) /\ lineno[p] = 0
    BY <1>1 DEF ProcessOK, ConfigOK
  <2>2. CASE outcome'[p] = "threw" /\ UNCHANGED <<file, lineno, bindings, xml>>
    BY <2>1, <2>2 DEF ConfigOK
  <2>3. CASE /\ outcome'[p] = "parsing" /\ UNCHANGED <<lineno, bindings, xml>>
             /\ b.topic_config_file \in DOMAIN Files
             /\ file'[p] \in Files[b.topic_config_file]
    <3>1. file'[p] \in Seq(Line) /\ Len(file'[p]) \in Nat
      BY <2>3, FilesAssumption
    <3>2. QED BY <1>1, <1>4, <2>1, <2>3, <3>1 DEF ConfigOK
  <2>4. QED BY <1>1, <2>2, <2>3 DEF LoadFromFile, DomainsOK
<1>9. StartedOK(p)'
  BY <1>1 DEF ProcessOK, StartedOK
<1>10. QED BY <1>6, <1>7, <1>8, <1>9 DEF ProcessOK

\* Steps on the topic file and the XML file change nothing else.
LEMMA ConfigStep ==
  ASSUME NEW p \in Parties, ProcessOK(p), outcome[p] # "unopened",
         outcome[p] # "ready", outcome'[p] # "unopened",
         UNCHANGED <<bootVars, started>>, ConfigOK(p)'
  PROVE  ProcessOK(p)'
<1>1. BootOK(p)' /\ ArgsOK(p)'
  BY DEF ProcessOK, BootOK, ArgsOK, bootVars
<1>2. StartedOK(p)'
  BY DEF ProcessOK, StartedOK
<1>3. QED BY <1>1, <1>2 DEF ProcessOK

LEMMA TopicFileStep ==
  ASSUME DomainsOK, NEW p \in Parties, ProcessOK(p), ReadTopicFile(p)
  PROVE  ProcessOK(p)'
<1>1. /\ ConfigOK(p) /\ file[p] \in Seq(Line) /\ Len(file[p]) \in Nat
      /\ lineno[p] \in Nat /\ lineno[p] \in 0 .. Len(file[p])
  <2>1. ConfigOK(p) /\ file[p] \in Seq(Line) /\ lineno[p] \in 0 .. Len(file[p])
    BY DEF ProcessOK, ConfigOK
  <2>2. Len(file[p]) \in Nat
    BY <2>1, LenProperties
  <2>3. QED BY <2>1, <2>2
<1>2. UNCHANGED <<bootVars, started, file, xml, boot>>
  BY DEF ReadTopicFile, ReadLine, EndOfFile, bootVars
<1>3. CASE ReadLine(p)
  <2> DEFINE line == file[p][lineno[p] + 1]
             more == Bind(bindings[p], line.topic, line.ref)
  <2>1. /\ outcome[p] = "parsing" /\ lineno[p] < Len(file[p])
        /\ lineno'[p] = lineno[p] + 1
        /\ outcome'[p] = IF line.kind = "malformed" THEN "threw" ELSE "parsing"
        /\ bindings'[p] = IF line.kind = "binds" THEN more ELSE bindings[p]
    BY <1>3 DEF ReadLine, DomainsOK
  <2>2. lineno[p] + 1 \in 1 .. Len(file[p])
    BY <1>1, <2>1
  <2>3. line \in Line
    BY <1>1, <2>2, LineOf
  <2>4. /\ DOMAIN bindings'[p] \subseteq Topics
        /\ \A t \in DOMAIN bindings'[p] : bindings'[p][t] \in Reference
    <3>1. CASE line.kind = "binds"
      <4>1. line.topic \in Topics /\ line.ref \in Reference
        BY <2>3, <3>1 DEF Line
      <4> HIDE DEF line
      <4>2. QED BY <1>1, <2>1, <3>1, <4>1 DEF ConfigOK, Bind
    <3>2. CASE line.kind # "binds"
      BY <1>1, <2>1, <3>2 DEF ConfigOK
    <3>3. QED BY <3>1, <3>2
  <2>5. \A i \in 1 .. lineno[p] + 1 : i \in 1 .. lineno[p] \/ i = lineno[p] + 1
    BY <1>1
  <2>6. lineno'[p] \in 0 .. Len(file'[p])
    BY <1>1, <1>2, <2>1, <2>2
  <2>7. /\ file[p] \in Files[boot[p].topic_config_file]
        /\ \A i \in 1 .. lineno[p] : file[p][i].kind # "malformed"
    BY <1>1, <2>1 DEF ConfigOK
  <2>8. outcome'[p] \in {"parsing", "threw"} /\ outcome'[p] # "unopened"
    BY <2>1
  <2>9. outcome'[p] = "parsing" =>
          \A i \in 1 .. lineno'[p] : file'[p][i].kind # "malformed"
    BY <1>2, <2>1, <2>5, <2>7
  <2>10. /\ file'[p] = file[p] /\ xml'[p] = xml[p] /\ boot'[p] = boot[p]
    BY <1>2
  <2> HIDE DEF line, more
  <2>11. ConfigOK(p)'
    BY <1>1, <2>4, <2>6, <2>7, <2>8, <2>9, <2>10 DEF ConfigOK
  <2>12. QED BY <1>2, <2>1, <2>8, <2>11, ConfigStep
<1>4. CASE EndOfFile(p)
  <2>1. /\ outcome[p] = "parsing" /\ outcome'[p] = "loaded"
        /\ lineno[p] = Len(file[p]) /\ UNCHANGED <<lineno, bindings>>
    BY <1>4 DEF EndOfFile, DomainsOK
  <2>2. ConfigOK(p)'
    BY <1>1, <1>2, <2>1 DEF ConfigOK
  <2>3. QED BY <1>2, <2>1, <2>2, ConfigStep
<1>5. QED BY <1>3, <1>4 DEF ReadTopicFile

LEMMA XmlStep ==
  ASSUME DomainsOK, NEW p \in Parties, ProcessOK(p), LoadXml(p)
  PROVE  ProcessOK(p)'
<1>1. /\ outcome[p] = "loaded" /\ outcome'[p] # "unopened" /\ ConfigOK(p)
      /\ UNCHANGED <<bootVars, started, file, lineno, bindings, boot>>
  BY DEF LoadXml, NoXmlQosFile, UseXmlQosFile, DomainsOK, ProcessOK, bootVars
<1>2. \/ xml' = xml /\ (outcome'[p] = "threw" \/ boot[p].qos_xml_file = "")
      \/ /\ boot[p].qos_xml_file \in DOMAIN XmlFiles
         /\ xml'[p] = XmlFiles[boot[p].qos_xml_file]
  BY DEF LoadXml, NoXmlQosFile, UseXmlQosFile, DomainsOK
<1>3. outcome'[p] \in {"ready", "threw"}
  BY DEF LoadXml, NoXmlQosFile, UseXmlQosFile, DomainsOK
<1>4. ConfigOK(p)'
  BY <1>1, <1>2, <1>3 DEF ConfigOK
<1>5. QED BY <1>1, <1>4, ConfigStep

LEMMA RuntimeStep ==
  ASSUME DomainsOK, NEW p \in Parties, ProcessOK(p), StartRuntime(p)
  PROVE  ProcessOK(p)'
<1>1. /\ outcome[p] = "ready" /\ UNCHANGED <<configVars, bootVars>>
      /\ started'[p] = [argv |-> RebuildArgv(boot[p]), domain |-> boot[p].domain_id]
  BY DEF StartRuntime, DomainsOK
<1>2. BootOK(p)' /\ ArgsOK(p)' /\ ConfigOK(p)'
  BY <1>1 DEF ProcessOK, BootOK, ArgsOK, ConfigOK, bootVars, configVars
<1>3. StartedOK(p)'
  <2>1. UNCHANGED <<boot, outcome>>
    BY <1>1 DEF bootVars, configVars
  <2>2. RebuildArgv(boot[p])' = RebuildArgv(boot[p])
    BY <2>1
  <2>3. QED BY <1>1, <2>1, <2>2 DEF StartedOK
<1>4. QED BY <1>2, <1>3 DEF ProcessOK

LEMMA StartupKeeps == StartupInv /\ [StartupNext]_startupVars => StartupInv'
<1> SUFFICES ASSUME StartupInv, [StartupNext]_startupVars
             PROVE  StartupInv'
  OBVIOUS
<1>1. ASSUME NEW p \in Parties, StepOf(p)
      PROVE  StartupInv'
  <2>1. DomainsOK' /\ \A q \in Parties \ {p} : Same(q)
    BY <1>1, OneProcessSteps DEF StartupInv
  <2>2. \A q \in Parties \ {p} : ProcessOK(q)'
    BY <2>1, SameStaysOK DEF StartupInv
  <2>3. ProcessOK(p)'
    BY <1>1, BootFileStep, PreActivateStep, TopicFileStep, XmlStep, RuntimeStep
       DEF StepOf, StartupInv
  <2>4. QED BY <2>1, <2>2, <2>3 DEF StartupInv
<1>2. CASE UNCHANGED startupVars
  <2>1. DomainsOK'
    BY <1>2 DEF startupVars, configVars, bootVars, StartupInv, DomainsOK
  <2>2. \A q \in Parties : Same(q)
    BY <1>2 DEF startupVars, configVars, bootVars, Same
  <2>3. \A q \in Parties : ProcessOK(q)'
    BY <2>2, SameStaysOK DEF StartupInv
  <2>4. QED BY <2>1, <2>3 DEF StartupInv
<1>3. QED BY <1>1, <1>2 DEF StartupNext, StepOf, StartupDone

\* The invariant holds in every state of the startup.
THEOREM StartupAlways == StartupSpec => []StartupInv
<1>1. StartupInit => StartupInv
  BY StartupStarts
<1>2. StartupInv /\ [StartupNext]_startupVars => StartupInv'
  BY StartupKeeps
<1>3. QED BY <1>1, <1>2, PTL DEF StartupSpec

-----------------------------------------------------------------------------
(* What it means for the configuration.                                    *)

LEMMA NothingStartedHasADomain == NotStarted.domain \in IntMin .. IntMax
BY IntAssumption DEF NotStarted

LEMMA TypesFollow == StartupInv => StartupTypeOK
<1> SUFFICES ASSUME StartupInv
             PROVE  StartupTypeOK
  OBVIOUS
<1>1. DomainsOK /\ \A p \in Parties : ProcessOK(p)
  BY DEF StartupInv
<1>2. ConfigTypeOK
  BY <1>1 DEF ConfigTypeOK, DomainsOK, ProcessOK, ConfigOK
<1>3. ASSUME NEW p \in Parties
      PROVE  /\ textLine[p] <= Len(text[p])
             /\ boot[p].domain_id \in IntMin .. IntMax
             /\ started[p].domain \in IntMin .. IntMax
             /\ booted[p] # "loaded" => outcome[p] = "unopened"
  <2>1. /\ text[p] \in Seq(BootLine) /\ textLine[p] \in 0 .. Len(text[p])
        /\ boot[p] \in BootRecord
    BY <1>1 DEF ProcessOK, BootOK
  <2>2. Len(text[p]) \in Nat
    BY <2>1, LenProperties
  <2>3. textLine[p] <= Len(text[p])
    BY <2>1, <2>2
  <2>4. boot[p].domain_id \in IntMin .. IntMax
    BY <2>1 DEF BootRecord
  <2>5. started[p].domain \in IntMin .. IntMax
    <3>1. CASE started[p] = NotStarted
      BY <3>1, NothingStartedHasADomain
    <3>2. CASE started[p] # NotStarted
      <4>1. started[p] = [argv |-> RebuildArgv(boot[p]), domain |-> boot[p].domain_id]
        BY <1>1, <3>2 DEF ProcessOK, StartedOK
      <4>2. started[p].domain = boot[p].domain_id
        BY <4>1
      <4>3. QED BY <2>4, <4>2
    <3>3. QED BY <3>1, <3>2
  <2>6. booted[p] # "loaded" => outcome[p] = "unopened"
    BY <1>1 DEF ProcessOK, ArgsOK
  <2>7. QED BY <2>3, <2>4, <2>5, <2>6
<1>4. QED BY <1>1, <1>2, <1>3 DEF StartupTypeOK, DomainsOK

\* Parsing stays within the files and the domain within int, and no process
\* reads a topic file before its bootstrap file was accepted: parse_int,
\* parse_stream and parse_bindings.
THEOREM StartupTypes == StartupSpec => []StartupTypeOK
<1>1. StartupInv => StartupTypeOK
  BY TypesFollow
<1>2. QED BY <1>1, StartupAlways, PTL

LEMMA Largest ==
  ASSUME NEW n \in Nat, NEW S \in SUBSET (1 .. n), S # {}
  PROVE  Max(S) \in S
<1>1. IsWellFoundedOn({ss \in Nat \X Nat : ss[1] < ss[2]}, Nat)
  BY NatLessThanWellFounded DEF OpToRel
<1> DEFINE R == {ss \in Nat \X Nat : ss[1] < ss[2]}
           T == {k \in Nat : n - k \in S}
<1>2. \A k, l \in Nat : k < l => <<k, l>> \in R
  OBVIOUS
<1>3. T \in SUBSET Nat /\ T # {}
  <2>1. PICK x \in S : TRUE
    OBVIOUS
  <2>2. n - x \in Nat /\ n - (n - x) = x
    BY <2>1
  <2>3. n - x \in T
    BY <2>1, <2>2
  <2>4. QED BY <2>3
<1>4. \A x \in S : x \in Int /\ n - x \in Nat /\ n - x \in T
  <2>1. \A x \in S : x \in Int /\ n - x \in Nat /\ n - (n - x) = x
    OBVIOUS
  <2>2. QED BY <2>1
<1>5. \A k \in T : k \in Nat /\ n - k \in S
  OBVIOUS
<1> HIDE DEF R, T
<1>6. PICK k \in T : \A l \in T : <<l, k>> \notin R
  BY <1>1, <1>3, WFMin DEF R
<1>7. ASSUME NEW x \in S
      PROVE  n - k >= x
  <2>1. ~(n - x < k)
    BY <1>2, <1>4, <1>5, <1>6
  <2>2. QED BY <1>4, <1>5, <2>1
<1>8. n - k \in S
  BY <1>5
<1>9. Max(S) = n - k
  <2>1. S \in SUBSET Int
    OBVIOUS
  <2>2. QED BY <1>7, <1>8, <2>1, MaxIs
<1>10. QED BY <1>8, <1>9

\* The lines of a whole file, and the text of one that has the key.
LEMMA WholeFile ==
  ASSUME NEW f \in Seq(BootLine), NEW key
  PROVE  /\ SetBy(f, Len(f), key) = Entries(f, key)
         /\ Entries(f, key) = {} => TextOf(f, Len(f), key) = ""
         /\ Entries(f, key) # {} =>
              /\ Latest(f, Len(f), key) = f[Max(Entries(f, key))].value
              /\ TextOf(f, Len(f), key) = f[Max(Entries(f, key))].value.text
              /\ TextOf(f, Len(f), key) # ""
<1>1. DOMAIN f = 1 .. Len(f) /\ Len(f) \in Nat
  BY LenProperties
<1>2. SetBy(f, Len(f), key) = Entries(f, key)
  BY <1>1 DEF SetBy, Entries
<1>3. CASE Entries(f, key) # {}
  <2> DEFINE m == Max(Entries(f, key))
  <2>1. Entries(f, key) \in SUBSET (1 .. Len(f))
    BY <1>1 DEF Entries
  <2>2. m \in Entries(f, key)
    BY <1>1, <1>3, <2>1, Largest
  <2> HIDE DEF m
  <2>3. f[m].kind = "entry" /\ f[m] \in BootLine
    BY <2>1, <2>2, LineOf DEF Entries
  <2>4. f[m].value.text # ""
    BY <2>3 DEF BootLine, Value
  <2>5. QED BY <1>2, <1>3, <2>4 DEF TextOf, Latest, m
<1>4. QED BY <1>2, <1>3 DEF TextOf

\* The process has read both files when its transport is started.
LEMMA ReadBeforeStart ==
  ASSUME StartupInv, NEW p \in Parties, started[p] # NotStarted
  PROVE  /\ text[p] \in Seq(BootLine) /\ boot[p] \in BootRecord
         /\ boot[p].topic_config_file # ""
         /\ ReadSoFar(text[p], Len(text[p]), boot[p])
         /\ \E args \in Seq(STRING) : /\ ArgsSoFar(text[p], Len(text[p]), args)
                                       /\ boot[p].runtime_args = args \o CommandLine[p]
         /\ file[p] \in Seq(Line) /\ lineno[p] = Len(file[p])
         /\ file[p] \in Files[boot[p].topic_config_file]
         /\ \A i \in 1 .. Len(file[p]) : file[p][i].kind # "malformed"
         /\ boot[p].qos_xml_file # "" => xml[p] = XmlFiles[boot[p].qos_xml_file]
         /\ started[p] = [argv   |-> RebuildArgv(boot[p]),
                          domain |-> boot[p].domain_id]
<1>1. BootOK(p) /\ ArgsOK(p) /\ ConfigOK(p) /\ StartedOK(p)
  BY DEF StartupInv, ProcessOK
<1>2. outcome[p] = "ready" /\ booted[p] = "loaded" /\ textLine[p] = Len(text[p])
  BY <1>1 DEF StartedOK, ArgsOK, BootOK
<1>3. /\ text[p] \in Seq(BootLine) /\ boot[p] \in BootRecord
      /\ boot[p].topic_config_file # ""
      /\ ReadSoFar(text[p], Len(text[p]), boot[p])
  BY <1>1, <1>2 DEF BootOK
<1>4. \E args \in Seq(STRING) : /\ ArgsSoFar(text[p], Len(text[p]), args)
                                /\ boot[p].runtime_args = args \o CommandLine[p]
  BY <1>1, <1>2 DEF ArgsOK
<1>5. /\ file[p] \in Seq(Line) /\ lineno[p] = Len(file[p])
      /\ file[p] \in Files[boot[p].topic_config_file]
      /\ \A i \in 1 .. Len(file[p]) : file[p][i].kind # "malformed"
      /\ boot[p].qos_xml_file # "" => xml[p] = XmlFiles[boot[p].qos_xml_file]
  BY <1>1, <1>2 DEF ConfigOK
<1>6. QED BY <1>1, <1>3, <1>4, <1>5 DEF StartedOK

LEMMA GoodConfigFollows == StartupInv => StartedOnGoodConfig
<1> SUFFICES ASSUME StartupInv, NEW p \in Parties, started[p] # NotStarted
             PROVE  LET Named(key) == text[p][Max(Entries(text[p], key))].value.text IN
                    /\ BadEntries(text[p]) = {}
                    /\ Entries(text[p], "topic_config_file") # {}
                    /\ file[p] \in Files[Named("topic_config_file")]
                    /\ BadLines(file[p]) = {} /\ lineno[p] = Len(file[p])
                    /\ Entries(text[p], "qos_xml_file") # {} =>
                         xml[p] = XmlFiles[Named("qos_xml_file")]
  BY DEF StartedOnGoodConfig
<1>1. /\ text[p] \in Seq(BootLine) /\ boot[p].topic_config_file # ""
      /\ ReadSoFar(text[p], Len(text[p]), boot[p])
      /\ file[p] \in Seq(Line) /\ lineno[p] = Len(file[p])
      /\ file[p] \in Files[boot[p].topic_config_file]
      /\ \A i \in 1 .. Len(file[p]) : file[p][i].kind # "malformed"
      /\ boot[p].qos_xml_file # "" => xml[p] = XmlFiles[boot[p].qos_xml_file]
  BY ReadBeforeStart
<1>2. BadEntries(text[p]) = {} /\ BadLines(file[p]) = {}
  BY <1>1, LenProperties DEF BadEntries, BadLines, ReadSoFar
<1>3. /\ boot[p].topic_config_file = TextOf(text[p], Len(text[p]), "topic_config_file")
      /\ boot[p].qos_xml_file = TextOf(text[p], Len(text[p]), "qos_xml_file")
  BY <1>1 DEF ReadSoFar
<1>4. \A key : /\ Entries(text[p], key) = {} => TextOf(text[p], Len(text[p]), key) = ""
               /\ Entries(text[p], key) # {} =>
                    /\ TextOf(text[p], Len(text[p]), key)
                         = text[p][Max(Entries(text[p], key))].value.text
                    /\ TextOf(text[p], Len(text[p]), key) # ""
  BY <1>1, WholeFile
<1>5. QED BY <1>1, <1>2, <1>3, <1>4

\* pre_activate starts no transport before the bootstrap file, the topic file
\* it requires and the XML file it may name were all found good.
THEOREM StartsOnGoodConfig == StartupSpec => []StartedOnGoodConfig
<1>1. StartupInv => StartedOnGoodConfig
  BY GoodConfigFollows
<1>2. QED BY <1>1, StartupAlways, PTL

LEMMA SeqOfMore ==
  ASSUME NEW S, NEW T, S \subseteq T, NEW s \in Seq(S)
  PROVE  s \in Seq(T)
OBVIOUS

LEMMA ArgvRebuilt ==
  ASSUME NEW b \in BootRecord, NEW args \in Seq(STRING), NEW line \in Seq(STRING),
         b.runtime_args = args \o line
  PROVE  LET argv   == RebuildArgv(b)
             before == IF b.config_file = "" THEN 1 ELSE 3
         IN /\ Len(argv) = before + Len(args) + Len(line)
            /\ \A i \in 1 .. Len(args) : argv[before + i] = args[i]
            /\ \A i \in 1 .. Len(line) : argv[before + Len(args) + i] = line[i]
<1> DEFINE S       == Text \union {"pub_sub_open_dds", "-DCPSConfigFile"}
           name    == <<"pub_sub_open_dds">>
           options == IF b.config_file = "" THEN <<>>
                                            ELSE <<"-DCPSConfigFile", b.config_file>>
           head    == name \o options
           before  == IF b.config_file = "" THEN 1 ELSE 3
           argv    == RebuildArgv(b)
<1>1. b.config_file \in S /\ args \in Seq(S) /\ line \in Seq(S)
  <2>1. b.config_file \in Text
    BY DEF BootRecord
  <2>2. STRING \subseteq S /\ Text \subseteq S
    BY DEF Text
  <2> HIDE DEF S
  <2>3. QED BY <2>1, <2>2, SeqOfMore
<1>2. /\ name \in Seq(S) /\ Len(name) = 1
      /\ options \in Seq(S)
      /\ b.config_file = "" => Len(options) = 0
      /\ b.config_file # "" => Len(options) = 2
  <2>1. "pub_sub_open_dds" \in S /\ "-DCPSConfigFile" \in S
    OBVIOUS
  <2> HIDE DEF S
  <2>2. /\ <<"-DCPSConfigFile", b.config_file>> \in Seq(S)
        /\ Len(<<"-DCPSConfigFile", b.config_file>>) = 2
    BY <1>1, <2>1
  <2>3. name \in Seq(S) /\ Len(name) = 1
    BY <2>1
  <2>4. <<>> \in Seq(S) /\ Len(<<>>) = 0
    OBVIOUS
  <2>5. /\ options \in Seq(S)
        /\ b.config_file = "" => Len(options) = 0
        /\ b.config_file # "" => Len(options) = 2
    BY <2>2, <2>4
  <2>6. QED BY <2>3, <2>5
<1>3. argv = head \o (args \o line)
  BY DEF RebuildArgv
<1> HIDE DEF S, name, options, head, before, argv
<1>4. head \in Seq(S) /\ Len(head) = before
  <2>1. head \in Seq(S) /\ Len(head) = Len(name) + Len(options)
    BY <1>2, ConcatProperties DEF head
  <2>2. CASE b.config_file = ""
    <3>1. Len(options) = 0 /\ Len(name) = 1
      BY <1>2, <2>2
    <3>2. before = 1
      BY <2>2 DEF before
    <3>3. QED BY <2>1, <3>1, <3>2
  <2>3. CASE b.config_file # ""
    <3>1. Len(options) = 2 /\ Len(name) = 1
      BY <1>2, <2>3
    <3>2. before = 3
      BY <2>3 DEF before
    <3>3. QED BY <2>1, <3>1, <3>2
  <2>4. QED BY <2>2, <2>3
<1>5. /\ args \o line \in Seq(STRING) /\ Len(args \o line) = Len(args) + Len(line)
      /\ \A i \in 1 .. Len(args) + Len(line) :
           (args \o line)[i] = IF i <= Len(args) THEN args[i] ELSE line[i - Len(args)]
  BY ConcatProperties
<1> DEFINE tail == args \o line
<1>6. Len(args) \in Nat /\ Len(line) \in Nat /\ before \in Nat /\ tail \in Seq(S)
  BY <1>1, ConcatProperties, LenProperties DEF before
<1> HIDE DEF tail
<1>7. /\ Len(argv) = before + Len(tail)
      /\ \A i \in 1 .. before + Len(tail) :
           argv[i] = IF i <= before THEN head[i] ELSE tail[i - before]
  BY <1>3, <1>4, <1>6, ConcatProperties DEF tail
<1>8. Len(tail) = Len(args) + Len(line)
  BY <1>5 DEF tail
<1>9. ASSUME NEW i \in 1 .. Len(args) + Len(line)
      PROVE  argv[before + i] = IF i <= Len(args) THEN args[i] ELSE line[i - Len(args)]
  <2>1. before + i \in 1 .. before + Len(tail) /\ ~(before + i <= before)
        /\ (before + i) - before = i
    BY <1>6, <1>8
  <2>2. argv[before + i] = tail[i]
    BY <1>7, <2>1
  <2>3. QED BY <1>5, <2>2 DEF tail
<1>10. \A i \in 1 .. Len(args) : argv[before + i] = args[i]
  BY <1>6, <1>9
<1>11. ASSUME NEW i \in 1 .. Len(line)
       PROVE  argv[before + Len(args) + i] = line[i]
  <2>1. /\ Len(args) + i \in 1 .. Len(args) + Len(line) /\ ~(Len(args) + i <= Len(args))
        /\ (Len(args) + i) - Len(args) = i
        /\ before + (Len(args) + i) = before + Len(args) + i
    BY <1>6
  <2>2. QED BY <1>9, <2>1
<1>12. Len(argv) = before + Len(args) + Len(line)
  BY <1>6, <1>7, <1>8
<1>13. QED BY <1>10, <1>11, <1>12 DEF before, argv

LEMMA AsConfiguredFollows == StartupInv => StartedAsConfigured
<1> SUFFICES ASSUME StartupInv, NEW p \in Parties, started[p] # NotStarted
             PROVE  LET domains == Entries(text[p], "domain_id")
                        args    == Entries(text[p], "runtime_arg")
                        argv    == started[p].argv
                        before  == IF Entries(text[p], "config_file") = {} THEN 1 ELSE 3
                        after   == before + Cardinality(args)
                    IN /\ started[p].domain =
                            IF domains = {} THEN 42 ELSE text[p][Max(domains)].value.number
                       /\ Len(argv) = after + Len(CommandLine[p])
                       /\ \A i \in args :
                            argv[before + Cardinality({j \in args : j <= i})]
                              = text[p][i].value.text
                       /\ \A i \in DOMAIN CommandLine[p] :
                            argv[after + i] = CommandLine[p][i]
  BY DEF StartedAsConfigured
<1> DEFINE f      == text[p]
           b      == boot[p]
           line   == CommandLine[p]
           lines  == Entries(f, "runtime_arg")
           argv   == started[p].argv
           before == IF Entries(f, "config_file") = {} THEN 1 ELSE 3
<1>1. /\ f \in Seq(BootLine) /\ b \in BootRecord /\ ReadSoFar(f, Len(f), b)
      /\ started[p] = [argv |-> RebuildArgv(b), domain |-> b.domain_id]
  BY ReadBeforeStart
<1>2. PICK args \in Seq(STRING) : ArgsSoFar(f, Len(f), args) /\ b.runtime_args = args \o line
  BY ReadBeforeStart
<1>3. line \in Seq(STRING) /\ Len(line) \in Nat /\ DOMAIN line = 1 .. Len(line)
  BY CommandLineAssumption, LenProperties
<1>4. started[p].domain = IF Entries(f, "domain_id") = {} THEN 42
                            ELSE f[Max(Entries(f, "domain_id"))].value.number
  <2>1. b.domain_id = IF SetBy(f, Len(f), "domain_id") = {} THEN 42
                        ELSE Latest(f, Len(f), "domain_id").number
    BY <1>1 DEF ReadSoFar
  <2>2. started[p].domain = b.domain_id
    BY <1>1
  <2> HIDE DEF f, b
  <2>3. QED BY <1>1, <2>1, <2>2, WholeFile
<1>5. /\ lines = SetBy(f, Len(f), "runtime_arg") /\ Len(f) \in Nat
      /\ b.config_file = "" <=> Entries(f, "config_file") = {}
  BY <1>1, WholeFile, LenProperties DEF ReadSoFar
<1>6. /\ Len(args) = Cardinality(lines)
      /\ \A i \in lines : args[Cardinality({j \in lines : j <= i})] = f[i].value.text
  BY <1>2, <1>5 DEF ArgsSoFar
<1>7. /\ Len(argv) = before + Len(args) + Len(line)
      /\ \A i \in 1 .. Len(args) : argv[before + i] = args[i]
      /\ \A i \in 1 .. Len(line) : argv[before + Len(args) + i] = line[i]
  <2>1. argv = RebuildArgv(b)
    BY <1>1
  <2> HIDE DEF b, line, argv
  <2>2. LET again == IF b.config_file = "" THEN 1 ELSE 3
        IN /\ Len(argv) = again + Len(args) + Len(line)
           /\ \A i \in 1 .. Len(args) : argv[again + i] = args[i]
           /\ \A i \in 1 .. Len(line) : argv[again + Len(args) + i] = line[i]
    BY <1>1, <1>2, <1>3, <2>1, ArgvRebuilt
  <2>3. QED BY <1>5, <2>2
<1>8. ASSUME NEW i \in lines
      PROVE  Cardinality({j \in lines : j <= i}) \in 1 .. Len(args)
  <2>1. i \in Int
    BY <1>1, LenProperties DEF Entries
  <2> HIDE DEF f, lines
  <2>2. /\ Cardinality({j \in lines : j <= i}) \in Nat
        /\ Cardinality({j \in lines : j <= i}) <= Cardinality(lines)
        /\ Cardinality({j \in lines : j <= i}) >= 1
    BY <1>5, <2>1, SetByFinite
  <2>3. Len(args) \in Nat
    BY LenProperties
  <2>4. QED BY <1>6, <2>2, <2>3
<1> HIDE DEF f, b, line, lines, argv, before
<1>9. \A i \in lines : argv[before + Cardinality({j \in lines : j <= i})] = f[i].value.text
  BY <1>6, <1>7, <1>8
<1>10. QED BY <1>3, <1>4, <1>6, <1>7, <1>9 DEF f, line, lines, argv, before

\* The transport gets the domain of the last domain_id line, and behind its
\* configuration file the arguments of the file in their order and then the
\* command line: parse_stream, main and rebuild_argv.
THEOREM StartsAsConfigured == StartupSpec => []StartedAsConfigured
<1>1. StartupInv => StartedAsConfigured
  BY AsConfiguredFollows
<1>2. QED BY <1>1, StartupAlways, PTL

-----------------------------------------------------------------------------
(* The QoS of two processes that bind a topic alike.                       *)

LEMMA ProfileMatchesItself ==
  ASSUME NEW profile \in QosProfile
  PROVE  Compatible(ApplyQos(profile, WriterDefaults), ApplyQos(profile, ReaderDefaults))
BY DEF QosProfile, Compatible, ApplyQos, ApplyExtras, WriterDefaults, ReaderDefaults,
       DdsDefaults, Infinite

LEMMA BuiltinsAreProfiles ==
  DefaultProfile \in QosProfile /\ \A n \in DOMAIN Builtin : Builtin[n] \in QosProfile
<1>1. ASSUME NEW reliable \in BOOLEAN, NEW durable \in BOOLEAN, NEW keepAll \in BOOLEAN,
             NEW depth \in Nat
      PROVE  Profile(reliable, durable, keepAll, depth) \in QosProfile
  BY DEF Profile, QosProfile
<1>2. /\ Builtin.best_effort \in QosProfile /\ Builtin.reliable \in QosProfile
      /\ Builtin.reliable_transient \in QosProfile /\ Builtin.event_bus \in QosProfile
      /\ Builtin.latched \in QosProfile /\ Builtin.streaming \in QosProfile
      /\ Builtin.persistent \in QosProfile
  BY <1>1 DEF Builtin
<1>3. Builtin.heartbeat \in QosProfile
  <2> DEFINE base == Profile(FALSE, FALSE, FALSE, 1)
  <2>1. Builtin.heartbeat = [base EXCEPT !.deadline = 3000]
    BY DEF Builtin
  <2>2. base \in QosProfile
    BY DEF Profile, QosProfile
  <2> HIDE DEF base
  <2>3. ASSUME NEW q \in QosProfile, NEW d \in Nat
        PROVE  [q EXCEPT !.deadline = d] \in QosProfile
    BY DEF QosProfile
  <2>4. QED BY <2>1, <2>2, <2>3
<1>4. Builtin.critical \in QosProfile
  <2> DEFINE base          == Profile(TRUE, FALSE, TRUE, 0)
             With(q, l, m) == [q EXCEPT !.lease = l, !.manual = TRUE, !.maxSamples = m]
  <2>1. Builtin.critical = With(base, 5000, 1000)
    BY DEF Builtin
  <2>2. base \in QosProfile
    BY DEF Profile, QosProfile
  <2>3. ASSUME NEW q \in QosProfile, NEW l \in Nat, NEW m \in Nat
        PROVE  With(q, l, m) \in QosProfile
    BY DEF QosProfile
  <2> HIDE DEF base, With
  <2>4. QED BY <2>1, <2>2, <2>3
<1>5. DOMAIN Builtin = {"best_effort", "reliable", "reliable_transient", "event_bus",
                        "latched", "streaming", "persistent", "heartbeat", "critical"}
  BY DEF Builtin
<1>6. ASSUME NEW n \in DOMAIN Builtin
      PROVE  Builtin[n] \in QosProfile
  <2> HIDE DEF Builtin
  <2>1. QED BY <1>2, <1>3, <1>4, <1>5
<1>7. QED BY <1>2, <1>6 DEF DefaultProfile

LEMMA MatchFollows == XmlPartsMatch /\ StartupInv => SameReferenceMatches
<1> SUFFICES ASSUME XmlPartsMatch, StartupInv, NEW p \in Parties, NEW q \in Parties,
                    NEW t \in Topics, BothBind(p, q, t), xml[p] = xml[q]
             PROVE  Compatible(WriterQosFor(p, t), ReaderQosFor(q, t))
  BY DEF SameReferenceMatches
<1> DEFINE ref == bindings[p][t]
           w   == WriterQosFor(p, t)
           r   == ReaderQosFor(q, t)
<1>1. t \in DOMAIN bindings[p] /\ t \in DOMAIN bindings[q] /\ bindings[q][t] = ref
  BY DEF BothBind
<1>2. ref \in Reference
  BY <1>1 DEF StartupInv, ProcessOK, ConfigOK
<1>3. xml[p] = NoBindings \/ \E n \in DOMAIN XmlFiles : xml[p] = XmlFiles[n]
  BY DEF StartupInv, ProcessOK, ConfigOK
<1>4. CASE ref.xml /\ ref.name \in DOMAIN xml[p]
  <2>1. DOMAIN NoBindings = {}
    BY DEF NoBindings
  <2>2. /\ {"writer", "reader"} \subseteq DOMAIN xml[p][ref.name]
        /\ Compatible(Over(WriterDefaults, xml[p][ref.name].writer),
                      Over(ReaderDefaults, xml[p][ref.name].reader))
    BY <1>3, <1>4, <2>1 DEF XmlPartsMatch
  <2>3. w = Over(WriterDefaults, xml[p][ref.name].writer)
    BY <1>1, <1>4, <2>2 DEF WriterQosFor, HasXmlPart
  <2>4. r = Over(ReaderDefaults, xml[p][ref.name].reader)
    BY <1>1, <1>4, <2>2 DEF ReaderQosFor, HasXmlPart
  <2>5. QED BY <2>2, <2>3, <2>4
<1>5. CASE ~ref.xml /\ ref.name \in DOMAIN Builtin
  <2>1. w = ApplyQos(Builtin[ref.name], WriterDefaults)
    BY <1>1, <1>5 DEF WriterQosFor
  <2>2. r = ApplyQos(Builtin[ref.name], ReaderDefaults)
    BY <1>1, <1>5 DEF ReaderQosFor
  <2>3. QED BY <1>5, <2>1, <2>2, BuiltinsAreProfiles, ProfileMatchesItself
<1>6. CASE /\ ~(ref.xml /\ ref.name \in DOMAIN xml[p])
           /\ ~(~ref.xml /\ ref.name \in DOMAIN Builtin)
  <2>1. w = ApplyQos(DefaultProfile, WriterDefaults)
    BY <1>1, <1>6 DEF WriterQosFor, HasXmlPart
  <2>2. r = ApplyQos(DefaultProfile, ReaderDefaults)
    BY <1>1, <1>6 DEF ReaderQosFor, HasXmlPart
  <2>3. QED BY <2>1, <2>2, BuiltinsAreProfiles, ProfileMatchesItself
<1>7. QED BY <1>4, <1>5, <1>6

\* Two processes that bind a topic to the same reference, and have the same XML
\* file or both none, can talk on it, whatever their files say and whatever
\* writer_qos_for and reader_qos_for have to fall back on, as long as each
\* profile of an XML file gives both parts and these match.
THEOREM SameReferenceTalks == XmlPartsMatch /\ StartupSpec => []SameReferenceMatches
<1>1. XmlPartsMatch /\ StartupInv => SameReferenceMatches
  BY MatchFollows
<1>2. XmlPartsMatch /\ []StartupInv => []SameReferenceMatches
  <2>1. SUFFICES ASSUME XmlPartsMatch
                 PROVE  []StartupInv => []SameReferenceMatches
    OBVIOUS
  <2>2. StartupInv => SameReferenceMatches
    BY <1>1, <2>1
  <2>3. QED BY <2>2, PTL
<1>3. QED BY <1>2, StartupAlways, PTL

-----------------------------------------------------------------------------
(* XML profiles that mirror built-in ones.                                 *)

\* Overriding the defaults with what a profile states is applying it, when it
\* leaves the optional knobs alone and its history has a depth.
LEMMA StatedIsApplied ==
  ASSUME NEW profile \in QosProfile, NEW defaults \in QosProfile,
         ~profile.keepAll, profile.deadline = 0, profile.lease = 0, profile.maxSamples = 0
  PROVE  Over(defaults, Stated(profile)) = ApplyQos(profile, defaults)
<1> DEFINE fields == {"reliable", "durable", "keepAll", "depth",
                      "deadline", "lease", "manual", "maxSamples"}
           left   == Over(defaults, Stated(profile))
           right  == ApplyQos(profile, defaults)
<1>1. DOMAIN defaults = fields
  BY DEF QosProfile
<1>2. right = [defaults EXCEPT !.reliable = profile.reliable,
                               !.durable  = profile.durable,
                               !.keepAll  = FALSE,
                               !.depth    = profile.depth]
  <2> DEFINE basic == [defaults EXCEPT !.reliable = profile.reliable,
                                       !.durable  = profile.durable,
                                       !.keepAll  = FALSE,
                                       !.depth    = profile.depth]
  <2>1. right = ApplyExtras(profile, basic)
    BY DEF ApplyQos, QosProfile
  <2>2. basic \in QosProfile
    BY DEF QosProfile
  <2> HIDE DEF basic
  <2>3. ApplyExtras(profile, basic) = basic
    <3>1. ~(profile.deadline > 0) /\ ~(profile.lease > 0) /\ ~(profile.maxSamples > 0)
      OBVIOUS
    <3>2. ApplyExtras(profile, basic) = [basic EXCEPT !.deadline   = basic.deadline,
                                                      !.manual     = basic.manual,
                                                      !.lease      = basic.lease,
                                                      !.maxSamples = basic.maxSamples]
      BY <3>1, Zenon DEF ApplyExtras
    <3>3. QED BY <2>2, <3>2 DEF QosProfile
  <2>4. QED BY <2>1, <2>3 DEF basic
<1>3. left = [k \in fields |-> IF k \in {"reliable", "durable", "keepAll", "depth"}
                                 THEN profile[k] ELSE defaults[k]]
  BY <1>1 DEF Stated, Over
<1>4. right = [k \in fields |-> right[k]]
  BY <1>1, <1>2
<1>5. ASSUME NEW k \in fields PROVE left[k] = right[k]
  BY <1>1, <1>2, <1>3 DEF QosProfile
<1>6. QED BY <1>3, <1>4, <1>5

LEMMA MirroredBuiltins ==
  ASSUME NEW m \in Mirrors
  PROVE  /\ Builtin[m[2]] \in QosProfile /\ ~Builtin[m[2]].keepAll
         /\ Builtin[m[2]].deadline = 0 /\ Builtin[m[2]].lease = 0
         /\ Builtin[m[2]].maxSamples = 0
BY BuiltinsAreProfiles DEF Mirrors, Builtin, Profile

LEMMA MirrorFollows == XmlStatesMirrors /\ StartupInv => XmlMirrorsBuiltin
<1> SUFFICES ASSUME XmlStatesMirrors, StartupInv, NEW p \in Parties,
                    NEW t \in DOMAIN bindings[p], NEW m \in Mirrors,
                    bindings[p][t] = [xml |-> TRUE, name |-> m[1]], xml[p] # NoBindings
             PROVE  /\ WriterQosFor(p, t) = ApplyQos(Builtin[m[2]], WriterDefaults)
                    /\ ReaderQosFor(p, t) = ApplyQos(Builtin[m[2]], ReaderDefaults)
  BY DEF XmlMirrorsBuiltin
<1> DEFINE stated == Stated(Builtin[m[2]])
<1>1. PICK n \in DOMAIN XmlFiles : xml[p] = XmlFiles[n]
  BY DEF StartupInv, ProcessOK, ConfigOK
<1>2. /\ m[1] \in DOMAIN xml[p]
      /\ xml[p][m[1]] = [writer |-> stated, reader |-> stated]
  BY <1>1 DEF XmlStatesMirrors
<1> HIDE DEF stated
<1>3. /\ HasXmlPart(p, m[1], "writer") /\ HasXmlPart(p, m[1], "reader")
      /\ xml[p][m[1]].writer = stated /\ xml[p][m[1]].reader = stated
  BY <1>2 DEF HasXmlPart
<1>4. /\ WriterQosFor(p, t) = Over(WriterDefaults, stated)
      /\ ReaderQosFor(p, t) = Over(ReaderDefaults, stated)
  BY <1>3 DEF WriterQosFor, ReaderQosFor
<1>5. WriterDefaults \in QosProfile /\ ReaderDefaults \in QosProfile
  <2>1. Infinite \in Nat
    BY SMT DEF Infinite
  <2>2. DdsDefaults \in QosProfile
    BY <2>1 DEF DdsDefaults, QosProfile
  <2>3. ASSUME NEW q \in QosProfile PROVE [q EXCEPT !.reliable = FALSE] \in QosProfile
    BY DEF QosProfile
  <2>4. QED BY <2>2, <2>3 DEF WriterDefaults, ReaderDefaults
<1>6. QED BY <1>4, <1>5, MirroredBuiltins, StatedIsApplied DEF stated

\* A topic bound to an XML profile gets the QoS of the built-in profile it
\* mirrors, field by field, as long as the XML file states what the built-in
\* has (writer_qos_for, reader_qos_for; apply_writer_qos, apply_reader_qos).
THEOREM MirrorsBuiltin == XmlStatesMirrors /\ StartupSpec => []XmlMirrorsBuiltin
<1>1. XmlStatesMirrors /\ []StartupInv => []XmlMirrorsBuiltin
  <2>1. SUFFICES ASSUME XmlStatesMirrors
                 PROVE  []StartupInv => []XmlMirrorsBuiltin
    OBVIOUS
  <2>2. StartupInv => XmlMirrorsBuiltin
    BY <2>1, MirrorFollows
  <2>3. QED BY <2>2, PTL
<1>2. QED BY <1>1, StartupAlways, PTL
=============================================================================
