-------------------------- MODULE BootstrapConfig --------------------------
(***************************************************************************)
(* The bootstrap file of a service (ServiceBootstrapConfig::load_from_file *)
(* in service_bootstrap_config.cpp): '<key> = <value>' lines that name the *)
(* domain, the runtime's configuration file and arguments, the topic file  *)
(* and the DDS-XML file.  One parser per party.                            *)
(***************************************************************************)
EXTENDS TopicConfig

CONSTANTS
  BootFiles,  \* for each party, the bootstrap files it may be given
  IntMin,     \* the range of int
  IntMax

ASSUME IntAssumption == IntMin \in Int /\ IntMax \in Int /\ IntMin <= 0 /\ 42 <= IntMax

\* A value is a text, and an integer when all of the text is one: "43 x" is
\* not.  The integer may be outside the range of int.
Word(s)   == [text |-> s, integer |-> FALSE, number |-> 0]
Number(n) == [text |-> ToString(n), integer |-> TRUE, number |-> n]

\* A line holds nothing but a comment, is malformed (no '=', or an empty key or
\* value), or has a key and a value.
Entry(key, value) == [kind |-> "entry", key |-> key, value |-> value]
Value    == [text : STRING \ {""}, integer : BOOLEAN, number : Int]
BootLine == [kind : {"blank", "malformed"}]
              \union [kind : {"entry"}, key : STRING, value : Value]

ASSUME BootFilesAssumption ==
  \A p \in Parties : \A f \in BootFiles[p] : f \in Seq(BootLine)

VARIABLES
  text,      \* the lines of the party's bootstrap file
  textLine,  \* lines read so far
  boot,      \* the ServiceBootstrapConfig built so far
  booted     \* unopened, parsing, loaded or threw

bootVars == <<text, textLine, boot, booted>>

Defaults ==
  [domain_id |-> 42, runtime_args |-> <<>>, config_file |-> "",
   topic_config_file |-> "", qos_xml_file |-> ""]

BootInit ==
  /\ text = [p \in Parties |-> <<>>]
  /\ textLine = [p \in Parties |-> 0]
  /\ boot = [p \in Parties |-> Defaults]
  /\ booted = [p \in Parties |-> "unopened"]

\* The application names one file; it may not be there.
OpenBootFile(p) ==
  /\ booted[p] = "unopened"
  /\ \/ /\ \E f \in BootFiles[p] : text' = [text EXCEPT ![p] = f]
        /\ booted' = [booted EXCEPT ![p] = "parsing"]
     \/ /\ booted' = [booted EXCEPT ![p] = "threw"]
        /\ UNCHANGED text
  /\ UNCHANGED <<textLine, boot>>

\* Mutant: the range of int is not looked at.
ParseIntWraps(value) == value.integer

\* parse_int: extracting an int fails beyond the type's range, and nothing but
\* the int may be there.
ParseInt(value) == value.integer /\ value.number \in IntMin .. IntMax

KnownKeys ==
  {"domain_id", "runtime_arg", "config_file", "topic_config_file", "qos_xml_file"}

BadEntry(line) ==
  \/ line.kind = "malformed"
  \/ line.kind = "entry" /\ line.key \notin KnownKeys
  \/ line.kind = "entry" /\ line.key = "domain_id" /\ ~ParseInt(line.value)

\* Mutant: the domain_id is not stored.
SetEntryNoDomain(b, line) ==
  CASE line.key = "domain_id"   -> b
    [] line.key = "runtime_arg" -> [b EXCEPT !.runtime_args = Append(@, line.value.text)]
    [] OTHER                    -> [b EXCEPT ![line.key] = line.value.text]

SetEntry(b, line) ==
  CASE line.key = "domain_id"   -> [b EXCEPT !.domain_id = line.value.number]
    [] line.key = "runtime_arg" -> [b EXCEPT !.runtime_args = Append(@, line.value.text)]
    [] OTHER                    -> [b EXCEPT ![line.key] = line.value.text]

\* One turn of the loop of parse_stream.
ReadEntry(p) ==
  /\ booted[p] = "parsing" /\ textLine[p] < Len(text[p])
  /\ LET line == text[p][textLine[p] + 1] IN
     /\ booted' = [booted EXCEPT ![p] = IF BadEntry(line) THEN "threw" ELSE @]
     /\ boot' = [boot EXCEPT ![p] =
                   IF BadEntry(line) \/ line.kind = "blank" THEN @
                                                            ELSE SetEntry(@, line)]
  /\ textLine' = [textLine EXCEPT ![p] = @ + 1]
  /\ UNCHANGED text

\* topic_config_file is required.
EndOfBootFile(p) ==
  /\ booted[p] = "parsing" /\ textLine[p] = Len(text[p])
  /\ booted' = [booted EXCEPT ![p] =
                  IF boot[p].topic_config_file = "" THEN "threw" ELSE "loaded"]
  /\ UNCHANGED <<text, textLine, boot>>

LoadBootFile(p) == OpenBootFile(p) \/ ReadEntry(p) \/ EndOfBootFile(p)
=============================================================================
