---------------------------- MODULE TopicConfig ----------------------------
(***************************************************************************)
(* Topic policy: parsing a topic file (TopicConfig::load_from_file), the   *)
(* DDS-XML profiles, and resolving a topic to writer and reader QoS        *)
(* (writer_qos_for, reader_qos_for).                                       *)
(*                                                                         *)
(* Each party, a process with a Service, loads a file of its own, and a    *)
(* writer of one talks to a reader of another only if DDS finds their QoS  *)
(* compatible.  Module Startup says when each step is taken.               *)
(***************************************************************************)
EXTENDS Qos, Integers, Sequences, SequencesExt, TLC

CONSTANTS
  Parties,   \* processes that load a topic file
  Topics,    \* topic names
  Files,     \* the topic files that can be opened: for each name, the contents
             \* the file may have, sequences of lines
  XmlFiles   \* the DDS-XML files: names to profiles, each with a writer and a
             \* reader part

-----------------------------------------------------------------------------
(* The state of loading, per party.                                        *)

VARIABLES
  file,      \* the lines of the party's topic file
  lineno,    \* lines read so far
  bindings,  \* bindings_: topics to profile references
  xml,       \* what the XML loader knows; no profile when none is loaded
  outcome    \* unopened, parsing, loaded, ready or threw

configVars == <<file, lineno, bindings, xml, outcome>>

\* A line holds nothing but a comment, is malformed (no '=', or an empty
\* name), or binds a topic to a reference, to XML or built in.
Reference == [xml : BOOLEAN, name : STRING]
Blank     == [kind |-> "blank"]
Malformed == [kind |-> "malformed"]
Binds(t, ref) == [kind |-> "binds", topic |-> t, ref |-> ref]
Line == [kind : {"blank", "malformed"}]
          \union [kind : {"binds"}, topic : Topics, ref : Reference]

ASSUME FilesAssumption ==
  \A n \in DOMAIN Files : \A f \in Files[n] : f \in Seq(Line)

NoBindings == [t \in {} |-> Blank]

ConfigInit ==
  /\ file = [p \in Parties |-> <<>>]
  /\ lineno = [p \in Parties |-> 0]
  /\ bindings = [p \in Parties |-> NoBindings]
  /\ xml = [p \in Parties |-> NoBindings]
  /\ outcome = [p \in Parties |-> "unopened"]

\* load_from_file throws when the file can not be opened.
LoadFromFile(p, name) ==
  /\ outcome[p] = "unopened"
  /\ \/ /\ name \in DOMAIN Files
        /\ \E f \in Files[name] : file' = [file EXCEPT ![p] = f]
        /\ outcome' = [outcome EXCEPT ![p] = "parsing"]
     \/ /\ name \notin DOMAIN Files
        /\ outcome' = [outcome EXCEPT ![p] = "threw"]
        /\ UNCHANGED file
  /\ UNCHANGED <<lineno, bindings, xml>>

\* A topic bound twice keeps the later profile.
Bind(known, topic, ref) ==
  [t \in DOMAIN known \union {topic} |-> IF t = topic THEN ref ELSE known[t]]

\* One line of parse_bindings.
ReadLine(p) ==
  /\ outcome[p] = "parsing" /\ lineno[p] < Len(file[p])
  /\ LET line == file[p][lineno[p] + 1] IN
     /\ outcome' = [outcome EXCEPT ![p] = IF line.kind = "malformed" THEN "threw" ELSE @]
     /\ bindings' = [bindings EXCEPT ![p] =
                       IF line.kind = "binds" THEN Bind(@, line.topic, line.ref) ELSE @]
  /\ lineno' = [lineno EXCEPT ![p] = @ + 1]
  /\ UNCHANGED <<file, xml>>

EndOfFile(p) ==
  /\ outcome[p] = "parsing" /\ lineno[p] = Len(file[p])
  /\ outcome' = [outcome EXCEPT ![p] = "loaded"]
  /\ UNCHANGED <<file, lineno, bindings, xml>>

\* use_xml_qos_file throws when the file does not parse or the build has no
\* XML support.
UseXmlQosFile(p, name) ==
  /\ outcome[p] = "loaded"
  /\ \/ /\ name \in DOMAIN XmlFiles
        /\ xml' = [xml EXCEPT ![p] = XmlFiles[name]]
        /\ outcome' = [outcome EXCEPT ![p] = "ready"]
     \/ outcome' = [outcome EXCEPT ![p] = "threw"] /\ UNCHANGED xml
  /\ UNCHANGED <<file, lineno, bindings>>

\* No XML file is asked for.
NoXmlQosFile(p) ==
  /\ outcome[p] = "loaded"
  /\ outcome' = [outcome EXCEPT ![p] = "ready"]
  /\ UNCHANGED <<file, lineno, bindings, xml>>

-----------------------------------------------------------------------------
(* Resolution.  Every miss falls back to the default with a warning: an    *)
(* unbound topic, an unknown built-in name, an XML reference without an    *)
(* XML file or without the profile's part for this kind of endpoint.       *)

HasXmlPart(p, name, part) ==
  name \in DOMAIN xml[p] /\ part \in DOMAIN xml[p][name]

\* The settings of an XML part override the DDS defaults filled in before.
Over(defaults, part) ==
  [k \in DOMAIN defaults |-> IF k \in DOMAIN part THEN part[k] ELSE defaults[k]]

\* Mutant: writers fall back to best effort.
WriterQosForBestEffort(p, t) ==
  LET ref == bindings[p][t] IN
  CASE t \in DOMAIN bindings[p] /\ ref.xml /\ HasXmlPart(p, ref.name, "writer")
         -> Over(WriterDefaults, xml[p][ref.name].writer)
    [] t \in DOMAIN bindings[p] /\ ~ref.xml /\ ref.name \in DOMAIN Builtin
         -> ApplyQos(Builtin[ref.name], WriterDefaults)
    [] OTHER -> ApplyQos(Builtin.best_effort, WriterDefaults)

\* writer_qos_for, translated: XML settings or a built-in profile are applied
\* to the DDS defaults.
WriterQosFor(p, t) ==
  LET ref == bindings[p][t] IN
  CASE t \in DOMAIN bindings[p] /\ ref.xml /\ HasXmlPart(p, ref.name, "writer")
         -> Over(WriterDefaults, xml[p][ref.name].writer)
    [] t \in DOMAIN bindings[p] /\ ~ref.xml /\ ref.name \in DOMAIN Builtin
         -> ApplyQos(Builtin[ref.name], WriterDefaults)
    [] OTHER -> ApplyQos(DefaultProfile, WriterDefaults)

ReaderQosFor(p, t) ==
  LET ref == bindings[p][t] IN
  CASE t \in DOMAIN bindings[p] /\ ref.xml /\ HasXmlPart(p, ref.name, "reader")
         -> Over(ReaderDefaults, xml[p][ref.name].reader)
    [] t \in DOMAIN bindings[p] /\ ~ref.xml /\ ref.name \in DOMAIN Builtin
         -> ApplyQos(Builtin[ref.name], ReaderDefaults)
    [] OTHER -> ApplyQos(DefaultProfile, ReaderDefaults)

-----------------------------------------------------------------------------
ConfigTypeOK ==
  /\ \A p \in Parties :
       /\ file[p] = <<>> \/ \E n \in DOMAIN Files : file[p] \in Files[n]
       /\ lineno[p] \in 0 .. Len(file[p])
       /\ DOMAIN bindings[p] \subseteq Topics
       /\ \A t \in DOMAIN bindings[p] : bindings[p][t] \in Reference
       /\ xml[p] = NoBindings \/ \E n \in DOMAIN XmlFiles : xml[p] = XmlFiles[n]
  /\ outcome \in [Parties -> {"unopened", "parsing", "loaded", "ready", "threw"}]

BadLines(f) == {i \in DOMAIN f : f[i].kind = "malformed"}

\* What it takes of an XML file: each profile has both parts, and a writer of
\* the one matches a reader of the other.
XmlPartsMatch ==
  \A n \in DOMAIN XmlFiles : \A name \in DOMAIN XmlFiles[n] :
    LET profile == XmlFiles[n][name] IN
    /\ {"writer", "reader"} \subseteq DOMAIN profile
    /\ Compatible(Over(WriterDefaults, profile.writer),
                  Over(ReaderDefaults, profile.reader))

BothBind(p, q, t) ==
  /\ outcome[p] = "ready" /\ outcome[q] = "ready"
  /\ t \in DOMAIN bindings[p] /\ t \in DOMAIN bindings[q]
  /\ bindings[p][t] = bindings[q][t]

\* Two processes whose files name the same profile for a topic, and that both
\* have, or both lack, the XML file, can talk on it in both directions.  The
\* fallbacks never split them, whatever the lines, the order and the names.
SameReferenceMatches ==
  \A p, q \in Parties : \A t \in Topics :
    BothBind(p, q, t) /\ xml[p] = xml[q] =>
      Compatible(WriterQosFor(p, t), ReaderQosFor(q, t))

\* The documented pairs of an XML profile and the built-in it mirrors:
\* "flipping the binding type does not change runtime behaviour".
Mirrors == {<<"RadarTrackStreaming", "streaming">>,
            <<"ComponentStatusDurable", "reliable_transient">>}

\* What it takes of an XML file: it has these profiles, and both parts of each
\* state the built-in's reliability, durability and history, and no more.
Stated(profile) ==
  [k \in {"reliable", "durable", "keepAll", "depth"} |-> profile[k]]
XmlStatesMirrors ==
  \A n \in DOMAIN XmlFiles : \A m \in Mirrors :
    /\ m[1] \in DOMAIN XmlFiles[n]
    /\ XmlFiles[n][m[1]] = [writer |-> Stated(Builtin[m[2]]),
                            reader |-> Stated(Builtin[m[2]])]

\* A topic resolved through an XML profile that mirrors a built-in one gets
\* exactly the QoS the built-in would have given it, all fields included.
XmlMirrorsBuiltin ==
  \A p \in Parties : \A t \in DOMAIN bindings[p] : \A m \in Mirrors :
    bindings[p][t] = [xml |-> TRUE, name |-> m[1]] /\ xml[p] # NoBindings =>
      /\ WriterQosFor(p, t) = ApplyQos(Builtin[m[2]], WriterDefaults)
      /\ ReaderQosFor(p, t) = ApplyQos(Builtin[m[2]], ReaderDefaults)
=============================================================================
