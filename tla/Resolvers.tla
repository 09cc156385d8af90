----------------------------- MODULE Resolvers -----------------------------
(***************************************************************************)
(* The resolvers of crates/schemaforge-resolver: documents are registered  *)
(* under URIs, in any spelling, and asked for by references; a file        *)
(* resolver goes to the disk for what is not registered, a network         *)
(* resolver denies, and a limiting one measures what it passes on.         *)
(* FileLoad has the steps of a load; here it is one.                       *)
(***************************************************************************)
EXTENDS JsonTree, Rfc3986

CONSTANTS
  Uris,             (* what documents are registered under                 *)
  Bases, References,(* what is asked for                                   *)
  Docs,             (* JSON documents to register                          *)
  NotJson,          (* a text that does not parse                          *)
  BaseDir,          (* FileResolver.base_dir, as segments                  *)
  Disk,             (* file paths, as segments, to their texts             *)
  MaxJsonBytes, MaxDepth,
  MaxRegistrations  (* bound: register calls that take effect              *)

ASSUME ResolversAssumption ==
  /\ NotJson \notin Docs
  /\ Bases \cup References \subseteq Seq(STRING)
  /\ MaxJsonBytes \in Nat /\ MaxDepth \in Nat
  /\ MaxRegistrations \in Nat
  /\ Quote # Control /\ {Quote, Control} \cap {"\\", "u"} = {}
  /\ {Quote, Control} \subseteq STRING
  /\ \A doc \in Docs \cup ({Disk[path] : path \in DOMAIN Disk} \ {NotJson}) : IsDocument(doc)

VARIABLES
  resolver, (* its kind; "unrooted" is a file resolver without base_dir    *)
  limited,  (* whether it has been wrapped in a LimitingResolver           *)
  schemas,  (* OfflineResolver.schemas                                     *)
  log,      (* history: the registrations that took effect                 *)
  answer    (* what the last resolve call was asked and returned           *)

resolver_vars == <<resolver, limited, schemas, log, answer>>

Fail(error) == [error |-> error]
NoAnswer == [error |-> "none asked"]

ResolverInit ==
  /\ resolver \in {"offline", "file", "unrooted", "network"}
  /\ limited = FALSE
  /\ schemas = <<>>
  /\ log = <<>>
  /\ answer = NoAnswer

-----------------------------------------------------------------------------
Key(uri) == normalize_uri(uri)

(* Mutant of Register: an earlier registration stays.                      *)
RegisterOnce(uri, doc) ==
  /\ resolver # "network" /\ ~limited
  /\ Len(log) < MaxRegistrations
  /\ schemas' = [k \in DOMAIN schemas \cup {Key(uri)} |->
                   IF k \in DOMAIN schemas THEN schemas[k] ELSE doc]
  /\ log' = Append(log, [uri |-> uri, doc |-> doc])
  /\ answer' = NoAnswer
  /\ UNCHANGED <<resolver, limited>>

Register(uri, doc) ==
  /\ resolver # "network" /\ ~limited
  /\ Len(log) < MaxRegistrations
  /\ schemas' = [k \in DOMAIN schemas \cup {Key(uri)} |->
                   IF k = Key(uri) THEN doc ELSE schemas[k]]
  /\ log' = Append(log, [uri |-> uri, doc |-> doc])
  /\ answer' = NoAnswer
  /\ UNCHANGED <<resolver, limited>>

(* A text that does not parse changes nothing.                             *)
RegisterJson(uri, text) ==
  /\ resolver = "offline" /\ ~limited
  /\ \/ /\ text = NotJson
        /\ answer' = Fail("ParseError")
        /\ UNCHANGED <<resolver, limited, schemas, log>>
     \/ text # NotJson /\ Register(uri, text)

(* LimitingResolver::new takes the resolver: nothing can be registered now.*)
Wrap ==
  /\ ~limited
  /\ limited' = TRUE
  /\ answer' = NoAnswer
  /\ UNCHANGED <<resolver, schemas, log>>

-----------------------------------------------------------------------------
FilePath(uri) ==
  IF IsPrefix(<<"file://">>, uri) THEN Walked(Segments(Tail(uri)))
  ELSE Walked(BaseDir \o Segments(uri))

LoadFrom(path) ==
  CASE resolver = "unrooted" -> Fail("NotFound")
    [] resolver # "unrooted" /\ ~IsPrefix(BaseDir, path) -> Fail("PathEscaped")
    [] resolver # "unrooted" /\ IsPrefix(BaseDir, path) /\ path \notin DOMAIN Disk -> Fail("IoError")
    [] OTHER -> IF Disk[path] = NotJson THEN Fail("ParseError")
                ELSE [error |-> "none", doc |-> Disk[path], node |-> 1]

load_from_path(uri) == LoadFrom(FilePath(uri))

(* fragment::apply on a document that has been found.                      *)
Placed(doc, node) ==
  IF node = 0 THEN Fail("NotFound") ELSE [error |-> "none", doc |-> doc, node |-> node]

ApplyFragment(doc, fragment) == Placed(doc, apply(doc, fragment))

(* Given the key and the fragment of the resolved reference.               *)
resolve_offline(key, fragment) ==
  IF key \in DOMAIN schemas THEN ApplyFragment(schemas[key], fragment) ELSE Fail("NotFound")

(* Mutant of resolve_file: the disk first.                                 *)
resolve_disk_first(loaded, key, fragment) ==
  IF loaded.error = "none" THEN ApplyFragment(loaded.doc, fragment)
  ELSE resolve_offline(key, fragment)

(* A registered document is the answer even when the fragment leads        *)
(* nowhere in it; "loaded" is what the disk would have.                    *)
resolve_file(loaded, key, fragment) ==
  CASE key \in DOMAIN schemas -> ApplyFragment(schemas[key], fragment)
    [] key \notin DOMAIN schemas /\ loaded.error # "none" -> loaded
    [] OTHER -> ApplyFragment(loaded.doc, fragment)

ResolveAt(uri, fragment) ==
  CASE resolver = "network" -> Fail("NetworkDenied")
    [] resolver = "offline" -> resolve_offline(Key(uri), fragment)
    [] OTHER -> resolve_file(load_from_path(uri), Key(uri), fragment)

resolve(base, reference) ==
  LET resolved == resolve_uri(base, reference)
  IN ResolveAt(strip_fragment(resolved), Fragment(resolved))

(* Mutant of Limit: sizes are compared with >=.                            *)
LimitExclusive(result) ==
  LET measured == json_size_and_depth(result.doc, result.node)
  IN IF result.error # "none" THEN result
     ELSE IF measured.size >= MaxJsonBytes THEN Fail("SizeExceeded")
     ELSE IF measured.depth > MaxDepth THEN Fail("DepthExceeded") ELSE result

(* LimitingResolver.resolve, given the inner answer.                       *)
Limit(result) ==
  LET measured == json_size_and_depth(result.doc, result.node)
  IN CASE result.error # "none" -> result
       [] result.error = "none" /\ measured.size > MaxJsonBytes -> Fail("SizeExceeded")
       [] OTHER -> IF measured.depth > MaxDepth THEN Fail("DepthExceeded") ELSE result

Passed(result) == IF limited THEN Limit(result) ELSE result

Resolve(base, reference) ==
  /\ answer' = [base |-> base, reference |-> reference,
                result |-> Passed(resolve(base, reference))]
  /\ UNCHANGED <<resolver, limited, schemas, log>>

ResolverNext ==
  \/ \E uri \in Uris, doc \in Docs : Register(uri, doc)
  \/ \E uri \in Uris, text \in Docs \cup {NotJson} : RegisterJson(uri, text)
  \/ Wrap
  \/ \E base \in Bases, reference \in References : Resolve(base, reference)

ResolverSpec == ResolverInit /\ [][ResolverNext]_resolver_vars
-----------------------------------------------------------------------------
(* The registration that counts for a key: the last one, if any.           *)
Latest(key) == {i \in DOMAIN log : /\ Key(log[i].uri) = key
                                   /\ \A j \in i + 1 .. Len(log) : Key(log[j].uri) # key}

(* Whatever was registered, replaced or refused before, the registry holds *)
(* under each key the document registered last under a spelling of it, and *)
(* nothing under any other.                                                *)
LatestWins ==
  /\ \A i \in DOMAIN log : Key(log[i].uri) \in DOMAIN schemas
  /\ \A k \in DOMAIN schemas : \E i \in Latest(k) : schemas[k] = log[i].doc

(* The registry is authoritative: what is answered for a registered key    *)
(* comes from the document registered last, with a missing anchor reported *)
(* and not looked for on the disk, and only a file resolver answers more.  *)
Authoritative ==
  "base" \in DOMAIN answer =>
    LET resolved   == resolve_uri(answer.base, answer.reference)
        latest     == Latest(Key(strip_fragment(resolved)))
        registered == latest # {} /\ resolver # "network"
    IN /\ registered =>
            \A i \in latest :
              answer.result = Passed(ApplyFragment(log[i].doc, Fragment(resolved)))
       /\ answer.result.error = "none" /\ ~registered => resolver = "file"

-----------------------------------------------------------------------------
(* Where a fragment leads, by what the positions of the document are: the  *)
(* root and the schemas inside schemas.                                    *)
SchemasIn(doc, S) == UNION {ToSet(SchemaChildren(doc, i)) : i \in S}

Positions(doc) ==
  LET upto[n \in 0 .. Len(doc)] ==
        IF n = 0 THEN {1} ELSE upto[n - 1] \cup SchemasIn(doc, upto[n - 1])
  IN upto[Len(doc)]

Named(doc, fragment) ==
  CASE fragment = <<>> -> {1}
    [] IsPrefix(<<"/">>, fragment) -> {pointer(doc, Tail(Segments(fragment)))} \ {0}
    [] OTHER -> {i \in Positions(doc) : IsAnchor(doc, i, fragment)}

(* A fragment leads to a place that it names in the answered document, and *)
(* fails in a registered document only when it names none there: an anchor *)
(* is found wherever it is in schema position, at any depth, and nowhere   *)
(* else.                                                                   *)
PlacesExact ==
  ~limited /\ "base" \in DOMAIN answer =>
    LET resolved == resolve_uri(answer.base, answer.reference)
        fragment == Fragment(resolved)
        key      == Key(strip_fragment(resolved))
    IN IF answer.result.error = "none"
       THEN answer.result.node \in Named(answer.result.doc, fragment)
       ELSE key \in DOMAIN schemas /\ resolver # "network" => Named(schemas[key], fragment) = {}

SameDocument(identity) ==
  {i \in DOMAIN log : Fragment(log[i].uri) = <<>> /\ Identity(log[i].uri) = identity}

(* The document registered last, else the one in the file; none or one.    *)
Held(same, path) ==
  CASE resolver = "network" -> {}
    [] resolver # "network" /\ same # {} -> {log[Max(same)].doc}
    [] OTHER -> {Disk[p] : p \in {p \in DOMAIN Disk : /\ p = path /\ IsPrefix(BaseDir, p)
                                                      /\ resolver = "file"}} \ {NotJson}

(* Documents are identified by their URIs as RFC 3986 resolves references, *)
(* file URIs by the file: the answer is a place that the fragment names in *)
(* the document registered last under a URI of that identity, else, in a   *)
(* file resolver, in the file.  A URI with a fragment identifies no        *)
(* document.  Requests are restricted to those that the simplified         *)
(* algorithm is meant for.                                                 *)
AnswersExact ==
  ~limited /\ "base" \in DOMAIN answer /\ Plain(answer.base, answer.reference) =>
    LET target == Target(answer.base, answer.reference)
        held   == Held(SameDocument(Identity(target)), FilePath(strip_fragment(target)))
        places == UNION {{[doc |-> doc, node |-> n] : n \in Named(doc, Fragment(target))} :
                           doc \in held}
    IN IF answer.result.error # "none" THEN places = {}
       ELSE [doc |-> answer.result.doc, node |-> answer.result.node] \in places

(* The bytes of a value's compact JSON.                                    *)
Escaped(c) == CASE c = Quote -> <<"\\", c>>
                [] c = Control -> <<"\\", "u", "0", "0", "0", "1">>
                [] OTHER -> <<c>>

Quoted(text) ==
  <<"quote">> \o FlattenSeq([i \in 1 .. Len(text) |-> Escaped(text[i])]) \o <<"quote">>

Listed(items) ==
  FlattenSeq([i \in 1 .. Len(items) |-> IF i = 1 THEN items[i] ELSE <<",">> \o items[i]])

Serialized(doc, root) ==
  LET json[i \in DOMAIN doc] ==
        LET node  == doc[i]
            inner == [p \in 1 .. Len(node.parts) |-> json[node.parts[p]]]
        IN CASE node.kind \in DOMAIN Literals -> Literals[node.kind]
             [] node.kind = "number" -> node.text
             [] node.kind = "string" -> Quoted(node.text)
             [] node.kind = "array" -> <<"[">> \o Listed(inner) \o <<"]">>
             [] OTHER -> <<"{">> \o Listed([p \in 1 .. Len(node.parts) |->
                                             Quoted(node.keys[p]) \o <<":">> \o inner[p]]) \o <<"}">>
  IN json[root]

(* The longest way down from a value, itself included.                     *)
Nesting(doc, root) ==
  LET level[i \in DOMAIN doc] == 1 + Max({0} \cup {level[p] : p \in ToSet(doc[i].parts)})
  IN level[root]

(* The bytes of a text, with each \u escape for two.                       *)
Estimate(bytes) ==
  Len(bytes) - 4 * Cardinality({i \in DOMAIN bytes : bytes[i] = "u" /\ i > 1 /\ bytes[i - 1] = "\\"})

Within(error, size, depth) ==
  /\ error = "SizeExceeded" <=> size > MaxJsonBytes
  /\ error = "none" <=> size <= MaxJsonBytes /\ depth <= MaxDepth

(* What passes the limits is no larger than they say, but for the          *)
(* documented underestimate of \u escapes, and no deeper; what is refused  *)
(* is larger or deeper.                                                    *)
LimitsExact ==
  limited /\ "base" \in DOMAIN answer =>
    \A inner \in {resolve(answer.base, answer.reference)} :
      inner.error = "none" =>
        Within(answer.result.error, Estimate(Serialized(inner.doc, inner.node)),
               Nesting(inner.doc, inner.node))
=============================================================================
