----------------------------- MODULE RouteInput -----------------------------
(***************************************************************************)
(* A route's input declaration, crates/nitr-http/src/validation/mod.rs,    *)
(* and what a request to the route meets, handler/mod.rs and               *)
(* validation/run.rs: the declaration is checked when the application      *)
(* loads, the media type before the body is read, and the four parts of    *)
(* the input one after the other, their failures gathered.                 *)
(*                                                                         *)
(* What a schema finds in a part is free (it is another module's matter);  *)
(* here it is which parts are looked at, and what becomes of the request.  *)
(***************************************************************************)
EXTENDS Integers, Sequences, FiniteSets, SequencesExt

CONSTANT
  ContentLists   \* `content` as an application may write it

VARIABLES
  decl,          \* the declaration, and whether upload_dir is configured
  input,         \* what compiling it gave
  reply          \* what the last request got

inputVars == <<decl, input, reply>>

\* Content::parse knows four names; "xml" is one it does not.
Contents == {"json", "form", "multipart", "raw"}
Names == Contents \cup {"xml"}
DefaultContent == <<"json", "form">>
TextParts == {"params", "query", "headers"}

ASSUME ContentsAreNamed == ContentLists \subseteq Seq(Names)

\* body: none, a bare schema, or a table with schema, file and content keys.  A
\* schema has file rules or not.  fault: a key input does not know, a name in params the
\* route does not capture, a header name not in lowercase, a `strict` that is no boolean.
Declarations ==
  [body    : {"none", "bare", "table"},
   schema  : {"none", "fields", "files"},
   file    : BOOLEAN,
   content : ContentLists \cup {<<"default">>},
   params  : BOOLEAN,
   fault   : {"none", "key", "param", "header", "strict"},
   root    : BOOLEAN]

Declared(d) ==
  /\ d.body = "bare" => d.schema # "none" /\ ~d.file /\ d.content = <<"default">>
  /\ d.fault = "param" => d.params

NoInput == [ok |-> FALSE]
NoReply == [code |-> 0]

-----------------------------------------------------------------------------
(* Loading: InputSchemas::parse and compile_body *)

\* Content::accepts
Accepts(c, media) ==
  \/ c = "raw"
  \/ c = "json" /\ media \in {"none", "json"}
  \/ c \in {"form", "multipart"} /\ media = c

\* The names of a list in their order, each where it first stands.
OnceEach(list) ==
  LET out[n \in 0..Len(list)] ==
        IF n = 0 THEN <<>>
        ELSE IF list[n] \in ToSet(out[n - 1]) THEN out[n - 1] ELSE Append(out[n - 1], list[n])
  IN  out[Len(list)]

\* The contents of the declaration.
ContentsOf(d) == IF d.content = <<"default">> THEN DefaultContent ELSE OnceEach(d.content)

Uploading(cs) == ToSet(cs) \cap {"multipart", "raw"} # {}
HasFiles(d) == d.file \/ d.schema = "files"

\* Mutant: the opt-in is asked of a schema only.
BodyRefused_noOptIn(d) ==
  LET cs == ContentsOf(d)
  IN  \/ cs = <<>> \/ ~(ToSet(cs) \subseteq Contents)
      \/ d.schema = "none" /\ ~d.file
      \/ d.schema # "none" /\ d.file
      \/ d.schema # "none" /\ "raw" \in ToSet(cs)
      \/ d.schema = "files" /\ ~Uploading(cs)
      \/ Uploading(cs) /\ HasFiles(d) /\ ~d.root

\* compile_body(): what it refuses, in its order.
BodyRefused(d) ==
  LET cs == ContentsOf(d)
  IN  \/ cs = <<>> \/ ~(ToSet(cs) \subseteq Contents)
      \/ d.schema = "none" /\ ~d.file
      \/ d.file /\ d.schema = "none" /\ cs # <<"raw">>
      \/ d.schema # "none" /\ d.file
      \/ d.schema # "none" /\ "raw" \in ToSet(cs)
      \/ HasFiles(d) /\ ~Uploading(cs)
      \/ Uploading(cs) /\ HasFiles(d) /\ ~d.root

Refused(d) == (d.body # "none" /\ BodyRefused(d)) \/ d.fault # "none"

\* InputSchemas::parse
Load ==
  /\ input = NoInput
  /\ \E d \in Declarations :
       /\ Declared(d)
       /\ decl' = d
       /\ input' =
            IF Refused(d) THEN [ok |-> FALSE, refused |-> TRUE]
            ELSE [ok |-> TRUE, rule |-> IF d.file THEN "file" ELSE "schema",
                  contents |-> IF d.body = "none" THEN <<>> ELSE ContentsOf(d),
                  parts |-> {"query", "headers"} \cup (IF d.params THEN {"params"} ELSE {})]
  /\ UNCHANGED reply

-----------------------------------------------------------------------------
(* A request: handle_inner() and validate() *)

\* negotiate(): the first declared content that accepts the media type.
Negotiate(media) ==
  LET fit == {i \in DOMAIN input.contents : Accepts(input.contents[i], media)}
  IN  IF fit = {} THEN "refused"
      ELSE input.contents[CHOOSE i \in fit : \A j \in fit : i <= j]

\* needs_spool() and the upload root decide whether the request has a spool.
HasSpool(content) == content \in {"multipart", "raw"} /\ decl.root

\* body_part(): decode as the negotiated content says, then the schema's verdict.
\* A form or a raw body cannot be malformed; a multipart body whose type names no
\* boundary is, before anything else is looked at.
BodyPart(content, body) ==
  IF input.rule = "schema" /\ content = "multipart" /\ body = "unbounded" THEN "bad"
  ELSE IF \/ content \in {"multipart", "raw"} /\ ~HasSpool(content)
          \/ input.rule = "schema" /\ content = "raw"
          \/ input.rule = "file" /\ content # "raw" THEN "error"
  ELSE IF body = "malformed" THEN IF content \in {"json", "multipart"} THEN "bad" ELSE "ok"
  ELSE IF body = "unbounded" THEN "ok"
  ELSE body

\* validate(): params, query, headers, body; every part's failures are recorded,
\* and req.valid is set when there are none.  verdict[p]: what the schema of text
\* part p says.
Validated(content, verdict, body) ==
  LET b == IF content = "nobody" THEN "ok" ELSE BodyPart(content, body)
      failures == {p \in input.parts : verdict[p] = "bad"} \cup (IF b = "bad" THEN {"body"} ELSE {})
  IN  IF b = "error" THEN [code |-> 500, failures |-> {}, valid |-> FALSE]
      ELSE IF failures # {} THEN [code |-> 422, failures |-> failures, valid |-> FALSE]
      ELSE [code |-> 200, failures |-> {}, valid |-> TRUE]

\* A request: an unaccepted body is refused before anything is read.
Reply(media, verdict, body) ==
  LET content == IF input.contents = <<>> THEN "nobody" ELSE Negotiate(media)
  IN  IF content = "refused" THEN [code |-> 415, failures |-> {}, valid |-> FALSE]
      ELSE Validated(content, verdict, body)

MediaKinds == {"none", "json", "form", "multipart", "text"}
Verdicts == [TextParts -> {"ok", "bad"}]
BodyKinds == {"ok", "bad", "malformed", "unbounded"}

Ask ==
  /\ input.ok
  /\ reply = NoReply
  /\ \E media \in MediaKinds, verdict \in Verdicts, body \in BodyKinds :
       LET a == Reply(media, verdict, body)
       IN  /\ body = "unbounded" => media = "multipart"
           /\ reply' = [media |-> media, verdict |-> verdict, body |-> body,
                         code |-> a.code, failures |-> a.failures, valid |-> a.valid]
  /\ UNCHANGED <<decl, input>>

InputInit ==
  /\ decl = NoInput
  /\ input = NoInput
  /\ reply = NoReply

InputNext == Load \/ Ask

InputSpec == InputInit /\ [][InputNext]_inputVars

-----------------------------------------------------------------------------
(* Properties *)

\* The one declaration that loads and cannot be served: a multipart body without
\* file rules on a server without upload_dir.
TextOnlyMultipart == "multipart" \in ToSet(input.contents) /\ ~HasFiles(decl) /\ ~decl.root

\* A declaration that loads can be served: what a request is answered depends on
\* the request, never on a declaration that load should have refused; the client
\* learns of every part that failed, not of the first, and a handler sees
\* req.valid only when none did.  (compile_body against body_part; validate)
DeclaredInputIsServed ==
  reply # NoReply =>
    LET sent == \E i \in DOMAIN input.contents : Accepts(input.contents[i], reply.media)
        bad == {p \in input.parts : reply.verdict[p] = "bad"}
    IN  /\ reply.code = 500 => TextOnlyMultipart
        /\ reply.code = 415 <=> input.contents # <<>> /\ ~sent
        /\ reply.code = 422 => bad \subseteq reply.failures
        /\ reply.valid => bad = {} /\ (input.contents # <<>> => reply.body # "bad")
=============================================================================
