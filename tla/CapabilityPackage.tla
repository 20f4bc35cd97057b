-------------------------- MODULE CapabilityPackage --------------------------
(***************************************************************************)
(* The signed capability package of the desktop's reference tools: what a  *)
(* file must be to be accepted, and what the accepted package says of a    *)
(* request. Files and requests are tuples.                                 *)
(*                                                                         *)
(* A file:    <<signed, digest matches, identity, tools>>                  *)
(* A tool:    <<name, risk, asks for confirmation, parameters, required>>  *)
(* A request: <<tools it targets, name, metadata, <<risk, asks>>, key,     *)
(*              arguments>>                                                *)
(* A parameter is <<name, type>>, an argument <<name, type, value>>.       *)
(***************************************************************************)
EXTENDS Integers, Sequences

Signed(f) == f[1]
DigestMatches(f) == f[2]
Identity(f) == f[3]
ToolsOf(f) == f[4]

NameOf(t) == t[1]
Policy(t) == <<t[2], t[3]>>
Parameters(t) == t[4]
Required(t) == t[5]

Target(q) == q[1]
ToolName(q) == q[2]
Metadata(q) == q[3]
RequestPolicy(q) == q[4]
Key(q) == q[5]
Args(q) == q[6]

Types == {"string", "integer", "boolean"}

\* parseManifest: reads ask for nothing, low writes ask, nothing else exists.
ManifestOK(tools) ==
  \A t \in {tools[i] : i \in DOMAIN tools} :
    /\ Policy(t) \in {<<"read", FALSE>>, <<"low_write", TRUE>>}
    /\ \A p \in Parameters(t) : p[2] \in Types
    /\ Required(t) \subseteq {p[1] : p \in Parameters(t)}

\* verifyCapabilityPackage
Verified(f) ==
  /\ Signed(f) /\ DigestMatches(f)
  /\ ManifestOK(ToolsOf(f))
  /\ Identity(f) = <<"reference-manufacturing", "1.0.0">>
  /\ \A i, j \in DOMAIN ToolsOf(f) :
       NameOf(ToolsOf(f)[i]) = NameOf(ToolsOf(f)[j]) => i = j

\* requireTool: the request targets this very package, and the tool is in it.
Requires(f, q) ==
  /\ Target(q) = ToolsOf(f)
  /\ \E i \in DOMAIN ToolsOf(f) : NameOf(ToolsOf(f)[i]) = ToolName(q)

RequiredTool(f, q) ==
  ToolsOf(f)[CHOOSE i \in DOMAIN ToolsOf(f) : NameOf(ToolsOf(f)[i]) = ToolName(q)]

MetadataOK(t, q) == Metadata(q) /\ RequestPolicy(q) = Policy(t)

Has(q, n) == \E a \in Args(q) : a[1] = n
Arg(q, n) == CHOOSE a \in Args(q) : a[1] = n

\* An absent argument: not there, null, or an empty text.
Absent(q, p) ==
  \/ ~Has(q, p[1])
  \/ Arg(q, p[1])[2] = "null"
  \/ p[2] = "string" /\ Arg(q, p[1])[2] = "blank"

\* A blank is a string; a fraction is of none of the types.
HasType(a, type) == a[2] = type \/ (a[2] = "blank" /\ type = "string")

\* validateArguments: only declared arguments, the required ones present, each
\* present one of its type.
Accepts(t, q) ==
  /\ \A a \in Args(q) : \E p \in Parameters(t) : p[1] = a[1]
  /\ \A p \in Parameters(t) :
       IF Absent(q, p) THEN p[1] \notin Required(t) ELSE HasType(Arg(q, p[1]), p[2])

=============================================================================
