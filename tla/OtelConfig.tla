------------------------------ MODULE OtelConfig ------------------------------
(***************************************************************************)
(* The .ores-otel.toml loader (src/src/ores-otel-config.ts): which file is *)
(* read, what each layer may say, which role's layer applies, and which    *)
(* layer's word about a key is the one the configuration has.  Sub-tables  *)
(* merge key by key, so one key, chosen at the start, is followed through  *)
(* all the layers.                                                         *)
(*                                                                         *)
(* What a layer says of the key: a boolean, a number (n, written as a      *)
(* float literal or not), a string (n numbers the words of an enumeration, *)
(* or is its trimmed length) or an array of numbers or strings (0 is the   *)
(* blank one).                                                             *)
(***************************************************************************)
EXTENDS Integers, Sequences, FiniteSetsExt, Filter

CONSTANTS CfWords     \* CfWords[key]: what a layer may say of each key
VARIABLES cf
cfVars == <<cf>>

Absent == [type |-> "absent", n |-> 0, float |-> FALSE, items |-> <<>>]
Places == {"common", "client", "server", "env", "flags", "overrides"}
InFile == {"common", "client", "server"}

-----------------------------------------------------------------------------
(* Contract validation *)

Number(word, lo, hi, integer) ==
    word.type = "number" /\ word.n \in lo..hi /\ (integer => ~word.float)
Text(word, max) == word.type = "string" /\ word.n \in 1..max
Bool(word) == word.type = "bool"
List(word, min, max) == word.type = "array" /\ Len(word.items) \in min..max
Distinct(items) == Cardinality(Range(items)) = Len(items)
Hour == 3600000

(* Mutation of ValidateHistogramBoundaries: equal neighbours pass. *)
MutantValidateHistogramBoundaries(items) ==
    /\ \A i \in DOMAIN items : items[i] > 0
    /\ Len(items) \in 1..32
    /\ \A i \in 2..Len(items) : items[i - 1] <= items[i]

ValidateHistogramBoundaries(items) ==
    /\ \A i \in DOMAIN items : items[i] > 0
    /\ Len(items) \in 1..32
    /\ \A i \in 2..Len(items) : items[i - 1] < items[i]

(* parseLogging, parseTracing, ..., parseLayer: a key of each kind.  A key  *)
(* the contract does not name, secret-shaped or not, is refused.           *)
Admits(key, word) ==
    CASE key = "logging.console" -> Bool(word)
      [] key = "service_name" -> Text(word, 256)
      [] key = "logging.level" -> Text(word, 6)
      [] key = "tracing.sample_ratio" -> Number(word, 0, 1, FALSE)
      [] key = "process.sample_interval_ms" -> Number(word, 100, Hour, TRUE)
      [] key = "tracing.propagators" ->
            List(word, 0, 8) /\ Range(word.items) \subseteq {1, 2} /\ Distinct(word.items)
      [] key = "filesystem.paths" ->
            List(word, 1, 32) /\ 0 \notin Range(word.items) /\ Distinct(word.items)
      [] key = "latency.histogram_boundaries_ms" ->
            List(word, 0, Len(word.items)) /\ ValidateHistogramBoundaries(word.items)
      [] OTHER -> FALSE

(* ORES_OTEL_* variables are text: envInteger refuses a fraction, an array  *)
(* may not have an empty entry, but the list of propagators may.  A key    *)
(* without a variable is not looked for.                                   *)
EnvSays(key, word) ==
    IF key = "tracing.propagators" /\ word.type = "array"
    THEN [word EXCEPT !.items = Without(@, {0})]
    ELSE word
EnvAdmits(key, word) ==
    /\ Admits(key, EnvSays(key, word))
    /\ key = "tracing.propagators" => EnvSays(key, word).items # <<>>

(* Overrides are values, not literals: 5000.0 is 5000. *)
OverridesAdmit(key, word) == Admits(key, [word EXCEPT !.float = FALSE])

-----------------------------------------------------------------------------
(* Layers and roles *)

Runtimes == {"client", "server"}

(* effectiveOresOtelEnv: the flags over the environment. *)
EffectiveEnv(x) ==
    [word |-> IF x.says["flags"] # Absent THEN [place |-> "flags", word |-> x.says["flags"]]
              ELSE [place |-> "env", word |-> x.says["env"]],
     role |-> IF x.flagRole # "none" THEN x.flagRole ELSE x.envRole]

(* requestedRole: the argument, or ORES_OTEL_ROLE when it is not blank.     *)
RequestedRole(x) == IF x.role # "none" THEN x.role ELSE EffectiveEnv(x).role

(* Mutation of SelectRole: client wins when nobody says which. *)
MutantSelectRole(x) ==
    LET asked == RequestedRole(x)
        has == x.sections
    IN  CASE asked \notin Runtimes \cup {"none"} -> "fails"
          [] asked \in Runtimes -> IF has = Runtimes \ {asked} THEN "fails" ELSE asked
          [] asked = "none" -> IF "client" \in has THEN "client"
                               ELSE IF has = {} THEN "shared" ELSE "server"

(* selectRole: a role that only the other one is defined for, or no role    *)
(* where both are, is refused.                                             *)
SelectRole(x) ==
    LET asked == RequestedRole(x)
        has == x.sections
    IN  CASE asked \notin Runtimes \cup {"none"} -> "fails"
          [] asked \in Runtimes -> IF has = Runtimes \ {asked} THEN "fails" ELSE asked
          [] asked = "none" -> IF has = Runtimes THEN "fails" ELSE IF has = {} THEN "shared"
                               ELSE CHOOSE r \in has : TRUE

(* The layers that apply, the later the stronger, as <<place, word>>. *)
Layers(x, role) ==
    << <<"common", x.says["common"]>> >>
    \o (IF role \in Runtimes THEN << <<role, x.says[role]>> >> ELSE <<>>)
    \o << <<EffectiveEnv(x).word.place, EffectiveEnv(x).word.word>>,
          <<"overrides", x.says["overrides"]>> >>

(* merge, reduced over the layers: who has the last word. *)
Merged(layers) ==
    LET says == {i \in DOMAIN layers : layers[i][2] # Absent}
    IN  IF says = {} THEN "none" ELSE layers[Max(says)][1]

(* resolvedJson: what no layer says has its default. *)
ResolvedJson(winner) == IF winner = "none" THEN "default" ELSE winner

(* parseOresOtelToml rejects a mistake in any section, applied or not; the  *)
(* environment and the overrides are parsed after the role was selected.   *)
Resolve(x) ==
    LET env == EffectiveEnv(x).word.word
        role == SelectRole(x)
        accepted ==
            /\ \A p \in InFile : x.says[p] # Absent => Admits(x.key, x.says[p])
            /\ role # "fails"
            /\ env # Absent => EnvAdmits(x.key, env)
            /\ x.says["overrides"] # Absent => OverridesAdmit(x.key, x.says["overrides"])
    IN  IF accepted THEN [role |-> role, from |-> ResolvedJson(Merged(Layers(x, role)))]
        ELSE [role |-> "fails", from |-> "fails"]

-----------------------------------------------------------------------------
(* The file *)

Blank == {"none", "blank"}
Lookups == <<"filePath", "cwd", "ORES_OTEL_CONFIG_FILE", "ORES_OTEL_CONFIG_DIR">>

(* oresOtelConfigFilePath: the first that is not blank, or the process's    *)
(* working directory.                                                      *)
ConfigFilePath(given) ==
    LET says == {i \in DOMAIN Lookups : given[Lookups[i]] \notin Blank}
    IN  IF says = {} THEN "process.cwd" ELSE Lookups[Min(says)]

(* loadOresOtelConfig: no file at that path is an empty one; a file that    *)
(* cannot be read for another reason fails.                                *)
Load ==
    /\ cf.result.role = "pending"
    /\ LET path == ConfigFilePath(cf.given)
           empty == [p \in Places |-> IF p \in InFile THEN Absent ELSE cf.says[p]]
       IN  cf' = [cf EXCEPT
            !.path = path,
            !.result = CASE cf.files[path] = "unreadable" -> [role |-> "fails", from |-> "fails"]
                         [] cf.files[path] = "missing" ->
                               Resolve([cf EXCEPT !.says = empty, !.sections = {}])
                         [] OTHER -> Resolve(cf)]

(* createLoggerFromOresOtelConfig: what of the logger's own options says    *)
(* something wins over the file's.                                         *)
CreateLogger(overridden) ==
    /\ cf.result.role \notin {"pending", "fails"} /\ cf.logger = "none"
    /\ cf' = [cf EXCEPT !.logger = IF overridden THEN "options" ELSE cf.result.from]

AllPaths == Range(Lookups) \cup {"process.cwd"}

(* Either the words vary and the file is in the working directory, or the   *)
(* file is looked for and one word is in it.                               *)
CfInit ==
    \/ \E key \in DOMAIN CfWords, sections \in SUBSET Runtimes :
        cf \in [key : {key}, sections : {sections},
                says : {s \in [Places -> CfWords[key] \cup {Absent}] :
                            \A r \in Runtimes \ sections : s[r] = Absent},
                role : {"none", "server"}, envRole : {"none", "client", "bogus"},
                flagRole : {"none", "server"},
                given : {[l \in Range(Lookups) |-> "none"]},
                files : {[p \in AllPaths |-> "there"]},
                path : {"none"}, logger : {"none"},
                result : {[role |-> "pending", from |-> "pending"]}]
    \/ LET key == CHOOSE k \in DOMAIN CfWords : TRUE IN
        \E word \in CfWords[key] :
        cf \in [key : {key}, sections : {{}},
                says : {[p \in Places |-> IF p = "common" THEN word ELSE Absent]},
                role : {"none"}, envRole : {"none"}, flagRole : {"none"},
                given : [Range(Lookups) -> {"none", "blank", "given"}],
                files : [AllPaths -> {"there", "missing", "unreadable"}],
                path : {"none"}, logger : {"none"},
                result : {[role |-> "pending", from |-> "pending"]}]

CfNext == Load \/ \E overridden \in BOOLEAN : CreateLogger(overridden)
CfSpec == CfInit /\ [][CfNext]_cfVars

-----------------------------------------------------------------------------
Loaded == cf.result.role \notin {"pending", "fails"}

(* "Resolution is deterministic: defaults < common < selected role <        *)
(* environment < flags < overrides", and no process is given the policy of *)
(* the other role or of a role nobody chose.                               *)
Strength == <<"default", "common", "client", "server", "env", "flags", "overrides">>
PrecedenceHolds ==
    Loaded =>
        LET r == cf.result
            words == IF cf.files[cf.path] = "missing" THEN {"env", "flags", "overrides"}
                     ELSE {p \in Places : p \in Runtimes => p = r.role}
        IN  /\ r.from \in words \cup {"default"}
            /\ r.from # "default" => cf.says[r.from] # Absent
            /\ \A p \in words : cf.says[p] # Absent =>
                  \E i, j \in DOMAIN Strength : Strength[i] = p /\ Strength[j] = r.from /\ i <= j
            /\ r.role \in Runtimes /\ r.role \notin {cf.role, cf.envRole, cf.flagRole}
                  => cf.sections = {r.role}

(* "Every malformed value fails loading" (docs/ores-otel-config.md:159), in  *)
(* a section that applies or not.  Contract is what that document says of   *)
(* each key: numbers in their range, no fraction where an integer is asked  *)
(* for, lists without repetitions or blanks, boundaries that ascend, and no *)
(* key but these; of the propagators in a variable the blank ones are left  *)
(* out.  A variable that a flag overrides is not looked at.                 *)
Contract(key, word, place) ==
    LET variable == place \in {"env", "flags"}
        entries == IF variable /\ key = "tracing.propagators" THEN Without(word.items, {0}) ELSE word.items
        unrepeated == \A i, j \in DOMAIN entries : i < j => entries[i] # entries[j]
    IN  CASE key = "logging.console" -> word.type = "bool"
          [] key = "service_name" -> word.type = "string" /\ word.n >= 1 /\ word.n <= 256
          [] key = "logging.level" -> word.type = "string" /\ word.n \in {1, 2, 3, 4, 5, 6}
          [] key = "tracing.sample_ratio" -> word.type = "number" /\ word.n \in {0, 1}
          [] key = "process.sample_interval_ms" ->
                /\ word.type = "number" /\ word.n >= 100 /\ word.n <= Hour
                /\ word.float => place = "overrides"
          [] key = "tracing.propagators" ->
                /\ word.type = "array" /\ unrepeated
                /\ \A i \in DOMAIN entries : entries[i] \in {1, 2}
                /\ variable => entries # <<>>
          [] key = "filesystem.paths" ->
                /\ word.type = "array" /\ unrepeated /\ entries # <<>> /\ Len(entries) <= 32
                /\ \A i \in DOMAIN entries : entries[i] # 0
          [] key = "latency.histogram_boundaries_ms" ->
                /\ word.type = "array" /\ entries # <<>> /\ Len(entries) <= 32
                /\ \A i \in DOMAIN entries : entries[i] > 0
                /\ \A i, j \in DOMAIN entries : i < j => entries[i] < entries[j]
          [] OTHER -> FALSE
MistakesAreFatal ==
    Loaded /\ cf.files[cf.path] = "there" =>
        \A p \in Places :
            cf.says[p] # Absent /\ ~(p = "env" /\ cf.says["flags"] # Absent)
                => Contract(cf.key, cf.says[p], p)

(* "Malformed environment overrides fail rather than being silently         *)
(* ignored" (docs/ores-otel-config.md:61): a malformed ORES_OTEL_ROLE is    *)
(* ignored when the caller names the role.                                  *)
RoleMistakeIsFatal == Loaded => EffectiveEnv(cf).role # "bogus"
=============================================================================
