-------------------------------- MODULE Settings --------------------------------
(***************************************************************************)
(* config/settings.hpp: typed access to environment variables, and the       *)
(* ConfigValidator a program reads all its settings through at startup.  The *)
(* text of a variable is the number it begins with, if any, and the rest.    *)
(***************************************************************************)
EXTENDS Integers, Sequences, Functions

CONSTANTS Names,           \* of environment variables
          SettingTexts,    \* texts a variable may have
          MaxInt,          \* largest int
          MaxLong,         \* largest long long
          MaxReads         \* bound on the settings a program reads

ASSUME SettingsAssumption ==
    /\ \A text \in SettingTexts : text.numeric \in BOOLEAN /\ text.number \in Int
    /\ MaxInt \in Nat /\ MaxLong \in Nat

VARIABLES env,         \* the environment: name -> text
          errors_,     \* of the validator: the names with an error
          reads,       \* what the program has read: how, as what, name and value
          startup      \* "reading" until check() returns or something throws

settings_vars == <<env, errors_, reads, startup>>

\* The number has the value 0 when the text begins with none.
Text(numeric, number, rest) == [numeric |-> numeric, number |-> number, rest |-> rest]
Word(rest) == Text(FALSE, 0, rest)
NotSet == Word("unset")                 \* getenv() returns a null pointer
Empty == Word("")
Missing(text) == text \in {NotSet, Empty}

\* A value and an error have one form.
Value(v) == <<v>>
ConfigError == <<>>

-----------------------------------------------------------------------------
(* Conversions *)

\* std::stoi() and std::stoll() take the number and ignore the rest.
Leading(text, largest) ==
    IF text.numeric /\ text.number \in -largest - 1..largest
    THEN Value(text.number) ELSE ConfigError

stoi(text) == Leading(text, MaxInt)
stoll(text) == Leading(text, MaxLong)

Milliseconds == [ms |-> 1, s |-> 1000, m |-> 60000, h |-> 3600000]

\* The build's outcome when the milliseconds do not fit in a long long
WrappedLong(n) == ((n + MaxLong + 1) % (2 * (MaxLong + 1))) - MaxLong - 1

parse_duration(text) ==
    IF stoll(text) = ConfigError \/ text.rest \notin DOMAIN Milliseconds
    THEN ConfigError
    ELSE Value(WrappedLong(text.number * Milliseconds[text.rest]))

-----------------------------------------------------------------------------
(* Free functions: an error is thrown *)

require_env(name) == IF Missing(env[name]) THEN ConfigError ELSE Value(env[name])

env_as_int(name) == IF Missing(env[name]) THEN ConfigError ELSE stoi(env[name])

\* A value that is not in the set is an error.
Among(result, set) == IF result = ConfigError \/ result[1] \notin set THEN ConfigError ELSE result

uint16_t == 0..65535

env_as_uint16_t(name) == Among(env_as_int(name), uint16_t)

env_as_bool(name) == Value(env[name] \in {Text(TRUE, 1, ""), Word("true"), Word("yes"), Word("on")})

env_as_milliseconds(name) == IF Missing(env[name]) THEN ConfigError ELSE parse_duration(env[name])

env_as(type, name) ==
    CASE type = "string"       -> require_env(name)
      [] type = "int"          -> env_as_int(name)
      [] type = "uint16_t"     -> env_as_uint16_t(name)
      [] type = "bool"         -> env_as_bool(name)
      [] type = "milliseconds" -> env_as_milliseconds(name)

\* The predicate is the set of values it accepts.
require_validated(type, name, predicate) == Among(env_as(type, name), predicate)

env_or(type, name, default_val) ==
    IF Missing(env[name]) THEN Value(default_val) ELSE env_as(type, name)

\* The number counts milliseconds, whatever follows it.
env_duration_ms(name, default_val) ==
    IF Missing(env[name]) THEN Value(default_val) ELSE stoll(env[name])

-----------------------------------------------------------------------------
(* Startup *)

SettingsInit ==
    /\ env \in [Names -> SettingTexts \cup {NotSet, Empty}]
    /\ errors_ = <<>>
    /\ reads = <<>>
    /\ startup = "reading"

Reading == startup = "reading" /\ Len(reads) < MaxReads

Keep(how, type, name, v) ==
    reads' = Append(reads, [how |-> how, type |-> type, name |-> name, value |-> v])

\* A function that throws ends the startup.
Obtain(how, type, name, result) ==
    /\ Reading
    /\ IF result = ConfigError
       THEN startup' = "failed" /\ UNCHANGED reads
       ELSE Keep(how, type, name, result[1]) /\ UNCHANGED startup
    /\ UNCHANGED <<env, errors_>>

EnvAs(type, name) == Obtain("env_as", type, name, env_as(type, name))

Positive == 1..MaxLong
Validated(type, name) == Obtain("validated", type, name, require_validated(type, name, Positive))

DefaultVal == 7
EnvOr(type, name) == Obtain("env_or", type, name, env_or(type, name, DefaultVal))
EnvDurationMs(name) == Obtain("env_or", "count", name, env_duration_ms(name, DefaultVal))

-----------------------------------------------------------------------------
(* ConfigValidator *)

\* The error is noted and the program gets a default.
Note(type, name, result, otherwise) ==
    /\ Reading
    /\ IF result = ConfigError
       THEN errors_' = Append(errors_, name) /\ Keep("validator", type, name, otherwise)
       ELSE Keep("validator", type, name, result[1]) /\ UNCHANGED errors_
    /\ UNCHANGED <<env, startup>>

require(name) == Note("string", name, require_env(name), Empty)

\* A missing variable is noted by require(), an unreadable one here.
RequireIntUnnoted(name) ==
    IF require_env(name) # ConfigError /\ stoi(env[name]) = ConfigError
    THEN Reading /\ Keep("validator", "int", name, 0) /\ UNCHANGED <<env, errors_, startup>>
    ELSE Note("int", name, env_as_int(name), 0)

require_int(name) == Note("int", name, env_as_int(name), 0)

require_duration(name) == Note("milliseconds", name, env_as_milliseconds(name), 0)

check ==
    /\ startup = "reading"
    /\ startup' = IF errors_ = <<>> THEN "passed" ELSE "failed"
    /\ UNCHANGED <<env, errors_, reads>>

Started == startup # "reading" /\ UNCHANGED settings_vars

SettingsNext ==
    \/ \E name \in Names :
          \/ \E type \in {"string", "int", "uint16_t", "bool", "milliseconds"} : EnvAs(type, name)
          \/ \E type \in {"int", "uint16_t"} : Validated(type, name)
          \/ \E type \in {"int", "uint16_t", "milliseconds"} : EnvOr(type, name)
          \/ EnvDurationMs(name)
          \/ require(name) \/ require_int(name) \/ require_duration(name)
    \/ check
    \/ Started

SettingsSpec == SettingsInit /\ [][SettingsNext]_settings_vars

-----------------------------------------------------------------------------
(* Properties *)

\* The text is one of the type.
Wellformed(type, text) ==
    \/ type = "string" /\ ~Missing(text)
    \/ type = "int" /\ text.numeric /\ text.number \in -MaxInt - 1..MaxInt
    \/ type = "uint16_t" /\ text.numeric /\ text.number \in uint16_t
    \/ type = "count" /\ text.numeric /\ text.number \in -MaxLong - 1..MaxLong
    \/ /\ type = "milliseconds" /\ text.numeric /\ text.number \in -MaxLong - 1..MaxLong
       /\ text.rest \in DOMAIN Milliseconds
    \/ type = "bool"

\* The text is one of the type, and v what it stands for.
StandsFor(type, text, v) ==
    /\ Wellformed(type, text)
    /\ type = "string" => v = text
    /\ type = "bool" /\ v = TRUE => ~Missing(text)
    /\ type \in {"int", "uint16_t", "count"} => v = text.number
    /\ type = "milliseconds" =>
          LET amount == text.number * Milliseconds[text.rest]
          IN  v = amount \/ amount \notin -MaxLong - 1..MaxLong

\* What the validator could not read
Unread == {k \in DOMAIN reads : reads[k].how = "validator"
                                  /\ ~Wellformed(reads[k].type, env[reads[k].name])}

\* A program whose startup passed check() runs on what its variables say: each
\* value is the one the text stands for, or the default the program itself gave for
\* a missing variable, never the empty value that the validator returns with an
\* error (durations beyond a long long excepted).  Until then the validator has
\* noted exactly the reads that it could not satisfy, in order.
StartedOnItsSettings ==
    /\ startup = "passed" =>
          \A r \in Range(reads) :
             \/ r.how = "env_or" /\ Missing(env[r.name]) /\ r.value = DefaultVal
             \/ StandsFor(r.type, env[r.name], r.value)
    /\ \E place \in [DOMAIN errors_ -> DOMAIN reads] :
          /\ \A i, j \in DOMAIN errors_ : i < j => place[i] < place[j]
          /\ Range(place) = Unread
          /\ \A i \in DOMAIN errors_ : errors_[i] = reads[place[i]].name
=============================================================================
