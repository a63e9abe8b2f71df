--------------------------- MODULE EnvironmentFile ---------------------------
(***************************************************************************)
(* server.env as the text it is: its lines in order, and the programs that *)
(* read, patch, complete and create it.  Of the settings, the four that a  *)
(* deployment decides: GWAY_BASE_DOMAIN, GWAY_DNS_PROVIDER,                *)
(* GWAY_VPN_HOSTNAME and GWAY_REGISTER_HOSTNAME.                           *)
(***************************************************************************)
EXTENDS Naturals, Sequences

CONSTANT None       \* no value, no file

Settings == {"base", "provider", "vpn", "register"}

Has(text, k) == \E i \in DOMAIN text : text[i].key = k
FirstLine(text, k) ==
    CHOOSE i \in DOMAIN text : text[i].key = k /\ \A j \in DOMAIN text : text[j].key = k => i <= j
LastLine(text, k) ==
    CHOOSE i \in DOMAIN text : text[i].key = k /\ \A j \in DOMAIN text : text[j].key = k => j <= i

\* read_environment_file, and the shell that sources the file: a later line wins.
ValueOf(text, k) == IF Has(text, k) THEN text[LastLine(text, k)].value ELSE None
Values(text) == [k \in Settings |-> ValueOf(text, k)]

AddLine(text, k, v) == Append(text, [key |-> k, value |-> v])

\* _replace_env_values pops a change at the first line it finds for it.
ReplaceValue(text, k, v) ==
    IF Has(text, k) THEN [text EXCEPT ![FirstLine(text, k)].value = v] ELSE AddLine(text, k, v)

\* _set_existing_dns_provider changes every line of the setting.
SetValue(text, k, v) ==
    IF Has(text, k)
    THEN [i \in DOMAIN text |-> IF text[i].key = k THEN [text[i] EXCEPT !.value = v] ELSE text[i]]
    ELSE AddLine(text, k, v)

\* ensure_environment: the text of a new file, and a setting an old one lacks.
NewText(settings) ==
    <<[key |-> "base", value |-> settings.base],
      [key |-> "provider", value |-> settings.provider],
      [key |-> "vpn", value |-> settings.vpn],
      [key |-> "register", value |-> settings.register]>>
AppendIfMissing(text, k, v) == IF Has(text, k) THEN text ELSE AddLine(text, k, v)
==============================================================================
