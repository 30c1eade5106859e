-------------------------------- MODULE Library --------------------------------
(***************************************************************************)
(* The parts of the library that share no state with any other: a program    *)
(* uses each on its own.  A behaviour is one of a single part, the subject;  *)
(* the others stay as they are.                                              *)
(***************************************************************************)
EXTENDS RateLimiter, KeyRotation, Money, Pagination, Saga, Settings, Responses

CONSTANTS MaxEdits,                                          \* of Texts
          Bytes, Secrets, MaxBytes, Iat                      \* of Tokens

VARIABLES subject,
          kind, text, edits,
          data, token, signer, damaged

TextsOf == INSTANCE Texts
TokensOf == INSTANCE Tokens

text_vars == <<kind, text, edits>>
token_vars == <<data, token, signer, damaged>>

all_vars == <<subject, vars, rotation_vars, money_vars, page_vars, saga_vars,
              text_vars, token_vars, response_vars, settings_vars>>

Subjects == {"limiter", "rotation", "money", "pages", "saga", "texts", "tokens", "responses", "settings"}

\* The subject begins in any of its initial states, the others in one of theirs.
LibraryInit ==
    /\ subject \in Subjects
    /\ Init
    /\ RotationInit
    /\ subject = "money" \/ balance = [cents |-> 0, currency |-> CHOOSE c \in Currencies : TRUE]
    /\ MoneyInit
    /\ subject = "pages" \/ (size = 1 /\ total = 1)
    /\ PagesInit
    /\ SagaInit
    /\ TextsOf!TextInit
    /\ subject = "texts" \/ (kind = "phone" /\ Len(text) = 8)
    /\ subject = "tokens" \/ signer = CHOOSE s \in Secrets : TRUE
    /\ TokensOf!TokenInit
    /\ ResponsesInit
    /\ subject = "settings" \/ env = [n \in Names |-> NotSet]
    /\ SettingsInit

\* A part takes a step exactly when it is the subject.
LibraryNext ==
    /\ UNCHANGED subject
    /\ IF subject = "limiter" THEN Next ELSE UNCHANGED vars
    /\ IF subject = "rotation" THEN RotationNext ELSE UNCHANGED rotation_vars
    /\ IF subject = "money" THEN MoneyNext ELSE UNCHANGED money_vars
    /\ IF subject = "pages" THEN PagesNext ELSE UNCHANGED page_vars
    /\ IF subject = "saga" THEN SagaNext ELSE UNCHANGED saga_vars
    /\ IF subject = "texts" THEN TextsOf!TextNext ELSE UNCHANGED text_vars
    /\ IF subject = "tokens" THEN TokensOf!TokenNext ELSE UNCHANGED token_vars
    /\ IF subject = "responses" THEN ResponsesNext ELSE UNCHANGED response_vars
    /\ IF subject = "settings" THEN SettingsNext ELSE UNCHANGED settings_vars

LibrarySpec == LibraryInit /\ [][LibraryNext]_all_vars

-----------------------------------------------------------------------------
(* Properties of the parts *)

\* UUID, traceparent, e-mail and phone texts: each parser accepts the texts of its
\* format and refuses damaged ones (how far, Texts says), and the ids of a UUID or a
\* traceparent are written back as they were read.
TextsMatchReference == subject = "texts" => TextsOf!TextsMatchReference

\* base64url and JwtSigner: what is encoded is decoded, and verify() accepts what
\* sign() made with its secret.
TokensRoundTrip == subject = "tokens" => TokensOf!TokensRoundTrip
=============================================================================
