\* Three threads share one Encryptor and make more calls than
\* max_message_count allows, up to the counter's range (the last
\* fetch_add wraps the counter to 0), and reset_counter may run once.
CONSTANTS
    Threads = {t1, t2, t3}
    W = 3
    MaxCount = 3
    MaxCalls = 8
    SealFaults = TRUE
    MaxResets = 1
SYMMETRY ThreadSymmetry
SPECIFICATION Spec
INVARIANT TypeOK
