SPECIFICATION Spec
CONSTANTS
  a = a  b = b  a1 = a1  a2 = a2  b1 = b1  b2 = b2
  Client <- MCClient
  NoClient = NoClient
  Req <- MCReq
  adapter_dir <- MCAdapter
  input_len <- MCInputLen
  max_output_len <- MCOutputLen
  lora_rank <- WithLora
  max_total_tokens = 17
  batch_max_tokens = 7
  running_max_req_size = 2
  max_req_input_len = 5
  max_req_total_len = 7
  service_def = "tiered"
  HIGH_TIER_START = 2
  QUADRATIC_DIVISOR = 1
  max_wait_tokens = 1
INVARIANTS TypeOK NoRequestLost BatchFits
PROPERTIES AbortedStops LookFindsWork ImplementsContract
