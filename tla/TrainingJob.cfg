SPECIFICATION Spec
CONSTANTS
  SampleSize = 2
  Margin = 3
  Progress <- Steps
  Dataset <- Datasets
  Format = {"auto", "qa_json", "sharegpt", "dpo"}
  Mapping <- Mappings
  Output <- Outputs
  Verbosity = {"quiet", "concise", "full"}
  ChunkSize = 3
INVARIANTS TypeOK DatasetIsUnderstood 
CHECK_DEADLOCK FALSE
